# A TLA+ model of the durable agent runtime

This directory models `minder_harness`: a local, single-process runtime that
lets a language model work on a task with MCP tools and keeps everything it did
in one SQLite database. The model covers what happens between tasks, requests
and the database: who may change what, in which order, what a cancellation, a
deadline, a storage failure, a shutdown or a crash leaves behind.

All paths below are relative to `src/src/minder_harness/` unless they begin
with `src/`.

## 1. Inventory

| Component | State it keeps | Operations | Correct when |
| --- | --- | --- | --- |
| **SQLiteExecutionStore** `persistence/` | tables sessions, runs, messages, events, attempts, task_states; `_lock`, `_broken` | one serialized transaction per method | one active run per session; a run ends once, row and log agree; cancellation wins; unsafe calls in doubt are unique; ended rows are final |
| **AgentService** `service.py` | `_tasks`, `_tokens`, `_admission`, `_accepting`, `_fault` | submit, cancel, wait, shutdown, start (recover); a task per run with a done callback | every active run has a task that will end it; a cancellation reaches the task; a failure stops everything; shutdown completes |
| **AgentHarness** `core/harness.py` | `_active_sessions` | run | never two runs of one session inside; the end of a run is recorded |
| **AgentLoop** `core/loop.py` | usage, messages, deadline (local) | the model/tool loop | budgets are kept; every request is recorded before it is sent |
| **CancellationToken, cancellable** `core/cancellation.py` | a flag | cancel, wait, bounded I/O | a wait is cut short, never lost |
| **MCPToolExecutor** `mcp/executor.py` | catalog and its version, uncertain calls | discover, execute with retries | no blind replay; only safe calls are repeated; outcomes are honest |
| **SDKMCPClient** `mcp/client.py` | connection owner, version, slots, lock | connect, list, call, invalidate, close | a call uses the catalog it was validated against; "dispatched" is exact |
| **Context** `core/context.py` | none | `continue_transcript`, `build_context` | every tool call has exactly one reply in the view |
| **GeminiProvider** `providers/` | none | generate with at most one retry | a request leaves only announced, in time and uncancelled; retries respect the server's delay |
| **RPC, app** `rpc.py`, `app.py`, `web_routes.py` | none | requests to service calls; open and close resources | resources close in order; errors are told apart |
| **Observation clients** `observation.py`, `rpc_client.py`, `cli.py`, `web/` | event cursors, watch generation | poll a run, page through events, cancel | no event shown twice or out of order; terminal state after the last page; a stale answer is corrected |
| data types, collector, debug, progress text, mock server | - | - | no durable state |

How they interact: the RPC layer calls the service; the service owns one asyncio
task per run, which calls the harness, which calls the loop, which calls the
provider and the executor; the loop and the executor call back into the store
through `emit` and `recorder`. All of them, and every request, share the one
store and its lock; cancellation travels through the tokens and through the
`runs` table independently, and the two meet at the checks of the loop.

What is hard here:

* **interleaving**: asyncio switches at every await, and every call of the
  store is an await. Requests (submit, cancel, shutdown) interleave with the
  tasks of all runs between any two transactions.
* **two records of one fact**: a cancellation is in the token and in the row; a
  usage is in the loop and in the row; a run is in `_tasks`, in the harness's
  set of sessions and in the table. The code lets them differ for a while.
* **failure**: a transaction may fail, or commit without an acknowledgement;
  either quarantines the store. A process may die anywhere. A tool may have run
  although no answer came.
* **ordering**: the code never says so, but two of its properties hold only
  because `asyncio.Lock` wakes its waiters in order (see 4).

The file `PROJECT.json` lists the hazards at their lines with the properties
that watch them.

## 2. Modules

| Module | Models |
| --- | --- |
| `RunLedger` | the promise: a session is a slot for one run; a run in a slot is settled once; as cancelled if it was doomed |
| `ExecutionStore` | the store: one action per transaction, under an arbitrary client |
| `AgentRuntime` | the service, harness, loop and executor over the operations of `ExecutionStore` |
| `McpClient` | the shared connection to the tool server: owner task, callers, versions, places, close, and the executor's copy of the catalog |
| `Transcript` | `continue_transcript` and the cuts of `build_context`, as operators on sequences of messages |
| `Continuation` | the context of a request in the running system: `AgentRuntime` with the history `get_session` reads and `Transcript` on it |
| `ModelExchange` | the promise of one call of the model: requests announced, bounded, one at a time |
| `GeminiProvider` | one call of `generate`, with time |
| `RunObserver` | a client (page or console) that watches runs over RPC |
| `MCExecutionStore`, `MCAgentRuntime` | instances for TLC: identifiers, symmetry, table bounds |
| `ExecutionStoreProofs`, `GeminiProviderProofs`, `McpClientProofs`, `RunObserverProofs` | the theorems about the component each is named after |
| `TaskFlowProofs` | what a step of a run's task is, in `AgentRuntime`: its points, locals and transactions (lemmas) |
| `AgentRuntimeProofs` | the theorems that relate tasks and rows: the store's specification, answers, usage; attempts, retries and replays |
| `StoreLockProofs` | the theorems about `AgentRuntime` that rest on the order of the lock |
| `ContinuationProofs` | the lemmas about the sequences of `Transcript`, and the theorems about contexts and histories in `Continuation` |

`AgentRuntime` EXTENDS `ExecutionStore` and uses its operators as the
transactions of its own actions; `ExecutionStore` INSTANCEs `RunLedger`. Two
refinements tie the three together: `ImplementsLedger` (the store implements
the ledger; proved) and `StoreSpec` as a property of `AgentRuntime` (every step
of the runtime is a step the store allows to any client; proved too). What is
proved of the store under an arbitrary client therefore holds in the runtime:
`NoBlindReplay` uses it. `McpClient` stands beside them: a run sees
it only as the outcomes of `call_tool`, which `AgentRuntime` leaves open.

`GeminiProvider` and `RunObserver` stand at the two other edges of the system:
the first is what is behind the wait for the model in `AgentRuntime`, the second
what is in front of the store, and each is checked against all its environment
may do. A third refinement, `ImplementsExchange`, says that `generate` keeps
`ModelExchange` (proved).

### ExecutionStore

| Variable | Code |
| --- | --- |
| `status`, `session` | `runs.status`, `runs.session_id` |
| `usage`, `output` | `usage` and `output` of `runs.body` (output only as present or not) |
| `events[r]` | the rows of `events` of a run in sequence order: kind and who wrote it (`record_type`) |
| `messages` | `messages` in ordinal order: run, role, the tool calls it makes or answers, accepted, and whether it became an observation |
| `attempts` | `attempts` in insertion order, with the error code as far as `execution_outcomes` tells codes apart |
| `taskState` | `task_states.body`: revision and the observations, each named by its message |
| `snapshot` | the local `state` of the admitted `submit_task`, between its read and its write |
| `broken` | `_broken`, or the store is closed |

`RecordEvent` is the whole of `record_event`: the translation of the kind, the
row taken from the caller's `Run` when the run ends, the usage counted after
that, the message with its acceptance, the observation, the event.
`Observed` and `GetTaskState` may drop any number of the oldest observations:
the 6,000 character budget depends on contents that are not modelled, so every
outcome of it is allowed. `BeginAttempt` is the path that inserts; its two
refusals change nothing and are actions of `AgentRuntime`. A duplicate of
`UNIQUE(execution_id, attempt)` would be a storage failure, not an insert.

`Commit` says what a transaction may do to the flag: a commit that is not
acknowledged quarantines the store although the change is durable
(`src/tests/test_persistence.py:438` tests that case). `Quarantine` is a
transaction that is rolled back, or a close. `Open` is the next process.

### AgentRuntime

A run's task is a record: its program point `pc` and its local variables. The
points of `Reading`, `Recording` and `Forced` are calls of the store, where the
task waits for the lock; those of `Waiting` are waits for the model, for the
catalog (`discover_tools`, `executor.py:101`, with a look at the budget before
and after), for a place and a connection in the MCP client, for the tool, for a
retry. The discovery that `_execute_discovered` needs when the catalog changed
before a first attempt is part of the wait for the catalog, and that before a
retry part of the wait for the retry. `Over` is
a task that returned, raised or was cancelled and whose done callback has not
run.

An action of a task is one transaction *plus everything the task then does
before its next await*. Merging the two is sound: between the commit and the
continuation other tasks can only run code that does not touch the database and
that queues behind, except setting the token, and a token set in that gap is
the same as one set just before the transaction. The choices after the commit
(token, deadline, budgets, next call) are the operators `Checked`, `LoopHead`,
`NextCall`, `Budgeted`, `MayRetry`, `Reply` and `Result`, in the order of the
code.

`queue` is the lock: its head holds it, the others wait in the order they
asked. `Turn(p)` is the guard of every transaction. Transactions that only read
for a client (`get_run`, `get_session`, the lists, `wait_run`) would take a
turn and change nothing; they are left out.

`Answered` gives the three ways a transaction of a task ends: it commits; it
commits without acknowledgement; the task is cancelled natively inside it.
`StoreFails` is the rollback and the refusal of a quarantined store. `Unwound`
says where a native cancellation takes a task: out, if it has not entered the
`try` of `_execute`; else to the handler, which cancels the run in the store
and records the end with its own `Run` object.

`Disturbances` selects what may go wrong in an instance: `cancel` (requests),
`deadline` (the run's limit), `failure` (of the model, the tool, the
connection or the catalog), `crash`, `shutdown`, `force` (the grace period is
too short). Storage failures are bounded by `MaxFailures`, restarts by
`MaxRestarts`, tool calls per response by `MaxBatch`, and one request to cancel
each run is made per process.

Assumptions of this model: sessions exist (creating one only inserts an empty
row); a failed start leaves the process down, so `Start` is the start that
succeeds; an operator reconciles attempts only while the service is down (the
method refuses active runs in any case); a call's `retry_safe` does not change
between its attempts, except that a refresh of the catalog may make the retry
fail; what the provider records is left out.

### McpClient

| Variable | Code |
| --- | --- |
| `closed`, `version`, `catalog`, `client`, `owner` | `_closed`, `_version`, `_catalog` (which fetch), `_client`, `_owner` (which connection) |
| `stop`, `ready` | whether `_stop` and `_ready` are set; a new connection replaces both |
| `ownerPc` | where each owner task is in `_serve_connection` |
| `exCatalog`, `exVersion` | `_catalog` and `_catalog_version` of the executor |
| `call` | where a caller is: in `discover_tools`, in `call_tool`, between them; what it was validated against, the client of its request, its attempt |
| `closing` | where `aclose` is |
| `dropped`, `fetched` | history: the SDK ended the last connection by itself; catalogs received |

A caller is one call of `execute`, of `discover_tools(refresh=True)`, or the
opening by `__aenter__`. An action runs from one await to the next. The lock is
not a variable: who holds it follows from where callers and `aclose` are
(`LockFree`), because only discovery and `aclose` hold it across an await. Lock
and places are granted in any order; nothing here depends on fairness of
either. `Aborted` is the watcher of `cancellable` with a timeout or a token,
`Interrupted` the same watcher with `_connection_error`, `Lost` and
`RefreshFails` what the SDK reports; these and `OwnerFails`, `OwnerDrops` are
external and may happen at any time. `_error` only selects a message and is
left out. A client is opened once; the application never opens it again.

One assumption is about time. `discover_tools` gets the catalog in `list_tools`,
but reads the version only after the task group of `cancellable` has ended, two
turns of the event loop later (`executor.py:66-70`). `Settled` says that no
exchange with the server and no teardown of an owner *ends* in this window.
For one that begins in the window this is a matter of counting turns. For one
that is already under way when the catalog arrives, an owner that is closing
while a refresh is answered for instance (`client.py:229-234`), it is a stronger
assumption: winding up the SDK's session and streams takes many turns, and the
last of them is taken not to fall into these two. It is not assumed of a
connection the SDK ended by itself, as that may have begun long before the
caller saw a client that still looked ready. Without the assumption TLC finds a
call that leaves with a catalog it was not validated against, so the pairing in
two steps is correct by timing only, and `Reconnects` and `DispatchedValidated`
do not speak of an exchange or a teardown that ends inside the window.

### Transcript and Continuation

`Transcript` works on sequences of `[role, run, calls, marker]`. `Continued` is
`continue_transcript`: replies without a call are dropped, and behind each
message with calls stands, per call and in order, the last reply that directly
follows it or a marker. `Contexts` is the set of histories `build_context` may
keep: all from the latest request of the user on, and before it any suffix that
begins at a group. Sizes are left out, so every cut that some contents would
cause is there; the durable path adds no system messages, and the task-state
note stands outside the history.

`Continuation` supplies the histories. They are not enumerated: they are those
that `AgentRuntime` leaves in `messages`, through runs that were cancelled or
reached a limit in the middle of a batch and processes that went away there.
`InSession` is the query of `get_session`; `Own` is what the loop appends to its
list while the run lasts; `WorkingMessages` is the list in the
loop when a request is about to be recorded. The session is read when the task
begins; `CreatedAt` says the same of the later state, since the runs before have
ended by then and accept no message any more.

### GeminiProvider

| Variable | Code |
| --- | --- |
| `pc`, `attempt`, `plan`, `delay` | where `generate` is; `attempt`, `retry`, `delay` |
| `left`, `timer` | `remaining()`; what is left of the present wait |
| `cancelled` | the token of the run |
| `records` | the `provider_attempt` events in the log: attempt, phase, `retry_scheduled` |
| `requests`, `owed`, `verdict` | history: requests that left, the time for which a 429 asked not to be called again, how `generate` ended |

An action runs from one await to the next. Awaiting a record is two steps, the
commit and the return, because the checks of `generate` exist for what happens
between them. `Tick` lets all clocks run down together; code may be late but not
early. A response is an answer, one of the errors of `classify_http` or a 429
with what `retry_after` found; `TransportFails` is an error of the connection
(retried) or any other (not). `Goes`, `Ends`, `Checked` are how a step
continues. `CutOff` is the watcher of `cancellable` around the wait, or around
`generate` in the loop. Building and parsing JSON is left out, as is the context
`generate` makes for itself when it has none (not the durable path).

### RunObserver

| Variable | Code |
| --- | --- |
| `state`, `log`, `endAt` | server: whether a run is active, how many events it has (`run_queued` is there from the start), which one is terminal |
| `client` | the page or the console |
| `selected`, `shown`, `view`, `notice` | what is on display: run, status of the snapshot, events, the last message about the watch |
| `cursors` | `cursors` of `RunWatcher` and `TerminalClient` |
| `started`, `current`, `watches` | the generations, the present one (0 if stopped), where each watch is in `tick` or `watch_run` |
| `cancel` | the client's `cancel_run` request |

Requests and answers are separate steps, so an answer carries the server's state
of an earlier moment and may arrive when its watch was replaced. The console
cancels its task instead and waits for it, and reads no command while one is
being answered. Events are their sequence numbers, statuses are active or ended.
Left out: submitting, creating and listing sessions, cursors the user types, the
history pages (they have their own cursor), the 300 events the page keeps, and
rendering.

## 3. Runs

| Run | Instance | Question |
| --- | --- | --- |
| `ExecutionStore` | 2 runs, 1 session, 1 key, 6 events, 3 messages, 2 attempts | do the tables keep their invariants under any client, and implement `RunLedger`? |
| `Admission` | 2 runs, 1 session, 2 steps, 2 safe calls in batches of 2; cancel, crash, 1 restart | are racing submissions, queued cancellations and recovery safe, and is the second run told the truth about the first? |
| `Tools` | 2 runs, 2 sessions, 1 unsafe call each with one key; failure, crash, 1 storage failure, 1 restart, reconciliation | is an unsafe operation ever repeated blindly? |
| `Retries` | 1 run, 3 steps, batches of 2, a budget of 1 call, 2 attempts; cancel, deadline, failure, crash, 1 storage failure | budgets, usage, retries, intents and answers over the whole loop; is every step one the store allows? |
| `Liveness` | 2 runs, 1 session, fair; cancel, shutdown, force, 1 storage failure | does everything that was accepted end, is no run left without a task, and does a cancellation reach its task, whatever the store answered? |
| `McpClient` | 2 calls, 1 of them retried, 1 refresh, the opening; 1 place; fair; every failure, timeout and close | is a call sent only with its catalog, is there one connection, does everyone end, does closing complete? |
| `Provider` | 2 attempts; deadlines 0 to 7 or none, timeout 3, delay 1, hints 0, 2, 4 or none; fair | are requests announced, justified, bounded and in time, and does the call end? |
| `Observer` | both clients, 2 runs of 2 events, pages of 1, 3 watches; fair | does a client show the log in order and completely, and never a wrong status for ever? |
| `Markers`, `Shield`, `ForcedUsage`, `Readiness` | 1 run | the four disagreements of section 5 |

Why the bounds are enough. Every property relates at most two runs, two
attempts or one session, so two runs are the smallest instance in which a bad
interleaving exists, and one session is where they collide; two sessions with
one key are where the replay guard has to work across sessions. One unsafe
attempt suffices because the guard is on the key; two attempts are needed for a
retry, and a batch of two calls, with three steps, for a batch that crosses the
call budget, for a result that is used and one that is not, and (in `Admission`)
for a history that ends in the middle of a batch. `MaxObservations`
is 1 instead of 8 so that the window slides. A process does not survive
its first storage failure, since it quarantines the store, so `MaxFailures` is
1: a failure in a second process would meet what recovery left, which is the
state the first began with. One restart reaches the recovery of everything that
the first process could leave. The instances are split by the question because
one that had every disturbance and tool calls with two runs would not be
exhausted in minutes: tools are off in `Liveness`, whose questions
the waits for the model already pose (the theorems of section 6 have no such
limit), and no storage fails in `Admission`, whose histories a
crash cuts off at the same places. `ExecutionStore` bounds the tables by a state
constraint, as an arbitrary client could grow them for ever, and clients report
four of the twelve kinds of event there. The other eight (the kinds that count
usage, the tool kinds, the other ends of a run) are exercised by the runtime:
`Retries` allows all twelve and has the specification of the store as a
property. In `Provider` the times are chosen so that each comparison of
`generate` goes both ways: deadlines below, at and above the timeout, the delay
and a hint, with what is left after a first attempt. In `Observer` a page of one
event and logs of two make every history one of several pages; three watches
allow a return to a run that was left. `MaxConnections` of `McpClient` is never reached: it is the number of
discoveries the instance can make, and a discovery makes at most one connection.

Symmetry of runs and sessions is used in `ExecutionStore`, `Admission` and
`Tools`, whose temporal properties are action properties and a safety
specification; all other runs use none.

Deadlock is not checked in the runs of the runtime, the clients and the
provider: with all identifiers used and all runs, calls or watches ended nothing
is left to do. It is checked in
`ExecutionStore`, where some operation is always possible.

**Fairness.** In `McpClient`: weak fairness of the owner (the startup timeout
bounds its start), of each caller without its timeouts and cancellations, and of
`aclose`. A request that left is answered or lost; timeouts, dropped connections
and the close need not happen. In `Liveness`: weak fairness of each task, of each
cancellation request, of the submission in progress, of the shutdown and of a
restart: the event loop runs every ready callback, the lock is FIFO, and a wait
for the model or a tool ends by itself or by the watcher in `cancellable`
(`core/cancellation.py:50`), which polls the deadline and the token. A run
without a time limit depends on the timeouts of its adapters; the model assumes
they answer. Nothing is assumed about clients: no request, disturbance or
shutdown has to happen. `WF(RunTask(r))` is on the disjunction of a task's
steps, so a cancellation does not have to be noticed while the task has another
step to take; `EveryRunEnds` holds because the budgets are finite.

In `Provider`: weak fairness of what `generate` does by itself (the store
answers) and of the clock. The server need not answer and nothing need be
cancelled; `GenerateEnds` rests on the timeout alone. In `Observer`: weak
fairness of the present watch: its requests are answered or time out after ten
seconds (`web/client.js:34`, `cli.py:237`) and its timers fire. Nothing is
assumed about users, runs or watches that were replaced.

## 4. What the runs show

* The invariants of the store hold, and are proved (section 6).
* `NeverRejected` and `TaskStateCurrent` depend on the order of the lock. A run
  cancelled in the queue ends in the table at once, so its session accepts the
  next run while the first task is still on its way; that task leaves before
  the second enters the harness only because it asked for the lock first. And
  `submit_task` writes back a task state it read one transaction earlier. A run
  may well have a result in between and make that snapshot stale; but it then
  asks for the lock behind the submission, so it is still active when the
  submission has its turn, and the submission is refused. With a lock that wakes waiters in any order (the mutant
  of `Turn`) both fail. A change to several connections, or a lock with
  priorities, would need the check and the write in one transaction.
* `NoOrphan`: no order of cancellations, failures and shutdown leaves an active run
  without a task while the store works. A task returns before the harness only if
  its run is not queued, and it asks the table and not the token: if it heeded the
  token instead (the mutant of `GetRun`), a shutdown, which signals a task before
  it has the lock to cancel the run, would find that run still queued and its task
  gone. A crash and the recovery in `Start` are not in this instance, which they
  would make too large for the liveness properties; for them the property is
  proved (`NoRunLeftBehind`, section 6). `EveryRunEnds` says more, under fairness:
  the run has a task that ends it.
* `CancelSignalled`: a cancellation that is durable or was answered has reached
  the token of a task that still makes checks. `cancel_run` signals in a
  `finally`, so this does not depend on the store: the property has no exception
  for a transaction that failed, for one that committed without an
  acknowledgement, or for a store already out of service. The mutant
  `CancelAnsweredIfStored` signals only when the store answered and is caught by
  the lost acknowledgement. What is excepted is a task in its forced cleanup: it
  was cancelled natively and looks at no token any more.
* `IntentsSettled`: between `begin_attempt` and the request the budget is looked
  at once more (`executor.py:209-215`); a cancellation or the deadline found there
  has to settle the intent it leaves behind. While a run is in the loop its only
  pending attempt is the one its task works at, and a run that completed, failed
  or hit a limit leaves none. (A crash, a lost store or a native cancellation
  may, and then recovery calls it in doubt.) `RetryFollowsFailure` would not see
  a forgotten intent that no retry follows; this does.
* `NoBlindReplay`, `RetryFollowsFailure`: the durable intent, checked and
  written in one transaction, is enough to keep an unsafe operation in doubt
  from leaving a second time, across sessions and crashes.
* `EveryRunEnds`, `QuarantineDrains`, `ShutdownCompletes` hold under the
  fairness above. The first says nothing of a run whose store is lost: that is
  recovery's job, and that of `NoRunLeftBehind` after `Start`.

* `DispatchedValidated`: a call leaves only with the catalog it was validated
  against, in spite of reconnections, refreshes and retries between the two,
  because every change is counted and the count is compared under the lock. It
  rests on `Settled` (section 2).
* `OneConnection`, `ClosedForGood`, `CloseCompletes`: callers that time out
  half way never leave two owners, and `aclose` wins over a caller that waits
  to reconnect because `_connect_locked` looks at `_closed` twice (the mutant
  that looks once makes `aclose` wait for ever).
* `CallersEnd`: nobody is left behind waiting for the lock, a place or a
  connection that will not come, because the owner sets `_ready` in its
  `finally`.
* `Reconnects`: an executor whose catalog looks current has a connection, with
  one exception, which the property names. If the SDK ends a connection by
  itself (`_serve_connection` has a handler for that) and the owner finishes
  while a caller is between the catalog and its version, the executor keeps the
  version of the dead connection: no later call discovers or reconnects until a
  refresh. The window is two turns of the event loop; whether the SDK ever ends
  a serving connection like this cannot be decided from this repository, so it
  is not listed as a finding.

* `ContextWellFormed`, `HistoryFaithful`: after any end of an earlier run, in the
  middle of a batch or of a retry, and wherever the budget cuts, the provider
  gets a transcript with one reply per call, in order, and no reply alone; every
  accepted result is told as it was recorded, and answers only of runs that
  completed. They rest on two places far apart: the acceptance that
  `record_event` decides in the transaction, and the grouping by position in
  `continue_transcript`, which finds a reply only if nothing stands between it
  and its calls.
* `RequestsJustified`, `WithinDeadline`, `ImplementsExchange`: the second
  comparison of the delay with the time that is left (`providers/gemini.py:222`)
  is needed, as the record in between may have used the time up; without it a
  wait would outlast the run (the mutant). The record of an attempt is never
  behind the request, in any interleaving.
* `ShownInOrder`, `HistoryComplete`: the generation makes late answers harmless;
  taking the snapshot *before* the pages makes the terminal message true, as the
  terminal event is committed with the status. `ShownInOrder` is a statement
  about stretches: the page empties its timeline when another run is selected
  but keeps the cursor (`web/app.js:140`), so coming back shows only what was not
  shown before. Nothing in the repository says that the timeline should start
  again, so this is not listed as a finding.
* `StatusWatched`, `WatchEnds`: the acknowledgement of a cancellation can be
  older than the snapshot it overwrites; it does no harm only because a new watch
  starts in the same step (the mutant without it leaves an ended run on display
  as active).

## 5. Disagreements found

1. **Markers** (`MarkerHonest`): `execution_outcomes` lets the last attempt of
   an execution overwrite the earlier ones. If attempt 1 of a safe call left for
   the server and its outcome is unknown, and attempt 2 is cancelled or meets a
   changed catalog before dispatch, the continuation tells the model
   "cancelled" or "not_executed".
2. **Shield** (`QuarantineIsStorage`): the forced end of the shutdown uses
   `task.cancel()`, which goes through the anyio shield of `_transaction`. The
   transaction's handler takes the `CancelledError` for a storage failure and
   quarantines the store, and the cleanup of `_execute` cannot record the end of
   the run. Recovery repairs it at the next start.
3. **ForcedUsage** (`UsageMatchesLog`): the same handler records the end with a
   `Run` object whose usage is still zero, and the store takes the row from it.
   `Retries` checks the property without `force`, where it holds.
4. **Readiness** (`QuarantinedNotReady`): a storage failure that meets a
   request while no task is alive sets no `_fault`; `/health` stays ready while
   every submission fails.

## 6. Proofs

### The store

`ExecutionStoreProofs` proves, for all values of the constants that satisfy the
four assumptions named in `ExecutionStore` (sessions and runs do not contain
their null values, both bounds are positive, the reported kinds are known
ones):

| Theorem | Property |
| --- | --- |
| `TypeCorrect` | `TypeOK` |
| `RunsEndOnce` | `EndedOnce` |
| `EndedLogsAreClosed` | `LogClosed` |
| `CancellationWins` | `CancelWins` |
| `EndedRowsAreFinal` | `EndedRowFrozen` |
| `OneRunPerSession` | `OneActiveRun` |
| `OneInDoubt` | `OneUnresolved` |
| `StoreRefinesLedger` | `ImplementsLedger` |

The argument. `TypeOK` is inductive by itself, with one lemma per table
operation (`AppendFacts`, `PartType`, `ObservedType`, ...). For the log, one
lemma, `EveryRunSteps`, sorts every step from the point of view of one run: it
leaves the run's row and log alone, cancels it in the queue (two events), or
*moves* it (one event, of a kind and a type that fit the status before and
after). `EndedOnce`, `LogClosed` and `CancelWins` are then about appending one
or two events, and never look at an operation again. `EndedOnce` is inductive
with `TypeOK`; `LogClosed` needs `EndedOnce`, which says that an event after a
terminal one belongs to a run that has ended; `CancelWins` needs `NoAnswerYet`:
a run that has not ended has no output, without which an interrupted
cancellation could keep one. `OneActiveRun` needs that only `CreateRun` makes a
run active or places it (`OnlyCreationActivates`). `OneUnresolved` is inductive:
a new row is in doubt only if no other with its key is. The refinement needs
`Owned` (a run with a row has a session) and `Slots` (with at most one active
run per session, `SlotOf` names exactly that run, and the ledger's runs in
progress are the active ones); then creation is `Admit`, the request to cancel
is `Doom`, each end and each recovery is `Settle`, and the rest stutters.

### The provider

`GeminiProviderProofs` proves, from the five assumptions of `GeminiProvider` (one
or two attempts, times that are numbers, null values that are not):

| Theorem | Property |
| --- | --- |
| `ProviderTypeCorrect` | `ProviderTypeOK` |
| `WaitsFitTheDeadline` | `WithinDeadline` |
| `RequestsAreJustified` | `RequestsJustified` |
| `ProviderImplementsExchange` | `ImplementsExchange` |

`ProviderTypeOK` is not inductive: that there are never more than `MaxRequests`
requests needs `Attempts`, which relates the attempt number to the requests that
left and says that a retry is planned only while an attempt is left.
`WithinDeadline` is inductive with the types: `FailureRecorded` and `Post` start
a wait that fits, and the clocks run down together. `RequestsJustified` needs
`Allowed` (a ban of the server is never longer than the delay or the wait that
stands for it, hence over when the retry is announced) and `Planned` (where in
the log the failure with its announced retry is). The refinement needs `Logged`,
which counts announcements and outcomes at each point of `generate`;
`RecordCounts` says that a record adds one to one of them. Each record is then
`Announce` or `Settle`, a request is `Send`, each end is `Close`, and the rest
stutters.

### The runtime

Three modules, each extending the one before, prove of `AgentRuntime`:

| Theorem | Module | Property |
| --- | --- | --- |
| `RuntimeUsesStore` | `AgentRuntimeProofs` | `StoreSpec` |
| `CompletedRunsAnswered` | `AgentRuntimeProofs` | `CompletedWithAnswer` |
| `UsageIsLogged` | `AgentRuntimeProofs` | `UsageMatchesLog`, if no shutdown is forced |
| `RuntimeTypeCorrect` | `AgentRuntimeProofs` | `RuntimeTypeOK` |
| `RetriesFollowFailures` | `AgentRuntimeProofs` | `RetryFollowsFailure` |
| `IntentsAreSettled` | `AgentRuntimeProofs` | `IntentsSettled` |
| `NoRequestRepeatedBlindly` | `AgentRuntimeProofs` | `NoBlindReplay` |
| `NoRunRejected` | `StoreLockProofs` | `NeverRejected` |
| `NoRunLeftBehind` | `StoreLockProofs` | `NoOrphan` |
| `CancellationsReach` | `StoreLockProofs` | `CancelSignalled` |
| `TaskStatesAreCurrent` | `StoreLockProofs` | `TaskStateCurrent` |

They use the assumptions of the store and these, all named in `AgentRuntime`:
the limits and bounds are numbers; there is a call to make, and calls with one
key have one annotation (`retry_safe` is read from the tool's definition); the
executions include all numbers a run can give its calls; tasks may report every
kind of event; disturbances are known ones. Nothing is assumed of the number of
runs, sessions, calls, failures or restarts, and all disturbances are allowed,
with the one exception named in the table. Each inductive invariant below was
first checked by TLC on the instances of section 3.

*Steps of a task* (`TaskFlowProofs`). The thirty-odd actions of a task are
sorted once: each is `Advances` (its transaction commits and it goes on as a
record that `Leads` admits), `Raises`, `Interrupts` or `Observe`. `Control` is
the invariant of the tasks: the fields of the record fit its point. Part of
`Leads` is `NextOwed`, how many calls of the present batch are left at the next
point. Later proofs look at `Commits` and `Leads` and rarely at an action.

*Tasks and rows* (`AgentRuntimeProofs`). `Base` adds that a process that is down
is empty (`Down`) and that a task and the row of its run agree on the usage
while the run is active (`UsageOK`): without it the `Run` object with which a
task ends its run would not be one that `StoreSpec` allows. From `Base` each
transaction is an operation of the store, each lost acknowledgement its
`Commit`, each failure its `Quarantine`. `AnswersOK` says how many accepted
final answers a run has at each point of its task: none in the loop, one when it
is about to record its completion, if nobody asked to cancel it; so a run that
completes has exactly one. For `UsageMatchesLog` a step is followed event by event
(`CountStep`): each event that counts moves the counter and the log by one; when
the run ends the row is replaced, by an equal one (`UsageOK`). That is exactly
what fails in a task whose cleanup is forced, hence the hypothesis
`"force" \notin Disturbances`; the run `ForcedUsage` shows that it is needed.

*Attempts* (`AgentRuntimeProofs`). `Attempted` says that the row a task works on
is its own, pending until the outcome is recorded, and holds the number, key and
annotation of the call in its locals. With the store's `OneUnresolved`, carried
over by `RuntimeUsesStore`, a request that leaves is then the only one in doubt
with its key, unless the call is safe to repeat. `IntentsSettled` needs the
other direction, of the rows instead of the tasks (`Intended`): a row is of a run
that began, and while it is pending and the task in the harness, the task is at
one of the points between the intent and its outcome and works at this row; so
no task decides on the end of its run while it has a pending row.

*The lock* (`StoreLockProofs`). `Queued`: the queue holds exactly the callers of
the store, once each. `Standing`: the status of a run fits the point of its
task, except that a run cancelled in the queue is over while its task still
begins, and its token says so. `Halting`: where a shutdown is, and which queued
runs it has not reached. With these, `NoOrphan` follows. `CancelSignalled` is
inductive with them and `Asked` (only a request that was made calls the store,
and only for a run that is there, so a run is not answered for before it is
created): a status becomes `cancel_requested` in `cancel_run`, which signals in
the same step, in a shutdown, which signalled before (`Halting`), or in the task
itself, which had seen its token (`Standing`). Nothing in it depends on the store
being in service.
`NeverRejected` needs `Crossing`, which counts turns: `TurnsLeft` are the turns
of the lock a task that is over still takes, `TurnsToEnter` those until it is in
the harness, `SubTurns` those of a submission until its run would be. Of two
tasks of one session, the one that is over leaves first: it has fewer turns to
take, or as many and stands before the other in the queue. As the lock is fair,
every turn keeps that order. `TaskStateCurrent` needs `Late`: a submission that
is about to write has read the state as it still is, or a run of the session is
in its loop and behind it in the queue (`Busy`). A task enters the second case
by recording a result, which puts it at the end of the queue, and cannot leave it
before the submission has its turn.

### Contexts and histories

`ContinuationProofs` extends `Continuation` and `AgentRuntimeProofs`; nothing is
assumed beyond what they assume.

| Theorem | Property or content |
| --- | --- |
| `ContinuedWellFormed` | `Continued` of any sequence of messages is `WellFormed`, keeps all that is no reply and answers each call |
| `ContextsOfWellFormed` | every cut in `Contexts` of a well-formed sequence is well formed |
| `ContextsWellFormed` | `ContextWellFormed` |
| `HistoriesFaithful` | `HistoryFaithful` |

*Sequences.* `Texts` are the messages a provider is given: only calls and replies
name calls, a reply exactly one. `InOrderCounts` shows that `InOrder` is the
increasing enumeration of a finite set, and `InOrderMore` what one larger number
adds to it. `Flattened` gives what `FlattenSeq` returns when each part is well
formed; it is an induction, which the library offers only with an operator for
the claim. Here the induction is a statement about a set: `AllNumbers` says that
a set of numbers with 0, and with n + 1 whenever it has n, has them all,
`LeastNumber` and `GreatestNumber` that a set has a least or a greatest element;
a proof cites them for the set of the numbers for which its claim holds. `JoinedWellFormed` and `CutWellFormed` are the two facts about
`WellFormed` that matter: it survives being joined, and being cut where a group
begins.

*Contexts.* A context is a history that was completed, which is well formed
whatever it was, and behind it `Own`, which `continue_transcript` never sees. So
the theorem rests on what a run records itself. In the middle of a batch that is
not well formed; `Conversation` is the invariant: it is, as soon as the replies
the task still owes (`Debt`, from `pc`, `calls` and `left`) are put behind it.
When a request is about to be recorded the debt is nothing. `StepTalks` sorts all
steps of the system for this purpose once: a task speaks and follows its points
(`Talks`), a run begins (`Asks`), or nothing is said (`Hushed`).

*Histories.* `continue_transcript` takes the last reply with the call's number
among those that directly follow a message, of whatever run: numbers of calls
start again with each run. That it finds the run's own reply needs `Paired`: from
an accepted reply back to its call, the session accepted nothing but replies to
other calls. That is inductive with `Pending`, the same about the calls a task
still owes replies to, and there `OneActiveRun` of the store is what keeps other
runs out, carried over by `RuntimeUsesStore`. The marker never replaces a
result, then. The half about answers is `AnswersOK`. The proof does not use that
the run is at `get_session`: the history of every session is faithful at any
time; the property asks at the point where the code reads it.

### The MCP client

`McpClientProofs` proves `ClientTypeOK`, `OneConnection`, `ClosedForGood`,
`Reconnects` and `DispatchedValidated` (theorems `ClientTypeCorrect`,
`NeverTwoConnections`, `ClosedStaysClosed`, `CatalogsAreTended`,
`DispatchesValidated`), for any finite number of callers and refreshers. All
follow from one invariant, `Sound`: `Typed`; `Locked` (one caller at most holds
the lock, and none once `aclose` waits under it); `Owned` (only the last owner is
not done, and the client is its client while it serves); `Stamped` (an executor
whose version is the present one has the present catalog, or the connection has
ended since); `Rows` (what each caller knows at its point: the owner it waits
for, the client of its request, the catalog its version stands for). `Placed`
bounds the places and `Counted` the version and the catalogs, by what the calls
can still add; that is where finiteness is needed. `DispatchedValidated` rests
on `Settled` (section 2), which is a conjunct of the actions and not of the
code.

### The observation clients

`RunObserverProofs` proves `ObserverTypeOK` (which is only proved, no run checks
it), `ShownInOrder`, `HistoryComplete` and `StatusWatched` (theorems
`ObserverTypeCorrect`, `ShowsInOrder`, `HistoriesAreComplete`,
`ActiveRunsAreWatched`) for any number of runs, events, page sizes and watches.
`ObserverSound` is the theorem of the invariant: cursors stay within the logs
and a run that ended has its terminal event (`LogOK`); a watch that was replaced
has at most an answer to drop, and the present one holds a page that continues
the cursor, whose last one reaches the terminal event if its snapshot says that
the run ended (`WatchesOK`); requests and finished watches are of a run
(`RequestsOK`); and the three properties themselves (`Honest`).

### Written so that they can be proved

`Without` (leaving the queue), `CallsOf`, `Accepted` (the events a page adds; the
code sorts a page before it filters it), `Results` and `Newest` are written with
sets and functions instead of selections from sequences, and so are `InOrder`
and `Entries`, which put the elements of a set of numbers in order. They mean what
the selections meant; the runs are the same.

### Only model-checked

* All liveness: `EveryRunEnds`, `QuarantineDrains`, `ShutdownCompletes`,
  `CallersEnd`, `CloseCompletes`, `GenerateEnds`, `WatchEnds`. Fairness and
  ENABLED are out of the provers' reach.
* The four disagreements of section 5, which are counterexamples.

No module declares a RECURSIVE operator.

## 7. What is not modelled

* `McpClient` and `AgentRuntime` are not composed: in the runtime `call_tool` is
  a wait with a point of dispatch and every outcome its callers distinguish.
  Opening a client again after it was closed.
* `GeminiProvider` is not composed with `AgentRuntime` either: there the model is
  one wait that returns, fails or is cut off, and its records, which change
  neither usage nor status, are left out. What the codec writes and reads is
  formatting.
* Sizes: the character budgets of `build_context` and of the task state appear
  only as the set of outcomes they may have; a context that is refused is a
  failed run in `AgentRuntime`.
* Of the observation clients everything that does not watch: submitting,
  sessions, the event list of a finished run, the pipeline view, progress texts.
* The RPC layer: it keeps no state; it validates requests, calls one method of
  the service and names its errors, which is a table and not a protocol.
* Migrations, the OS file lock (one process owns the database), listing
  queries, session creation, contents and sizes of messages, times.
* Harness and executor outside the durable service (in-memory collector, no
  recorder).

## 8. Plan

Done: the store and its ledger, the runtime, the MCP client, the provider, the
transcript, the observation clients; and a theorem for every safety property
the passing runs check. What is left, in this order:

1. `McpClient` and `AgentRuntime` composed on one run, with the points of
   dispatch of the first as the outcomes of the second, as a refinement.
2. `GeminiProvider` behind the wait for the model in the same way.
