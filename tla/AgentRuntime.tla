---------------------------- MODULE AgentRuntime ----------------------------
(***************************************************************************)
(* The durable runtime: AgentService (service.py), AgentHarness            *)
(* (core/harness.py), AgentLoop (core/loop.py) and MCPToolExecutor         *)
(* (mcp/executor.py) over the store of ExecutionStore.                     *)
(*                                                                         *)
(* asyncio runs one task at a time and switches only at an await, and the  *)
(* store's asyncio.Lock is granted in the order it was asked for.  So a    *)
(* task's action here is one transaction, taken when the task is at the    *)
(* head of the queue of the lock, with everything the task then does       *)
(* before its next await, which is most often to queue for the lock again. *)
(* Waits for the model, for a tool and for a retry are actions of their    *)
(* own.  Reads that only answer a client take a turn and change nothing;   *)
(* they are left out.                                                      *)
(***************************************************************************)
EXTENDS ExecutionStore

CONSTANTS
  MaxSteps,      \* limits.max_steps
  MaxCalls,      \* limits.max_tool_calls
  MaxBatch,      \* bound: tool calls in one model response
  Calls,         \* tool calls the model may ask for: [key, retry_safe]
  Disturbances,  \* what may go wrong in this instance
  MaxFailures,   \* bound: storage failures
  MaxRestarts    \* bound: restarts of the process

ASSUME LimitsAssumption ==
  MaxSteps \in Nat /\ MaxCalls \in Nat /\ MaxBatch \in Nat
\* A key names one tool, and its annotation does not change between calls.
ASSUME CallsAssumption ==
  /\ Calls # {}
  /\ Calls \subseteq [key : CallKeys, retry_safe : BOOLEAN]
  /\ \A c, d \in Calls : c.key = d.key => c = d
\* The calls of a run are numbered, and all kinds of event are reported.
ASSUME ExecutionsAssumption == 1 .. MaxCalls + MaxBatch \subseteq Executions
ASSUME ReportsAssumption == ReportKinds = ProgressKinds \cup TerminalKinds
ASSUME BoundsAssumption == MaxFailures \in Nat /\ MaxRestarts \in Nat
ASSUME DisturbancesAssumption ==
  Disturbances \subseteq {"cancel", "deadline", "failure", "crash",
                          "shutdown", "force"}

VARIABLES
  up,          \* the process runs and AgentService has been entered
  accepting,   \* AgentService._accepting
  fault,       \* AgentService._fault: "none", "storage" or "lifecycle"
  tokens,      \* runs whose CancellationToken is cancelled
  task,        \* the task of a run: where it is and its local variables
  sub,         \* the submission that holds AgentService._admission
  cancels,     \* the cancel_run request of a run
  stop,        \* AgentService.shutdown
  interrupted, \* tasks that were cancelled natively and did not notice yet
  queue,       \* holders and waiters of the store's lock, in order
  dispatched,  \* attempts whose request left for the tool server
  failures, restarts

taskVars == <<tokens, task, dispatched>>
serviceVars == <<up, accepting, fault, sub, cancels, stop, restarts>>
vars == <<storeVars, serviceVars, taskVars, interrupted, queue, failures>>

-----------------------------------------------------------------------------
(* Tasks *)

Reading == {"get_run", "get_session", "get_task_state", "execution_outcomes"}
Recording == {"run_started", "model_request_started", "response_invalid",
  "response_calls", "response_final", "tool_call_requested",
  "tool_execution_started", "begin_attempt", "end_attempt", "retry_failed",
  "retry_started", "tool_reply", "cancel_event", "ending"}
Waiting == {"model", "discover_tools", "call_tool", "tool", "retry_wait"}
Forced == {"forced_cancel", "forced_record"}
Over == {"returned", "raised", "rejected", "cancelled"}

StoreCalls == Reading \cup Recording \cup Forced
InHarness == Recording \cup Waiting
Live == Reading \cup Recording \cup Waiting \cup Forced
Points == Live \cup Over \cup {"absent", "done"}

Tasks == [pc : Points, steps : 0 .. MaxSteps, calls : 0 .. MaxCalls,
          left : 0 .. MaxBatch, call : Calls, number : 0 .. MaxAttempts,
          row : Nat, code : ResultCodes, unknown : BOOLEAN,
          retryable : BOOLEAN, ending : TerminalKinds \cup {"none"}]

NewTask == [pc |-> "get_run", steps |-> 0, calls |-> 0, left |-> 0,
            call |-> CHOOSE c \in Calls : TRUE, number |-> 0, row |-> 0,
            code |-> "none", unknown |-> FALSE, retryable |-> FALSE,
            ending |-> "none"]
NoTask == [NewTask EXCEPT !.pc = "absent"]

At(t, pc) == [t EXCEPT !.pc = pc]
Ending(t, kind) == [t EXCEPT !.pc = "ending", !.ending = kind]
Limited(t) == Ending(t, "run_limit_exceeded")
Failed(t) == Ending(t, "run_failed")
IfDisturbed(by, choices) == IF by \in Disturbances THEN choices ELSE {}

\* What the loop does next is decided after a look at the token, then at the
\* deadline.
Checked(r, t, choices) ==
  IF r \in tokens THEN {At(t, "cancel_event")}
  ELSE choices \cup IfDisturbed("deadline", {Limited(t)})

\* The head of the loop: the step budget, then the context, then a request.
LoopHeadCountsFirst(r, t) ==
  Checked(r, [t EXCEPT !.steps = @ + 1],
    IF t.steps >= MaxSteps THEN {Limited(t)}
    ELSE {[t EXCEPT !.pc = "model_request_started", !.steps = @ + 1]})
LoopHead(r, t) ==
  Checked(r, t,
    IF t.steps >= MaxSteps THEN {Limited(t)}
    ELSE {[t EXCEPT !.pc = "model_request_started", !.steps = @ + 1]}
         \cup IfDisturbed("failure", {Failed(t)}))

\* The next tool call of the response, or the head of the loop.
NextCallOneMore(r, t) ==
  IF t.left = 0 THEN LoopHead(r, t)
  ELSE Checked(r, t,
    IF t.calls > MaxCalls THEN {Limited(t)}
    ELSE {[t EXCEPT !.pc = "tool_call_requested", !.calls = @ + 1,
                    !.left = @ - 1, !.call = c, !.number = 1] : c \in Calls})
NextCall(r, t) ==
  IF t.left = 0 THEN LoopHead(r, t)
  ELSE Checked(r, t,
    IF t.calls >= MaxCalls THEN {Limited(t)}
    ELSE {[t EXCEPT !.pc = "tool_call_requested", !.calls = @ + 1,
                    !.left = @ - 1, !.call = c, !.number = 1] : c \in Calls})

\* A result that the executor returns, and one it records first.
Reply(t, code) == [t EXCEPT !.pc = "tool_reply", !.code = code,
                            !.number = 0, !.row = 0, !.unknown = FALSE,
                            !.retryable = FALSE]
Result(t, code, unknown, retryable) ==
  [t EXCEPT !.pc = "end_attempt", !.code = code, !.unknown = unknown,
            !.retryable = retryable]

\* A look at the token and at what is left of the deadline, after which the
\* executor goes on as t1; the tool may not be approved, or gone from the
\* catalog, or called with arguments that do not fit it.
Budgeted(r, t, t1) ==
  (IF r \in tokens THEN {Reply(t, "cancelled")}
   ELSE {t1} \cup IfDisturbed("deadline", {Reply(t, "not_executed")}))
  \cup IfDisturbed("failure", {Reply(t, "other")})

\* Does the executor try again?  (_can_retry; the deadline is checked apart.)
MayRetryUnsafe(r, t) ==
  /\ t.retryable
  /\ t.number < MaxAttempts
  /\ r \notin tokens
MayRetry(r, t) ==
  /\ t.retryable
  /\ t.call.retry_safe
  /\ t.number < MaxAttempts
  /\ r \notin tokens

\* The Run object of the task: the store copies it when the run ends.
OwnRunKeepsOutput(t) ==
  [usage |-> [steps |-> t.steps, calls |-> t.calls],
   output |-> t.ending # "run_cancelled"]
OwnRun(t) == [usage |-> [steps |-> t.steps, calls |-> t.calls],
              output |-> t.ending = "run_completed"]

LiveTasks == {r \in Runs : task[r].pc \in Live}
Tokens == {r \in Runs : task[r].pc \in Live \cup Over}
\* AgentHarness._active_sessions
ActiveSessions ==
  {session[r] : r \in {q \in Runs : task[q].pc \in InHarness}}

-----------------------------------------------------------------------------
(* The lock of the store *)

RunProc(r) == <<"run", r>>
CancelProc(r) == <<"cancel", r>>
StopProc(r) == <<"shutdown", r>>
SubProc(s) == <<"submit", s>>

TurnAnyOrder(p) == \E i \in DOMAIN queue : queue[i] = p
Turn(p) == queue # <<>> /\ Head(queue) = p
Without(p) ==
  IF \E i \in DOMAIN queue : queue[i] = p
  THEN LET place == CHOOSE i \in DOMAIN queue : queue[i] = p
       IN  [i \in 1 .. Len(queue) - 1 |->
              queue[IF i < place THEN i ELSE i + 1]]
  ELSE queue
Leave(p) == queue' = Without(p)
Requeue(p) == queue' = Append(Without(p), p)

\* Task r goes on as t, queueing for the lock again if it calls the store.
Becomes(r, t) ==
  /\ task' = [task EXCEPT ![r] = t]
  /\ IF t.pc \in StoreCalls THEN Requeue(RunProc(r)) ELSE Leave(RunProc(r))

\* A task cancelled natively: inside the harness it unwinds to the handler of
\* _execute, whose Run object has the usage of the loop only if the loop had
\* returned; before that nothing catches the cancellation.
Unwound(t) ==
  IF t.pc \in Reading THEN At(t, "cancelled")
  ELSE IF t.pc = "ending" THEN At(t, "forced_cancel")
  ELSE [NewTask EXCEPT !.pc = "forced_cancel"]

\* The transaction of task r commits, and the task goes on as one of nexts,
\* or its acknowledgement is lost, or the task is cancelled inside it: the
\* last two quarantine the store, for neither is a domain error.
Answered(r, nexts) ==
  /\ ~broken
  /\ \/ /\ r \notin interrupted
        /\ \E t \in nexts : Becomes(r, t)
        /\ UNCHANGED <<broken, interrupted, failures>>
     \/ /\ r \notin interrupted
        /\ failures < MaxFailures
        /\ failures' = failures + 1
        /\ broken' = TRUE
        /\ Becomes(r, At(task[r], "raised"))
        /\ UNCHANGED interrupted
     \/ /\ r \in interrupted
        /\ interrupted' = interrupted \ {r}
        /\ broken' = TRUE
        /\ Becomes(r, Unwound(task[r]))
        /\ UNCHANGED failures

NoSub == [pc |-> "idle", session |-> NoSession]
NoStop == [pc |-> "off", run |-> NoRun, left |-> {}]

\* Task r is at this point and has the lock.
TaskTurn(r, pc) == task[r].pc = pc /\ Turn(RunProc(r))

\* The tool calls in the message of this role that task t records: those of
\* the response, numbered on from the calls made before, or the present one.
CallsIn(t, role) ==
  CASE role = "calls" -> t.calls + 1 .. t.calls + t.left
    [] role = "tool" -> {t.calls}
    [] OTHER -> {}

\* It records an event, with everything but the store left to Answered.
Records(r, pc, kind, role, nexts) ==
  /\ TaskTurn(r, pc)
  /\ RecordEvent(r, Logical(kind), role, CallsIn(task[r], role),
                 OwnRun(task[r]))
  /\ Answered(r, nexts)
  /\ UNCHANGED <<serviceVars, tokens, dispatched>>

-----------------------------------------------------------------------------
(* AgentService._execute up to the harness *)

\* A read of the store: the task goes on as one of nexts.
Reads(r, pc, nexts) ==
  /\ TaskTurn(r, pc)
  /\ UNCHANGED <<dbVars, snapshot>>
  /\ Answered(r, nexts)
  /\ UNCHANGED <<serviceVars, tokens, dispatched>>

GetRunHeedsToken(r) ==
  Reads(r, "get_run",
        {At(task[r], IF status[r] = "queued" /\ r \notin tokens
                     THEN "get_session" ELSE "returned")})
GetRun(r) ==
  Reads(r, "get_run", {At(task[r], IF status[r] = "queued" THEN "get_session"
                                   ELSE "returned")})
GetSession(r) == Reads(r, "get_session", {At(task[r], "get_task_state")})
ReadTaskState(r) ==
  Reads(r, "get_task_state", {At(task[r], "execution_outcomes")})

\* The last read, continue_transcript, and the entrance of the harness, which
\* rejects a session that already has a run inside.
GetOutcomes(r) ==
  Reads(r, "execution_outcomes",
    {At(task[r], IF session[r] \in ActiveSessions THEN "rejected"
                 ELSE "run_started")})

-----------------------------------------------------------------------------
(* AgentHarness._run and AgentLoop.run *)

RunStarted(r) ==
  Records(r, "run_started", "run_started", "none", LoopHead(r, task[r]))

\* The request is logged, and sent unless the token or the deadline stops it.
ModelRequested(r) ==
  Records(r, "model_request_started", "model_request_started", "none",
          Checked(r, task[r], {At(task[r], "model")}))

\* A wait outside the store ends.
Wakes(r, pc, nexts) ==
  /\ task[r].pc = pc
  /\ r \notin interrupted
  /\ \E t \in nexts : Becomes(r, t)
  /\ UNCHANGED <<storeVars, serviceVars, tokens, interrupted, failures>>

\* provider.generate returns: a final answer, tool calls, or a response that
\* fails validation (logged) or has the wrong type (not logged).
ModelReturns(r) ==
  /\ Wakes(r, "model",
       Checked(r, task[r],
         {At(task[r], "response_final")} \cup
         {[task[r] EXCEPT !.pc = "response_calls", !.left = n] :
            n \in 1 .. MaxBatch} \cup
         IfDisturbed("failure",
           {At(task[r], "response_invalid"), Failed(task[r])})))
  /\ UNCHANGED dispatched

\* It raises, before the watcher of cancellable has seen a cancellation.
ModelFails(r) ==
  /\ "failure" \in Disturbances
  /\ Wakes(r, "model", {Failed(task[r])})
  /\ UNCHANGED dispatched

ResponseInvalid(r) ==
  Records(r, "response_invalid", "model_response_received", "none",
          {Failed(task[r])})

ResponseFinal(r) ==
  Records(r, "response_final", "model_response_received", "final",
          Checked(r, task[r], {Ending(task[r], "run_completed")}))

\* Tools asked for on the last allowed step are not run.
ResponseCalls(r) ==
  Records(r, "response_calls", "model_response_received", "calls",
          IF task[r].steps >= MaxSteps THEN {Limited(task[r])}
          ELSE NextCall(r, task[r]))

ToolCallRequested(r) ==
  Records(r, "tool_call_requested", "tool_call_requested", "none",
          {At(task[r], "tool_execution_started")})

\* The reply of a tool is recorded; the loop checks before it goes on.
ToolReplied(r) ==
  Records(r, "tool_reply",
          IF task[r].code = "none" THEN "tool_execution_completed"
          ELSE "tool_execution_failed",
          "tool",
          NextCall(r, [task[r] EXCEPT !.code = "none"]))

CancelEventOnly(r) ==
  Records(r, "cancel_event", "run_cancel_requested", "none",
          {At(task[r], "returned")})
CancelEvent(r) ==
  Records(r, "cancel_event", "run_cancel_requested", "none",
          {Ending(task[r], "run_cancelled")})

\* The harness records how the run ended and returns.
Ends(r) ==
  Records(r, "ending", task[r].ending, "none", {At(task[r], "returned")})

-----------------------------------------------------------------------------
(* MCPToolExecutor.execute *)

\* The call is announced; approval and budget are checked, and the catalog is
\* asked for, which may take a connection and an exchange with the server.
ToolExecutionStarted(r) ==
  Records(r, "tool_execution_started", "tool_execution_started", "none",
          Budgeted(r, task[r], At(task[r], "discover_tools")))

\* The catalog is there, or discovery failed or was cut off.  Budget, tool and
\* arguments are checked before the first attempt.
ToolsDiscovered(r) ==
  /\ Wakes(r, "discover_tools",
           Budgeted(r, task[r], At(task[r], "begin_attempt")))
  /\ UNCHANGED dispatched

\* begin_attempt refuses: the run was cancelled meanwhile, or an earlier
\* unsafe operation with this key is in doubt.
AttemptRefused(r) ==
  /\ TaskTurn(r, "begin_attempt")
  /\ status[r] # "running" \/ Unresolved(task[r].call.key)
  /\ UNCHANGED <<dbVars, snapshot>>
  /\ Answered(r, {Reply(task[r], IF status[r] # "running" THEN "cancelled"
                                 ELSE "other")})
  /\ UNCHANGED <<serviceVars, tokens, dispatched>>

\* The intent is durable.  The budget is checked again before call_tool; an
\* intent that is not followed has to be settled all the same.
AttemptBegunUnsettled(r) ==
  LET t == [task[r] EXCEPT !.row = Len(attempts) + 1] IN
  /\ TaskTurn(r, "begin_attempt")
  /\ BeginAttempt(r, t.calls, t.number, t.call.key, t.call.retry_safe)
  /\ Answered(r,
       IF r \in tokens THEN {Reply(t, "cancelled")}
       ELSE {At(t, "call_tool")} \cup
            IfDisturbed("deadline", {Reply(t, "not_executed")}))
  /\ UNCHANGED <<serviceVars, tokens, dispatched>>
AttemptBegun(r) ==
  LET t == [task[r] EXCEPT !.row = Len(attempts) + 1] IN
  /\ TaskTurn(r, "begin_attempt")
  /\ BeginAttempt(r, t.calls, t.number, t.call.key, t.call.retry_safe)
  /\ Answered(r,
       IF r \in tokens THEN {Result(t, "cancelled", FALSE, FALSE)}
       ELSE {At(t, "call_tool")} \cup
            IfDisturbed("deadline", {Result(t, "not_executed", FALSE, FALSE)}))
  /\ UNCHANGED <<serviceVars, tokens, dispatched>>

\* call_tool waits for a slot and for the connection: the request leaves...
Dispatch(r) ==
  /\ Wakes(r, "call_tool", {At(task[r], "tool")})
  /\ dispatched' = dispatched \cup {task[r].row}

\* ... or never does: cancelled, catalog changed, connection lost, timed out.
NotDispatched(r) ==
  /\ Wakes(r, "call_tool",
       (IF r \in tokens
        THEN {Result(task[r], "cancelled", FALSE, FALSE)} ELSE {}) \cup
       IfDisturbed("failure",
         {Result(task[r], code, FALSE, TRUE) :
            code \in {"not_executed", "other"}}))
  /\ UNCHANGED dispatched

\* The server answers, with a result or with an error of its own.
ToolAnswers(r) ==
  /\ Wakes(r, "tool",
       {Result(task[r], "none", FALSE, FALSE)} \cup
       IfDisturbed("failure", {Result(task[r], "other", FALSE, FALSE)}))
  /\ UNCHANGED dispatched

\* No answer: cancelled, timed out, connection or protocol broken.  What the
\* server did is not known.
ToolUnknown(r) ==
  /\ Wakes(r, "tool",
       (IF r \in tokens
        THEN {Result(task[r], "cancelled", TRUE, FALSE)} ELSE {}) \cup
       IfDisturbed("failure",
         {Result(task[r], "other", TRUE, again) : again \in BOOLEAN}))
  /\ UNCHANGED dispatched

\* The outcome is durable; the executor returns it or announces a retry.
AttemptEnded(r) ==
  LET t == task[r]
      again == At(t, "retry_failed") IN
  /\ TaskTurn(r, "end_attempt")
  /\ EndAttempt(t.row, t.code, t.unknown)
  /\ Answered(r, IF MayRetry(r, t)
                 THEN {again} \cup IfDisturbed("deadline", {Reply(t, t.code)})
                 ELSE {Reply(t, t.code)})
  /\ UNCHANGED <<serviceVars, tokens, dispatched>>

RetryFailed(r) ==
  Records(r, "retry_failed", "tool_execution_failed", "none",
          {At(task[r], "retry_wait")})

\* The delay is over, or a cancellation or the deadline cuts it short, or the
\* catalog changed meanwhile and the tool is gone or no longer safe to repeat.
\* The discovery that a changed catalog needs is part of this wait.
RetryWaited(r) ==
  /\ Wakes(r, "retry_wait",
       Budgeted(r, task[r],
         [task[r] EXCEPT !.pc = "retry_started", !.number = @ + 1]))
  /\ UNCHANGED dispatched

RetryStarted(r) ==
  Records(r, "retry_started", "tool_execution_started", "none",
          {At(task[r], "begin_attempt")})

-----------------------------------------------------------------------------
(* How a task ends badly *)

\* The transaction of task r fails and is rolled back, or the store is closed
\* or quarantined already: StorageError leaves the task.
StoreFails(r) ==
  /\ task[r].pc \in StoreCalls
  /\ Turn(RunProc(r))
  /\ r \notin interrupted
  /\ broken \/ failures < MaxFailures
  /\ failures' = IF broken THEN failures ELSE failures + 1
  /\ broken' = TRUE
  /\ Becomes(r, At(task[r], "raised"))
  /\ UNCHANGED <<dbVars, snapshot, serviceVars, tokens, dispatched,
                 interrupted>>

\* A native cancellation reaches the task while it waits.  If it has the lock
\* it may be inside its transaction, which is then rolled back and
\* quarantines the store.
Unwinds(r) ==
  /\ r \in interrupted
  /\ interrupted' = interrupted \ {r}
  /\ broken' \in IF task[r].pc \in StoreCalls /\ Turn(RunProc(r))
                 THEN {broken, TRUE} ELSE {broken}
  /\ Becomes(r, Unwound(task[r]))
  /\ UNCHANGED <<dbVars, snapshot, serviceVars, tokens, dispatched,
                 failures>>

\* The handler of _execute after a native cancellation.
ForcedCancel(r) ==
  /\ TaskTurn(r, "forced_cancel")
  /\ CancelRun(r)
  /\ Answered(r, {At(task[r], "forced_record")})
  /\ UNCHANGED <<serviceVars, tokens, dispatched>>
ForcedRecord(r) ==
  Records(r, "forced_record", "run_cancelled", "none",
          {At(task[r], "cancelled")})

\* The done callback of a task.  An exception stops the service and signals
\* every other task.
ObserveStaysOpen(r) ==
  /\ task[r].pc \in Over
  /\ task' = [task EXCEPT ![r] = At(NoTask, "done")]
  /\ UNCHANGED <<fault, accepting, tokens, storeVars, up, sub, cancels, stop,
                 restarts, interrupted, queue, dispatched, failures>>
ObserveReturnedOnly(r) ==
  /\ task[r].pc = "returned"
  /\ task' = [task EXCEPT ![r] = At(NoTask, "done")]
  /\ UNCHANGED <<fault, accepting, tokens, storeVars, up, sub, cancels, stop,
                 restarts, interrupted, queue, dispatched, failures>>
Observe(r) ==
  /\ task[r].pc \in Over
  /\ task' = [task EXCEPT ![r] = At(NoTask, "done")]
  /\ IF task[r].pc \in {"raised", "rejected"}
     THEN /\ fault' = IF task[r].pc = "raised" THEN "storage" ELSE "lifecycle"
          /\ accepting' = FALSE
          /\ tokens' = tokens \cup (Tokens \ {r})
     ELSE UNCHANGED <<fault, accepting, tokens>>
  /\ UNCHANGED <<storeVars, up, sub, cancels, stop, restarts, interrupted,
                 queue, dispatched, failures>>

-----------------------------------------------------------------------------
(* Requests: submit_task, cancel_run *)

\* A submission takes the admission lock, if the service is healthy.
Submit(s) ==
  /\ up
  /\ sub.pc = "idle"
  /\ accepting
  /\ fault = "none"
  /\ \E r \in Runs : status[r] = "absent"
  /\ sub' = [pc |-> "get_session", session |-> s]
  /\ Requeue(SubProc(s))
  /\ UNCHANGED <<storeVars, up, accepting, fault, cancels, stop, restarts,
                 taskVars, interrupted, failures>>

\* A transaction of the submission commits and it goes to pc.
SubmitTo(pc) ==
  /\ ~broken
  /\ \/ /\ UNCHANGED <<broken, failures>>
        /\ IF pc = "idle"
           THEN sub' = NoSub /\ Leave(SubProc(sub.session))
           ELSE /\ sub' = [sub EXCEPT !.pc = pc]
                /\ Requeue(SubProc(sub.session))
     \/ /\ failures < MaxFailures
        /\ failures' = failures + 1
        /\ broken' = TRUE
        /\ sub' = NoSub
        /\ Leave(SubProc(sub.session))
  /\ UNCHANGED <<up, accepting, fault, cancels, stop, restarts, interrupted>>

SubmitTurn(pc) == sub.pc = pc /\ Turn(SubProc(sub.session))

SubmitGetSession ==
  /\ SubmitTurn("get_session")
  /\ SubmitTo("get_task_state")
  /\ UNCHANGED <<dbVars, snapshot, taskVars>>

SubmitGetTaskState ==
  /\ SubmitTurn("get_task_state")
  /\ GetTaskState(sub.session)
  /\ SubmitTo("create_run")
  /\ UNCHANGED taskVars

\* RunConflict: the session has an active run.
SubmitConflict ==
  /\ SubmitTurn("create_run")
  /\ ActiveIn(sub.session) # {}
  /\ SubmitTo("idle")
  /\ UNCHANGED <<dbVars, snapshot, taskVars>>

\* The run is durable; its token and task are made before anything else runs.
\* Without an acknowledgement the run has neither.
SubmitCreate(r) ==
  /\ SubmitTurn("create_run")
  /\ CreateRun(r, sub.session)
  /\ sub' = NoSub
  /\ ~broken
  /\ \/ /\ task' = [task EXCEPT ![r] = NewTask]
        /\ queue' = Append(Without(SubProc(sub.session)), RunProc(r))
        /\ UNCHANGED <<broken, failures>>
     \/ /\ failures < MaxFailures
        /\ failures' = failures + 1
        /\ broken' = TRUE
        /\ Leave(SubProc(sub.session))
        /\ UNCHANGED task
  /\ UNCHANGED <<up, accepting, fault, cancels, stop, restarts, tokens,
                 dispatched, interrupted>>

SubmitFails ==
  /\ sub.pc # "idle"
  /\ Turn(SubProc(sub.session))
  /\ broken \/ failures < MaxFailures
  /\ failures' = IF broken THEN failures ELSE failures + 1
  /\ broken' = TRUE
  /\ sub' = NoSub
  /\ Leave(SubProc(sub.session))
  /\ UNCHANGED <<dbVars, snapshot, up, accepting, fault, cancels, stop,
                 restarts, taskVars, interrupted>>

\* A client asks to cancel a run it knows (once, here, per process).
RequestCancel(r) ==
  /\ "cancel" \in Disturbances
  /\ up
  /\ status[r] # "absent"
  /\ cancels[r] = "none"
  /\ cancels' = [cancels EXCEPT ![r] = "asked"]
  /\ Requeue(CancelProc(r))
  /\ UNCHANGED <<storeVars, up, accepting, fault, sub, stop, restarts,
                 taskVars, interrupted, failures>>

\* The transaction of a cancellation: it commits, with or without an
\* acknowledgement, or it fails.
CancelCommits(r) ==
  /\ ~broken
  /\ CancelRun(r)
  /\ \/ UNCHANGED <<broken, failures>>
     \/ /\ failures < MaxFailures
        /\ failures' = failures + 1
        /\ broken' = TRUE
CancelFails ==
  /\ broken \/ failures < MaxFailures
  /\ failures' = IF broken THEN failures ELSE failures + 1
  /\ broken' = TRUE
  /\ UNCHANGED <<dbVars, snapshot>>

\* The token is cancelled, unless the task is over.
Signals(r) == tokens' = tokens \cup ({r} \cap Tokens)

\* However the store answered, cancel_run signals in its finally.
CancelAnsweredIfStored(r) ==
  /\ Turn(CancelProc(r))
  /\ CancelCommits(r) \/ CancelFails
  /\ IF broken' THEN UNCHANGED tokens ELSE Signals(r)
  /\ cancels' = [cancels EXCEPT ![r] = "answered"]
  /\ Leave(CancelProc(r))
  /\ UNCHANGED <<up, accepting, fault, sub, stop, restarts, task,
                 dispatched, interrupted>>
CancelAnswered(r) ==
  /\ Turn(CancelProc(r))
  /\ CancelCommits(r) \/ CancelFails
  /\ Signals(r)
  /\ cancels' = [cancels EXCEPT ![r] = "answered"]
  /\ Leave(CancelProc(r))
  /\ UNCHANGED <<up, accepting, fault, sub, stop, restarts, task,
                 dispatched, interrupted>>

-----------------------------------------------------------------------------
(* Shutdown, crash, restart *)

\* The shutdown goes on with the tokens left: cancel one and call the store,
\* or wait for the tasks.
StopGoesOn(left, others) ==
  \/ \E r \in left :
       /\ stop' = [pc |-> "cancel", run |-> r, left |-> left \ {r}]
       /\ Signals(r)
       /\ queue' = Append(others, StopProc(r))
  \/ /\ left = {}
     /\ stop' = [NoStop EXCEPT !.pc = "drain"]
     /\ queue' = others
     /\ UNCHANGED tokens

ShutdownBegins ==
  /\ "shutdown" \in Disturbances
  /\ up
  /\ stop.pc = "off"
  /\ sub.pc = "idle"
  /\ accepting' = FALSE
  /\ StopGoesOn(Tokens, queue)
  /\ UNCHANGED <<storeVars, up, fault, sub, cancels, restarts, task,
                 dispatched, interrupted, failures>>

ShutdownCancels ==
  LET failed == IF fault = "none" THEN "storage" ELSE fault IN
  /\ stop.pc = "cancel"
  /\ Turn(StopProc(stop.run))
  /\ \/ CancelCommits(stop.run) /\ fault' = IF broken' THEN failed ELSE fault
     \/ CancelFails /\ fault' = failed
  /\ StopGoesOn(stop.left, Without(StopProc(stop.run)))
  /\ UNCHANGED <<up, accepting, sub, cancels, restarts, task,
                 dispatched, interrupted>>

\* The grace period ends with tasks left: they are cancelled natively.
ShutdownForces ==
  /\ "force" \in Disturbances
  /\ stop.pc = "drain"
  /\ LiveTasks # {}
  /\ interrupted' = LiveTasks
  /\ stop' = [stop EXCEPT !.pc = "forced"]
  /\ UNCHANGED <<storeVars, up, accepting, fault, sub, cancels, restarts,
                 taskVars, queue, failures>>

\* The tasks are over, or have not ended in a second grace period; the store
\* is closed.
ShutdownEnds ==
  /\ \/ stop.pc \in {"drain", "forced"} /\ Tokens = {}
     \/ stop.pc = "forced" /\ LiveTasks # {}
  /\ stop' = [stop EXCEPT !.pc = "closed"]
  /\ broken' = TRUE
  /\ UNCHANGED <<dbVars, snapshot, up, accepting, fault, sub, cancels,
                 restarts, taskVars, interrupted, queue, failures>>

\* The process is gone: after a shutdown, or by a crash at any moment.
ProcessEnds ==
  /\ up
  /\ stop.pc = "closed" \/ "crash" \in Disturbances
  /\ restarts < MaxRestarts
  /\ up' = FALSE
  /\ accepting' = FALSE
  /\ fault' = "none"
  /\ broken' = FALSE
  /\ tokens' = {}
  /\ task' = [r \in Runs |-> NoTask]
  /\ sub' = NoSub
  /\ cancels' = [r \in Runs |-> "none"]
  /\ stop' = NoStop
  /\ interrupted' = {}
  /\ queue' = <<>>
  /\ restarts' = restarts + 1
  /\ UNCHANGED <<dbVars, snapshot, dispatched, failures>>

\* AgentService.__aenter__ on a store that was just opened.
Start ==
  /\ ~up
  /\ Recover
  /\ up' = TRUE
  /\ accepting' = TRUE
  /\ UNCHANGED <<broken, fault, sub, cancels, stop, restarts, taskVars,
                 interrupted, queue, failures>>

\* An operator settles the outcome of an attempt while the service is down.
Reconcile(a) ==
  /\ ~up
  /\ attempts[a].outcome_unknown
  /\ ResolveAttempt(a)
  /\ UNCHANGED <<broken, serviceVars, taskVars, interrupted, queue, failures>>

-----------------------------------------------------------------------------
(* Specification *)

Init ==
  /\ StoreInit
  /\ up = TRUE
  /\ accepting = TRUE
  /\ fault = "none"
  /\ tokens = {}
  /\ task = [r \in Runs |-> NoTask]
  /\ sub = NoSub
  /\ cancels = [r \in Runs |-> "none"]
  /\ stop = NoStop
  /\ interrupted = {}
  /\ queue = <<>>
  /\ dispatched = {}
  /\ failures = 0
  /\ restarts = 0

Preparing(r) == GetRun(r) \/ GetSession(r) \/ ReadTaskState(r) \/ GetOutcomes(r)
Looping(r) ==
  \/ RunStarted(r) \/ ModelRequested(r) \/ ModelReturns(r) \/ ModelFails(r)
  \/ ResponseInvalid(r) \/ ResponseFinal(r) \/ ResponseCalls(r)
  \/ ToolCallRequested(r) \/ ToolReplied(r) \/ CancelEvent(r) \/ Ends(r)
Executing(r) ==
  \/ ToolExecutionStarted(r) \/ ToolsDiscovered(r)
  \/ AttemptRefused(r) \/ AttemptBegun(r)
  \/ Dispatch(r) \/ NotDispatched(r) \/ ToolAnswers(r) \/ ToolUnknown(r)
  \/ AttemptEnded(r) \/ RetryFailed(r) \/ RetryWaited(r) \/ RetryStarted(r)
Unwinding(r) ==
  \/ StoreFails(r) \/ Unwinds(r) \/ ForcedCancel(r) \/ ForcedRecord(r)
  \/ Observe(r)
RunTask(r) == Preparing(r) \/ Looping(r) \/ Executing(r) \/ Unwinding(r)

Submission ==
  \/ SubmitGetSession \/ SubmitGetTaskState \/ SubmitConflict \/ SubmitFails
  \/ \E r \in Runs : SubmitCreate(r)
Shutdown == ShutdownCancels \/ ShutdownForces \/ ShutdownEnds

Next ==
  \/ \E r \in Runs : RunTask(r)
  \/ \E s \in Sessions : Submit(s)
  \/ Submission
  \/ \E r \in Runs : RequestCancel(r) \/ CancelAnswered(r)
  \/ ShutdownBegins \/ Shutdown
  \/ ProcessEnds \/ Start
  \/ \E a \in DOMAIN attempts : Reconcile(a)

Spec == Init /\ [][Next]_vars

\* Every task, request and callback that can go on does; the model and the
\* tools answer within their timeouts or are cut off by the watcher of
\* cancellable; a process that went away is started again.  Nothing makes a
\* client send a request, a disturbance happen or a shutdown begin.
Fairness ==
  /\ \A r \in Runs : WF_vars(RunTask(r)) /\ WF_vars(CancelAnswered(r))
  /\ WF_vars(Submission)
  /\ WF_vars(ShutdownCancels) /\ WF_vars(ShutdownEnds)
  /\ WF_vars(Start)
FairSpec == Spec /\ Fairness

-----------------------------------------------------------------------------
(* Properties *)

RuntimeTypeOK ==
  /\ TypeOK
  /\ up \in BOOLEAN /\ accepting \in BOOLEAN
  /\ fault \in {"none", "storage", "lifecycle"}
  /\ tokens \subseteq Runs
  /\ task \in [Runs -> Tasks]
  /\ sub \in [pc : {"idle", "get_session", "get_task_state", "create_run"},
              session : Sessions \cup {NoSession}]
  /\ cancels \in [Runs -> {"none", "asked", "answered"}]
  /\ stop \in [pc : {"off", "cancel", "drain", "forced", "closed"},
               run : Runs \cup {NoRun}, left : SUBSET Runs]
  /\ interrupted \subseteq Runs
  /\ dispatched \subseteq DOMAIN attempts
  /\ failures \in 0 .. MaxFailures /\ restarts \in 0 .. MaxRestarts

\* The harness never finds another run of the session inside.  A run that is
\* cancelled while it is queued ends in the database before its task leaves
\* the harness, and the session may take the next run at once; only the order
\* of the lock lets the first task out before the second comes in.  A
\* rejection would stop the whole service.
NeverRejected ==
  /\ \A r \in Runs : task[r].pc # "rejected"
  /\ fault # "lifecycle"

\* While the service runs on a working store, every run that is active in the
\* database has a task that will end it: no order of cancellations, shutdown
\* and recovery leaves a run behind that blocks its session for ever.
NoOrphan ==
  up /\ ~broken =>
    \A r \in Runs : status[r] \in Active => task[r].pc \in Live

\* A cancellation that is durable or was answered, in whatever way, has reached
\* the token of a task that is still on its way, so the task will notice at its
\* next check: also one whose transaction failed, or committed without an
\* acknowledgement, and one that met a store out of service.  (A task that was
\* cancelled natively makes no more checks.)
CancelSignalled ==
  \A r \in Runs :
    /\ status[r] = "cancel_requested" \/ cancels[r] = "answered"
    /\ task[r].pc \in Live \ Forced
    => r \in tokens

\* A completed run has exactly one accepted final answer, and its output; a
\* run that did not complete has no output.
CompletedWithAnswer ==
  \A r \in Runs :
    /\ output[r] <=> status[r] = "completed"
    /\ status[r] = "completed" =>
         Cardinality({m \in DOMAIN messages :
           /\ messages[m].run = r
           /\ messages[m].role = "final"
           /\ messages[m].accepted}) = 1

\* No update of a task state is lost: the revision counts the submissions and
\* accepted tool results of the session, and the observations are the newest
\* of those results in order.  A submission reads the state, waits for the
\* lock and writes a snapshot back; the runs of its session go on meanwhile.
Results(s) ==
  {m \in DOMAIN messages : /\ messages[m].observed
                           /\ session[messages[m].run] = s}
Newest(seen, all) ==
  /\ \A i \in DOMAIN seen : seen[i] \in all
  /\ \A i, j \in DOMAIN seen : i < j => seen[i] < seen[j]
  /\ \A i \in DOMAIN seen, m \in all :
       m > seen[i] => \E j \in DOMAIN seen : seen[j] = m
TaskStateCurrent ==
  \A s \in Sessions :
    /\ taskState[s].revision =
         Cardinality({r \in Runs : session[r] = s}) + Cardinality(Results(s))
    /\ Newest(taskState[s].observations, Results(s))

\* The usage of a run counts the requests and tool calls in its log, although
\* the store and the Run object of the task count apart and one overwrites the
\* other when the run ends, at whatever point that is.
Logged(r, kind) ==
  Cardinality({i \in DOMAIN events[r] : events[r][i] = Logical(kind)})
UsageMatchesLog ==
  \A r \in Runs :
    /\ usage[r].steps = Logged(r, "model_request_started")
    /\ usage[r].calls = Logged(r, "tool_call_requested")

\* No request that may not be repeated leaves for the tool server while the
\* outcome of an earlier one with the same key is unknown: not on a retry, in
\* another run or session, nor after a crash.
NoBlindReplay ==
  [][\A a \in dispatched' \ dispatched, b \in dispatched :
       /\ attempts[a].key = attempts[b].key
       /\ ~attempts[b].retry_safe
       => ~attempts[b].outcome_unknown]_vars

\* An attempt after the first follows an attempt of the same call that is
\* over, failed, and was safe to repeat.
RetryFollowsFailure ==
  \A a \in DOMAIN attempts : attempts[a].number > 1 =>
    \E b \in 1 .. a - 1 :
      /\ attempts[b].run = attempts[a].run
      /\ attempts[b].exec = attempts[a].exec
      /\ attempts[b].number = attempts[a].number - 1
      /\ attempts[b].state \in {"failed", "reconciled"}
      /\ attempts[b].retry_safe

\* No intent is forgotten.  While a run is in the loop, the only attempt of it
\* that can be pending is the one its task works at, and a run that ended by
\* its own decision leaves none: whatever falls between the durable intent and
\* the dispatch or the answer, the executor records an outcome before it goes
\* on.  A pending attempt would block its operation, if unsafe, until an
\* operator looks at it.
IntentsSettled ==
  \A a \in DOMAIN attempts :
    attempts[a].state = "pending" =>
      LET r == attempts[a].run IN
      /\ task[r].pc \in InHarness => task[r].row = a
      /\ status[r] \notin {"completed", "failed", "limit_exceeded"}

\* The marker that continue_transcript gives a call without an accepted
\* result: execution_outcomes keeps the outcome of the last attempt.
Rows(r, exec) ==
  {a \in DOMAIN attempts : attempts[a].run = r /\ attempts[a].exec = exec}
LastAttempt(r, exec) ==
  CHOOSE a \in Rows(r, exec) :
    \A b \in Rows(r, exec) : attempts[b].number <= attempts[a].number
Marker(r, exec) ==
  IF Rows(r, exec) = {} THEN "not_executed"
  ELSE LET a == attempts[LastAttempt(r, exec)] IN
       IF a.outcome_unknown THEN "outcome_unknown"
       ELSE IF a.state = "reconciled" THEN "reconciled_by_operator"
       ELSE IF a.state = "succeeded" THEN "result_recorded_not_accepted"
       ELSE IF a.code \in {"cancelled", "not_executed"} THEN a.code
       ELSE "failed"

\* A call that left for the server in some attempt whose outcome is unknown is
\* not presented to the model as cancelled or not executed.
MarkerHonest ==
  \A a \in dispatched :
    attempts[a].outcome_unknown =>
      Marker(attempts[a].run, attempts[a].exec)
        \notin {"cancelled", "not_executed"}

\* Only a failure of storage, or closing it, takes the store out of service:
\* transactions are shielded from the cancellation of their task.
QuarantineIsStorage == broken => failures > 0 \/ stop.pc = "closed"

\* A service whose store is out of service, with no task left to notice, is
\* not ready: /health answers 503 while every submission fails.
QuarantinedNotReady ==
  up /\ broken /\ Tokens = {} => ~(accepting /\ fault = "none")

\* A run that was accepted ends, unless the store is lost first.
EveryRunEnds ==
  \A r \in Runs :
    status[r] \in Active ~> status[r] \in Ended \/ broken

\* When the store is lost, every task ends and the service refuses new work.
QuarantineDrains ==
  broken /\ LiveTasks # {} ~> ~up \/ (LiveTasks = {} /\ ~accepting)

\* A shutdown that began comes to an end.
ShutdownCompletes == stop.pc # "off" ~> stop.pc \in {"closed", "off"}
=============================================================================
