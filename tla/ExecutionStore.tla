--------------------------- MODULE ExecutionStore ---------------------------
(***************************************************************************)
(* SQLiteExecutionStore (persistence/sqlite.py): the durable tables and    *)
(* the transactions over them.  Every public method runs in ONE            *)
(* serialized BEGIN IMMEDIATE transaction, so every method is one action   *)
(* here.  Rows keep what the guards and the properties read; JSON bodies,  *)
(* timestamps and identifiers are abstracted to positions in a table.      *)
(*                                                                         *)
(* The operations are used twice: by the specification at the end of this  *)
(* module, in which any client calls any operation in any order, and by    *)
(* AgentRuntime, in which the real service, harness, loop and executor     *)
(* call them.                                                              *)
(***************************************************************************)
EXTENDS Integers, Sequences, FiniteSets

CONSTANTS
  Runs,             \* run identifiers that may ever be used
  Sessions,         \* sessions (created before the model starts)
  NoSession,        \* the session of a run that does not exist yet
  NoRun,            \* no run, where a run may be named
  CallKeys,         \* (server scope, tool name, arguments) of a tool call
  Executions,       \* execution ids, numbered within their run
  MaxAttempts,      \* max_attempts of the tool executor
  MaxObservations,  \* observations kept in a task state (8 in the code)
  ReportKinds       \* the kinds of event the client reports

ASSUME SessionsAssumption == NoSession \notin Sessions /\ NoRun \notin Runs
ASSUME AttemptsAssumption == MaxAttempts \in Nat \ {0}
ASSUME ObservationsAssumption == MaxObservations \in Nat \ {0}

ASSUME ReportKindsAssumption ==
  ReportKinds \subseteq {"run_started", "run_cancel_requested",
    "model_request_started", "model_response_received",
    "tool_call_requested", "tool_execution_started",
    "tool_execution_completed", "tool_execution_failed", "run_completed",
    "run_failed", "run_cancelled", "run_limit_exceeded"}

VARIABLES
  status,      \* runs.status, "absent" before the row exists
  session,     \* runs.session_id
  usage,       \* usage counters in runs.body
  output,      \* is runs.body.output something other than None?
  events,      \* events, per run, in sequence order
  messages,    \* messages in ordinal order
  attempts,    \* attempts in insertion order
  taskState,   \* task_states.body: revision and observations, per session
  snapshot,    \* the task state the admitted submission is about to write
  broken       \* closed, or quarantined by a recording failure (_broken)

runVars == <<status, session, usage, output>>
dbVars == <<status, session, usage, output, events, messages, attempts,
            taskState>>
storeVars == <<status, session, usage, output, events, messages, attempts,
               taskState, snapshot, broken>>

-----------------------------------------------------------------------------
(* Rows *)

Active == {"queued", "running", "cancel_requested"}
Ended == {"completed", "failed", "cancelled", "limit_exceeded", "interrupted"}
Statuses == {"absent"} \cup Active \cup Ended

\* The status a terminal event asks for, and the event written for a status.
TerminalKinds == {"run_completed", "run_failed", "run_cancelled",
                  "run_limit_exceeded"}
TargetStatusUntranslated(kind) == kind
TargetStatus(kind) ==
  CASE kind = "run_completed" -> "completed"
    [] kind = "run_failed" -> "failed"
    [] kind = "run_cancelled" -> "cancelled"
    [] OTHER -> "limit_exceeded"
EndKind(st) ==
  CASE st = "completed" -> "run_completed"
    [] st = "failed" -> "run_failed"
    [] st = "cancelled" -> "run_cancelled"
    [] st = "limit_exceeded" -> "run_limit_exceeded"
    [] OTHER -> "run_interrupted"
EndKinds == TerminalKinds \cup {"run_interrupted"}

ProgressKinds == {"run_started", "run_cancel_requested",
  "model_request_started", "model_response_received", "tool_call_requested",
  "tool_execution_started", "tool_execution_completed",
  "tool_execution_failed"}
EventKinds == ProgressKinds \cup EndKinds \cup
  {"run_queued", "late_result_recorded", "tool_outcome_reconciled"}

\* payload.record_type: who wrote the event.
RecordTypes == {"logical", "provider_attempt", "attempt_intent",
                "attempt_result"}
EventRows == [kind : EventKinds, type : RecordTypes]
Event(kind, type) == [kind |-> kind, type |-> type]
Logical(kind) == Event(kind, "logical")

Roles == {"user", "calls", "final", "tool"}
\* calls are the tool calls a message of the model makes, or the one that a
\* message of a tool answers.
MessageRows == [run : Runs, role : Roles, calls : SUBSET Executions,
                observed : BOOLEAN, accepted : BOOLEAN]

Usages == [steps : Nat, calls : Nat]
NoUsage == [steps |-> 0, calls |-> 0]

\* The error codes execution_outcomes tells apart.
ResultCodes == {"none", "cancelled", "not_executed", "other"}
AttemptRows == [run : Runs, exec : Executions, number : 1 .. MaxAttempts,
  key : CallKeys, retry_safe : BOOLEAN,
  state : {"pending", "succeeded", "failed", "reconciled"},
  outcome_unknown : BOOLEAN, code : ResultCodes]

TaskStates == [revision : Nat, observations : Seq(Nat)]
NoTaskState == [revision |-> 0, observations |-> <<>>]

-----------------------------------------------------------------------------
(* Helpers *)

ActiveInNotCancelling(s) ==
  {r \in Runs : session[r] = s /\ status[r] \in Active \ {"cancel_requested"}}
ActiveIn(s) == {r \in Runs : session[r] = s /\ status[r] \in Active}
AppendEvent(r, e) == events' = [events EXCEPT ![r] = Append(@, e)]

\* The last n elements of a sequence: (...)[-n:]
LastN(seq, n) ==
  SubSeq(seq, IF Len(seq) > n THEN Len(seq) - n + 1 ELSE 1, Len(seq))

\* What recording observation m may leave: the newest MaxObservations, less
\* as many of the oldest as it takes to fit the 6,000 character budget.
ObservedSameRevision(ts, m) ==
  {[ts EXCEPT !.observations = LastN(Append(@, m), MaxObservations)]}
Observed(ts, m) ==
  LET kept == LastN(Append(ts.observations, m), MaxObservations)
  IN  { [revision |-> ts.revision + 1,
         observations |-> SubSeq(kept, first, Len(kept))] :
           first \in 1 .. Len(kept) + 1 }

\* An unsafe operation with this key may have run and nobody knows: the guard
\* every replay has to pass.
UnresolvedFinished(key) ==
  \E a \in DOMAIN attempts :
    /\ attempts[a].key = key
    /\ ~attempts[a].retry_safe
    /\ attempts[a].outcome_unknown
    /\ attempts[a].state # "pending"
Unresolved(key) ==
  \E a \in DOMAIN attempts :
    /\ attempts[a].key = key
    /\ ~attempts[a].retry_safe
    /\ attempts[a].outcome_unknown

-----------------------------------------------------------------------------
(* Operations *)

\* get_task_state, as submit_task uses it: the snapshot it read, with the
\* revision already advanced and old observations dropped to fit the budget.
GetTaskState(s) ==
  LET read == taskState[s].observations IN
  /\ \E first \in 1 .. Len(read) + 1 :
       snapshot' = [revision |-> taskState[s].revision + 1,
                    observations |-> SubSeq(read, first, Len(read))]
  /\ UNCHANGED dbVars

CreateRun(r, s) ==
  /\ status[r] = "absent"
  /\ ActiveIn(s) = {}
  /\ status' = [status EXCEPT ![r] = "queued"]
  /\ session' = [session EXCEPT ![r] = s]
  /\ messages' = Append(messages,
       [run |-> r, role |-> "user", calls |-> {}, observed |-> FALSE,
        accepted |-> TRUE])
  /\ taskState' = [taskState EXCEPT ![s] = snapshot]
  /\ AppendEvent(r, Logical("run_queued"))
  /\ UNCHANGED <<usage, output, attempts, snapshot>>

\* The status record_event leaves, and the kind it writes.
StatusAfterLateCompletion(r, kind) ==
  IF kind = "run_started" /\ status[r] = "queued" THEN "running"
  ELSE IF kind = "run_cancel_requested" /\ status[r] \in Active
    THEN "cancel_requested"
  ELSE IF kind \in TerminalKinds /\ status[r] \in Active
    THEN TargetStatus(kind)
  ELSE status[r]
StatusAfterReopens(r, kind) ==
  IF kind = "run_started" /\ status[r] = "queued" THEN "running"
  ELSE IF kind = "run_cancel_requested" THEN "cancel_requested"
  ELSE IF kind \in TerminalKinds /\ status[r] \in Active
    THEN IF status[r] = "cancel_requested" THEN "cancelled"
         ELSE TargetStatus(kind)
  ELSE status[r]
StatusAfter(r, kind) ==
  IF kind = "run_started" /\ status[r] = "queued" THEN "running"
  ELSE IF kind = "run_cancel_requested" /\ status[r] \in Active
    THEN "cancel_requested"
  ELSE IF kind \in TerminalKinds /\ status[r] \in Active
    THEN IF status[r] = "cancel_requested" THEN "cancelled"
         ELSE TargetStatus(kind)
  ELSE status[r]
KindWrittenAlways(r, kind) ==
  IF kind \in TerminalKinds THEN EndKind(StatusAfter(r, kind)) ELSE kind
KindWrittenLateEnds(r, kind) ==
  IF kind \notin TerminalKinds THEN kind
  ELSE IF status[r] \notin Active THEN "late_result_recorded"
  ELSE EndKind(StatusAfter(r, kind))
KindWritten(r, kind) ==
  IF status[r] \notin Active THEN "late_result_recorded"
  ELSE IF kind \in TerminalKinds THEN EndKind(StatusAfter(r, kind))
  ELSE kind

\* A message counts only if its run goes on and nobody asked to cancel it.
Accepts(next) == next \in Active \ {"cancel_requested"}

\* record_event.  role is the role of payload._message ("none" without one),
\* calls its tool calls, own the usage and output of the Run object the caller
\* passes: the store takes the row from it when the run ends.
RecordEvent(r, e, role, calls, own) ==
  LET next == StatusAfter(r, e.kind)
      kind == KindWritten(r, e.kind)
      ends == status[r] \in Active /\ next \in Ended
      counted == IF ends THEN own.usage ELSE usage[r]
      accepted == Accepts(next)
      observed == accepted /\ kind = "tool_execution_completed"
  IN
  /\ status[r] # "absent"
  /\ status' = [status EXCEPT ![r] = next]
  /\ usage' = [usage EXCEPT ![r] =
       [steps |-> counted.steps +
          (IF kind = "model_request_started" /\ e.type # "provider_attempt"
           THEN 1 ELSE 0),
        calls |-> counted.calls +
          (IF kind = "tool_call_requested" THEN 1 ELSE 0)]]
  /\ output' = [output EXCEPT ![r] =
       IF ends THEN next # "cancelled" /\ own.output ELSE @]
  /\ IF role = "none" THEN UNCHANGED <<messages, taskState>>
     ELSE /\ messages' = Append(messages,
               [run |-> r, role |-> role, calls |-> calls,
                observed |-> observed, accepted |-> accepted])
          /\ IF observed
             THEN \E ts \in Observed(taskState[session[r]],
                                     Len(messages) + 1) :
                    taskState' = [taskState EXCEPT ![session[r]] = ts]
             ELSE UNCHANGED taskState
  /\ AppendEvent(r, Event(kind, e.type))
  /\ UNCHANGED <<session, attempts, snapshot>>

\* cancel_run on a run it changes; on any other run it returns the row.
CancelRun(r) ==
  /\ \/ /\ status[r] = "queued"
        /\ status' = [status EXCEPT ![r] = "cancelled"]
        /\ events' = [events EXCEPT ![r] = @ \o
             <<Logical("run_cancel_requested"), Logical("run_cancelled")>>]
     \/ /\ status[r] = "running"
        /\ status' = [status EXCEPT ![r] = "cancel_requested"]
        /\ AppendEvent(r, Logical("run_cancel_requested"))
     \/ /\ status[r] \in Ended \cup {"cancel_requested"}
        /\ UNCHANGED <<status, events>>
  /\ UNCHANGED <<session, usage, output, messages, attempts, taskState,
                 snapshot>>

\* begin_attempt past its two refusals (a run that is not running, a key with
\* an unresolved unsafe outcome).  UNIQUE(execution_id, attempt) makes a
\* second row for the same attempt a storage failure.
BeginAttempt(r, exec, number, key, safe) ==
  /\ status[r] = "running"
  /\ ~Unresolved(key)
  /\ ~\E a \in DOMAIN attempts :
        /\ attempts[a].run = r
        /\ attempts[a].exec = exec
        /\ attempts[a].number = number
  /\ attempts' = Append(attempts,
       [run |-> r, exec |-> exec, number |-> number, key |-> key,
        retry_safe |-> safe, state |-> "pending", outcome_unknown |-> TRUE,
        code |-> "none"])
  /\ AppendEvent(r, Event("tool_execution_started", "attempt_intent"))
  /\ UNCHANGED <<status, session, usage, output, messages, taskState,
                 snapshot>>

EndAttempt(a, code, unknown) ==
  LET state == IF code = "none" THEN "succeeded" ELSE "failed" IN
  /\ a \in DOMAIN attempts
  /\ attempts[a].state = "pending"
  /\ attempts' = [attempts EXCEPT ![a].state = state, ![a].code = code,
                                  ![a].outcome_unknown = unknown]
  /\ AppendEvent(attempts[a].run,
       Event(IF state = "succeeded" THEN "tool_execution_completed"
             ELSE "tool_execution_failed", "attempt_result"))
  /\ UNCHANGED <<status, session, usage, output, messages, taskState,
                 snapshot>>

\* Operator reconciliation; refused while the run is active.
ResolveAttempt(a) ==
  /\ a \in DOMAIN attempts
  /\ status[attempts[a].run] \notin Active
  /\ attempts' = [attempts EXCEPT ![a].state = "reconciled",
                                  ![a].outcome_unknown = FALSE]
  /\ AppendEvent(attempts[a].run, Logical("tool_outcome_reconciled"))
  /\ UNCHANGED <<status, session, usage, output, messages, taskState,
                 snapshot>>

RecoveredInterrupted(st) == "interrupted"
RecoveredStatus(st) ==
  IF st = "cancel_requested" THEN "cancelled" ELSE "interrupted"
Recover ==
  /\ status' = [r \in Runs |-> IF status[r] \in Active
                               THEN RecoveredStatus(status[r])
                               ELSE status[r]]
  /\ output' = [r \in Runs |-> output[r] /\ status[r] \notin Active]
  /\ events' = [r \in Runs |->
       IF status[r] \in Active
       THEN Append(events[r], Logical(EndKind(RecoveredStatus(status[r]))))
       ELSE events[r]]
  /\ UNCHANGED <<session, usage, messages, attempts, taskState, snapshot>>

-----------------------------------------------------------------------------
(* The store under any client *)

\* The roles of the message an event of this kind may carry.
RolesOf(kind) ==
  {"none"} \cup
  (CASE kind = "model_response_received" -> {"calls", "final"}
     [] kind \in {"tool_execution_completed", "tool_execution_failed"} ->
          {"tool"}
     [] OTHER -> {})
CallsOf(role) ==
  IF role = "calls" THEN (SUBSET Executions) \ {{}}
  ELSE IF role = "tool" THEN {{exec} : exec \in Executions}
  ELSE {{}}
\* Who may report an event of this kind through record_event.
TypesOf(kind) ==
  {"logical"} \cup
  (IF kind \in {"model_request_started", "model_response_received"}
   THEN {"provider_attempt"} ELSE {})

\* The Run object of a caller: its usage is in step with the row, or is still
\* what it was when the run was submitted.
OwnRuns(r) == [usage : {usage[r], NoUsage}, output : BOOLEAN]

StoreInit ==
  /\ status = [r \in Runs |-> "absent"]
  /\ session = [r \in Runs |-> NoSession]
  /\ usage = [r \in Runs |-> NoUsage]
  /\ output = [r \in Runs |-> FALSE]
  /\ events = [r \in Runs |-> <<>>]
  /\ messages = <<>>
  /\ attempts = <<>>
  /\ taskState = [s \in Sessions |-> NoTaskState]
  /\ snapshot = NoTaskState
  /\ broken = FALSE

Report(r, kind) ==
  \E type \in TypesOf(kind), role \in RolesOf(kind), own \in OwnRuns(r) :
    /\ type = "provider_attempt" => role = "none"
    /\ \E calls \in CallsOf(role) :
         RecordEvent(r, Event(kind, type), role, calls, own)
Begin(r) ==
  \E exec \in Executions, number \in 1 .. MaxAttempts, key \in CallKeys,
     safe \in BOOLEAN :
    BeginAttempt(r, exec, number, key, safe)
Finish(a) ==
  \E code \in ResultCodes, unknown \in BOOLEAN :
    /\ code = "none" => ~unknown
    /\ EndAttempt(a, code, unknown)

Operation ==
  \/ \E s \in Sessions : GetTaskState(s)
  \/ \E r \in Runs, s \in Sessions : CreateRun(r, s)
  \/ \E r \in Runs, kind \in ReportKinds : Report(r, kind)
  \/ \E r \in Runs : CancelRun(r)
  \/ \E r \in Runs : Begin(r)
  \/ \E a \in DOMAIN attempts : Finish(a)
  \/ \E a \in DOMAIN attempts : ResolveAttempt(a)
  \/ Recover

\* A transaction commits; its acknowledgement may be lost, which quarantines
\* the store although the change is durable.
Commit == ~broken /\ Operation /\ broken' \in BOOLEAN
\* A transaction fails and is rolled back, or the store is closed.
Quarantine == ~broken /\ broken' = TRUE /\ UNCHANGED <<dbVars, snapshot>>
\* The process that held the flag is gone; the file is opened again.
Open == broken /\ broken' = FALSE /\ UNCHANGED <<dbVars, snapshot>>

StoreNext == Commit \/ Quarantine \/ Open
StoreSpec == StoreInit /\ [][StoreNext]_storeVars

-----------------------------------------------------------------------------
(* Properties *)

TypeOK ==
  /\ status \in [Runs -> Statuses]
  /\ session \in [Runs -> Sessions \cup {NoSession}]
  /\ usage \in [Runs -> Usages]
  /\ output \in [Runs -> BOOLEAN]
  /\ events \in [Runs -> Seq(EventRows)]
  /\ messages \in Seq(MessageRows)
  /\ attempts \in Seq(AttemptRows)
  /\ taskState \in [Sessions -> TaskStates]
  /\ snapshot \in TaskStates
  /\ broken \in BOOLEAN

\* A session has at most one queued, running or cancelling run, whatever order
\* submissions, cancellations, ends and restarts come in (the partial index
\* one_active_run backs the check create_run makes).
OneActiveRun ==
  \A r1, r2 \in Runs :
    /\ status[r1] \in Active
    /\ status[r2] \in Active
    /\ session[r1] = session[r2]
    => r1 = r2

\* The log and the row agree on how a run ended: a run that ended has exactly
\* one terminal event, the one of its status, however many late, cancelled or
\* recovered results raced for it; a run that has not ended has none.
EndedOnce ==
  \A r \in Runs :
    IF status[r] \in Ended
    THEN \E i \in DOMAIN events[r] :
           /\ events[r][i].kind = EndKind(status[r])
           /\ \A j \in DOMAIN events[r] :
                events[r][j].kind \in EndKinds => j = i
    ELSE \A i \in DOMAIN events[r] : events[r][i].kind \notin EndKinds

\* Once a cancellation request is in the log of a run, the run is being
\* cancelled or was cancelled: no completion, failure, limit or recovery that
\* races with it decides otherwise, and its answer is not kept.
CancelWins ==
  \A r \in Runs :
    (\E i \in DOMAIN events[r] : events[r][i].kind = "run_cancel_requested")
    => /\ status[r] \in {"cancel_requested", "cancelled"}
       /\ ~output[r]

\* At most one operation with a given key that may not be repeated is in
\* doubt, over all runs, sessions and restarts, and an attempt still in flight
\* is always in doubt.
OneUnresolved ==
  /\ \A a, b \in DOMAIN attempts :
       /\ ~attempts[a].retry_safe /\ attempts[a].outcome_unknown
       /\ ~attempts[b].retry_safe /\ attempts[b].outcome_unknown
       /\ attempts[a].key = attempts[b].key
       => a = b
  /\ \A a \in DOMAIN attempts :
       attempts[a].state = "pending" => attempts[a].outcome_unknown

\* What follows the terminal event in a log is diagnostic: late results, the
\* outcome of an attempt that was in flight, an operator's reconciliation.
\* Nothing reopens the run, counts as progress or ends it again.
LogClosed ==
  \A r \in Runs : \A i, j \in DOMAIN events[r] :
    i < j /\ events[r][i].kind \in EndKinds =>
      \/ events[r][j].kind \in {"late_result_recorded",
                                "tool_outcome_reconciled"}
      \/ events[r][j].type = "attempt_result"

\* The store implements RunLedger: the rows of a session are a slot for one
\* run, which is settled once, and cancelled if a cancellation was accepted.
SlotOf(s) ==
  IF ActiveIn(s) = {} THEN NoRun ELSE CHOOSE r \in ActiveIn(s) : TRUE
Ledger == INSTANCE RunLedger WITH
  Outcomes <- Ended,
  slot <- [s \in Sessions |-> SlotOf(s)],
  doomed <- {r \in Runs : status[r] = "cancel_requested"},
  outcome <- [r \in Runs |-> IF status[r] \in Ended THEN status[r] ELSE "none"]
ImplementsLedger == Ledger!Spec

\* The row of a run that ended is final: later events, cancellations and
\* recoveries change neither its status nor its usage nor its output, and add
\* no message of it to the history a later run continues from.
EndedRowFrozen ==
  [][\A r \in Runs : status[r] \in Ended =>
       /\ status'[r] = status[r]
       /\ usage'[r] = usage[r]
       /\ output'[r] = output[r]
       /\ \A m \in DOMAIN messages' :
            messages'[m].run = r /\ messages'[m].accepted
            => m \in DOMAIN messages]_storeVars
=============================================================================
