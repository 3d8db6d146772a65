--------------------------- MODULE TaskFlowProofs ---------------------------
(***************************************************************************)
(* Proofs about the tasks of AgentRuntime: what the local variables of a   *)
(* run task are at every point of its code, how a step moves a task and    *)
(* what it leaves of the other tasks.  The theorems of the other proof     *)
(* modules about AgentRuntime rest on these lemmas.                        *)
(***************************************************************************)
EXTENDS AgentRuntime, ExecutionStoreProofs

-----------------------------------------------------------------------------
(* The local variables of a task *)

\* The points at which a tool call is in the hands of the executor.
InCall == {"tool_call_requested", "tool_execution_started", "discover_tools",
           "begin_attempt", "call_tool", "tool", "end_attempt", "retry_failed",
           "retry_wait", "retry_started"}

\* What the local variables of a task say at each of its points.
Shape(t) ==
  /\ t \in Tasks
  /\ t.pc = "response_calls" => t.left # 0
  /\ t.pc \in InCall \cup {"tool_reply"} => t.calls # 0
  /\ t.pc \in InCall => t.number # 0
  /\ t.pc \in {"retry_failed", "retry_wait"} => t.number < MaxAttempts
  /\ t.pc = "ending" => t.ending # "none"
  /\ t.pc = "end_attempt" /\ t.code = "none" => ~t.unknown /\ ~t.retryable

\* The points, one by one.
LEMMA PointNames ==
  Points = {"get_run", "get_session", "get_task_state", "execution_outcomes",
    "run_started", "model_request_started", "response_invalid",
    "response_calls", "response_final", "tool_call_requested",
    "tool_execution_started", "begin_attempt", "end_attempt", "retry_failed",
    "retry_started", "tool_reply", "cancel_event", "ending", "model",
    "discover_tools", "call_tool", "tool", "retry_wait", "forced_cancel",
    "forced_record", "returned", "raised", "rejected", "cancelled", "absent", "done"}
BY DEF Points, Live, Reading, Recording, Waiting, Forced, Over

\* A task that begins has spent nothing.
LEMMA NewTaskFields ==
  ASSUME NEW pc \in Points
  PROVE  LET t == [NewTask EXCEPT !.pc = pc] IN
         /\ t \in Tasks /\ t.pc = pc
         /\ t.steps = 0 /\ t.calls = 0
<1>1. (CHOOSE c \in Calls : TRUE) \in Calls
  BY CallsAssumption
<1>2. 0 \in 0 .. MaxSteps /\ 0 \in 0 .. MaxCalls /\ 0 \in 0 .. MaxBatch
      /\ 0 \in 0 .. MaxAttempts /\ 0 \in Nat
  BY LimitsAssumption, AttemptsAssumption
<1>3. NewTask \in Tasks
  <2>1. "get_run" \in Points
    BY PointNames
  <2>2. QED BY <1>1, <1>2, <2>1 DEF NewTask, Tasks, ResultCodes
<1>4. [NewTask EXCEPT !.pc = pc] \in Tasks
  BY <1>3 DEF Tasks
<1>5. QED BY <1>4 DEF NewTask

\* A task that begins, is over or is forced has no local variables to speak of.
LEMMA NewTaskShape ==
  ASSUME NEW pc \in {"get_run", "absent", "done", "forced_cancel"}
  PROVE  Shape([NewTask EXCEPT !.pc = pc])
<1>1. pc \in Points
  BY PointNames
<1>2. QED BY <1>1, NewTaskFields DEF Shape, InCall

\* A task before it begins and when it is over is well formed.
LEMMA DoneShape ==
  Shape(NewTask) /\ Shape(NoTask) /\ Shape(At(NoTask, "done"))
<1>1. NewTask \in Tasks /\ NewTask.pc = "get_run"
  <2>1. NewTask = [NewTask EXCEPT !.pc = "get_run"] /\ "get_run" \in Points
    BY PointNames DEF NewTask
  <2>2. QED BY <2>1, NewTaskFields
<1>2. NoTask \in Tasks /\ NoTask.pc = "absent"
  <2>1. "absent" \in Points
    BY PointNames
  <2>2. QED BY <2>1, NewTaskFields DEF NoTask
<1>3. At(NoTask, "done") \in Tasks /\ At(NoTask, "done").pc = "done"
  BY <1>2, PointNames DEF At, Tasks
<1>4. QED BY <1>1, <1>2, <1>3 DEF Shape, InCall

\* Where a task is before it begins and when it is over.
LEMMA DoneFields ==
  /\ NewTask.pc = "get_run" /\ NewTask.steps = 0 /\ NewTask.calls = 0
  /\ NoTask.pc = "absent" /\ At(NoTask, "done").pc = "done"
<1>1. NewTask \in Tasks
  BY DoneShape DEF Shape
<1>2. /\ NewTask.pc = "get_run" /\ NewTask.steps = 0 /\ NewTask.calls = 0
  BY DEF NewTask
<1>3. NoTask \in Tasks
  BY DoneShape DEF Shape
<1>4. NoTask.pc = "absent"
  BY <1>1 DEF NoTask, Tasks
<1>5. At(NoTask, "done").pc = "done"
  BY <1>3 DEF At, Tasks
<1>6. QED BY <1>2, <1>4, <1>5

\* A task that only goes on, to a point that asks nothing of its variables,
\* stays well formed.
LEMMA AtShape ==
  ASSUME NEW t, Shape(t),
         NEW pc \in Points \ (InCall \cup {"response_calls", "tool_reply", "ending"})
  PROVE  Shape(At(t, pc))
BY DEF Shape, At, Tasks, InCall

\* A task that goes on to record its end is well formed.
LEMMA EndingShape ==
  ASSUME NEW t, Shape(t), NEW kind \in TerminalKinds
  PROVE  Shape(Ending(t, kind))
BY PointNames DEF Shape, Ending, Tasks, InCall, TerminalKinds

\* The task that took a step of its budget.
Stepped(t) == [t EXCEPT !.pc = "model_request_started", !.steps = @ + 1]

\* The next model request counts a step.
LEMMA SteppedFields ==
  ASSUME NEW t \in Tasks, t.steps < MaxSteps
  PROVE  /\ Stepped(t) \in Tasks
         /\ Stepped(t).pc = "model_request_started"
         /\ Stepped(t).steps = t.steps + 1
         /\ Stepped(t).calls = t.calls
<1>1. t.steps + 1 \in 0 .. MaxSteps
  BY LimitsAssumption DEF Tasks
<1>2. "model_request_started" \in Points
  BY PointNames
<1>3. Stepped(t) \in Tasks
  BY <1>1, <1>2 DEF Tasks, Stepped
<1>4. QED BY <1>3 DEF Tasks, Stepped

\* The head of the loop ends the run, or takes a step of the budget.
LEMMA LoopHeadCases ==
  ASSUME NEW r, NEW t \in Tasks, NEW u \in LoopHead(r, t)
  PROVE  \/ r \in tokens /\ u = At(t, "cancel_event")
         \/ u = Limited(t)
         \/ u = Failed(t)
         \/ r \notin tokens /\ t.steps < MaxSteps /\ u = Stepped(t)
<1> DEFINE choices == IF t.steps >= MaxSteps THEN {Limited(t)}
                      ELSE {Stepped(t)} \cup IfDisturbed("failure", {Failed(t)})
<1>1. u \in Checked(r, t, choices)
  BY DEF LoopHead, Stepped
<1>2. CASE r \in tokens
  BY <1>1, <1>2 DEF Checked
<1>3. CASE r \notin tokens /\ t.steps >= MaxSteps
  BY <1>1, <1>3 DEF Checked, IfDisturbed
<1>4. CASE r \notin tokens /\ t.steps < MaxSteps
  <2>1. ~(t.steps >= MaxSteps)
    BY <1>4, LimitsAssumption DEF Tasks
  <2>2. QED BY <1>1, <1>4, <2>1 DEF Checked, IfDisturbed
<1>5. t.steps >= MaxSteps \/ t.steps < MaxSteps
  BY LimitsAssumption DEF Tasks
<1>6. QED BY <1>2, <1>3, <1>4, <1>5

\* The task that took call c of its response.
Called(t, c) == [t EXCEPT !.pc = "tool_call_requested", !.calls = @ + 1,
                          !.left = @ - 1, !.call = c, !.number = 1]

\* The next tool call counts a call and begins with its first attempt.
LEMMA CalledFields ==
  ASSUME NEW t \in Tasks, NEW c \in Calls, t.left # 0, t.calls < MaxCalls
  PROVE  /\ Called(t, c) \in Tasks
         /\ Called(t, c).pc = "tool_call_requested"
         /\ Called(t, c).steps = t.steps
         /\ Called(t, c).calls = t.calls + 1
         /\ Called(t, c).left = t.left - 1
         /\ Called(t, c).number = 1
<1>1. /\ t.calls + 1 \in 0 .. MaxCalls /\ t.left - 1 \in 0 .. MaxBatch
      /\ 1 \in 0 .. MaxAttempts
  BY LimitsAssumption, AttemptsAssumption DEF Tasks
<1>2. "tool_call_requested" \in Points
  BY PointNames
<1>3. Called(t, c) \in Tasks
  BY <1>1, <1>2 DEF Tasks, Called
<1>4. QED BY <1>3 DEF Tasks, Called

\* The next call is taken from the response, or the loop begins again.
LEMMA NextCallCases ==
  ASSUME NEW r, NEW t \in Tasks, NEW u \in NextCall(r, t)
  PROVE  \/ t.left = 0 /\ u \in LoopHead(r, t)
         \/ r \in tokens /\ u = At(t, "cancel_event")
         \/ u = Limited(t)
         \/ /\ r \notin tokens
            /\ t.left # 0 /\ t.calls < MaxCalls
            /\ \E c \in Calls : u = Called(t, c)
<1> DEFINE called == {Called(t, c) : c \in Calls}
<1>1. CASE t.left = 0
  BY <1>1 DEF NextCall
<1>2. ASSUME t.left # 0
      PROVE  u \in Checked(r, t, IF t.calls >= MaxCalls THEN {Limited(t)}
                                 ELSE called)
  BY <1>2 DEF NextCall, Called
<1>3. CASE t.left # 0 /\ r \in tokens
  BY <1>2, <1>3 DEF Checked
<1>4. CASE t.left # 0 /\ r \notin tokens /\ t.calls >= MaxCalls
  BY <1>2, <1>4 DEF Checked, IfDisturbed
<1>5. CASE t.left # 0 /\ r \notin tokens /\ t.calls < MaxCalls
  <2>1. ~(t.calls >= MaxCalls)
    BY <1>5, LimitsAssumption DEF Tasks
  <2>2. u \in called \/ u = Limited(t)
    BY <1>2, <1>5, <2>1 DEF Checked, IfDisturbed
  <2>3. QED BY <1>5, <2>2
<1>6. t.calls >= MaxCalls \/ t.calls < MaxCalls
  BY LimitsAssumption DEF Tasks
<1>7. QED BY <1>1, <1>3, <1>4, <1>5, <1>6

\* The reply to a tool call counts nothing.
LEMMA ReplyFields ==
  ASSUME NEW t, Shape(t), NEW code \in ResultCodes, t.calls # 0
  PROVE  /\ Shape(Reply(t, code))
         /\ Reply(t, code).pc = "tool_reply"
         /\ Reply(t, code).steps = t.steps
         /\ Reply(t, code).calls = t.calls
         /\ Reply(t, code).left = t.left
<1>1. 0 \in Nat /\ 0 \in 0 .. MaxAttempts /\ "tool_reply" \in Points
  BY AttemptsAssumption, PointNames
<1>2. Reply(t, code) \in Tasks
  BY <1>1 DEF Shape, Tasks, Reply
<1>3. /\ Reply(t, code).pc = "tool_reply"
      /\ Reply(t, code).steps = t.steps
      /\ Reply(t, code).calls = t.calls
      /\ Reply(t, code).left = t.left
  BY DEF Shape, Tasks, Reply
<1>4. QED BY <1>2, <1>3 DEF Shape, InCall

\* The result of a tool call counts nothing and goes on to the end of the
\* attempt.
LEMMA ResultFields ==
  ASSUME NEW t, Shape(t), NEW code \in ResultCodes, NEW unknown \in BOOLEAN,
         NEW retryable \in BOOLEAN, t.pc \in InCall,
         code = "none" => ~unknown /\ ~retryable
  PROVE  LET u == Result(t, code, unknown, retryable) IN
         /\ Shape(u) /\ u.pc = "end_attempt"
         /\ u.steps = t.steps /\ u.calls = t.calls /\ u.left = t.left
         /\ u.number = t.number /\ u.row = t.row /\ u.call = t.call
<1> DEFINE u == Result(t, code, unknown, retryable)
<1>1. "end_attempt" \in Points
  BY PointNames
<1>2. u \in Tasks
  BY <1>1 DEF Shape, Tasks, Result
<1>3. /\ u.pc = "end_attempt" /\ u.code = code
      /\ u.unknown = unknown /\ u.retryable = retryable
      /\ u.steps = t.steps /\ u.calls = t.calls /\ u.left = t.left
      /\ u.number = t.number /\ u.row = t.row /\ u.call = t.call
  BY DEF Shape, Tasks, Result
<1> HIDE DEF u
<1>4. Shape(u)
  BY <1>2, <1>3 DEF Shape, InCall
<1>5. QED BY <1>3, <1>4 DEF u

\* Moving on inside a call.
LEMMA AtCallShape ==
  ASSUME NEW t, Shape(t), t.pc \in InCall,
         NEW pc \in InCall \ {"end_attempt", "retry_failed", "retry_wait"}
  PROVE  Shape(At(t, pc))
BY PointNames DEF Shape, At, Tasks, InCall

\* The next attempt of a call.
LEMMA RetryShape ==
  ASSUME NEW t, Shape(t), t.pc = "retry_wait"
  PROVE  LET u == [t EXCEPT !.pc = "retry_started", !.number = @ + 1] IN
         /\ Shape(u) /\ u.pc = "retry_started"
         /\ u.steps = t.steps /\ u.calls = t.calls /\ u.left = t.left
         /\ u.number = t.number + 1 /\ u.row = t.row /\ u.call = t.call
<1> DEFINE u == [t EXCEPT !.pc = "retry_started", !.number = @ + 1]
<1>1. /\ t \in Tasks /\ t.number < MaxAttempts /\ t.calls # 0
  BY DEF Shape, InCall
<1>2. t.number + 1 \in 0 .. MaxAttempts /\ t.number + 1 # 0
  BY <1>1, AttemptsAssumption DEF Tasks
<1>3. "retry_started" \in Points
  BY PointNames
<1>4. u \in Tasks
  BY <1>1, <1>2, <1>3 DEF Tasks
<1>5. /\ u.pc = "retry_started"
      /\ u.steps = t.steps /\ u.calls = t.calls /\ u.left = t.left
      /\ u.number = t.number + 1 /\ u.row = t.row /\ u.call = t.call
  BY <1>1 DEF Tasks
<1> HIDE DEF u
<1>6. Shape(u)
  BY <1>1, <1>2, <1>4, <1>5 DEF Shape, InCall
<1>7. QED BY <1>5, <1>6 DEF u

\* The place of the next attempt in the table.
LEMMA NextRow == TypeOK => Len(attempts) + 1 \in Nat
BY LenProperties DEF TypeOK

-----------------------------------------------------------------------------
(* Where a task goes *)

\* What a task has taken of its budget, and how much of it is in the row: the
\* request or call it is about to announce is not.
Taken(t) == [steps |-> t.steps, calls |-> t.calls]
Counted(t) ==
  [steps |-> IF t.pc = "model_request_started" THEN t.steps - 1 ELSE t.steps,
   calls |-> IF t.pc = "tool_call_requested" THEN t.calls - 1 ELSE t.calls]

\* The points between the start of a run and the decision to end it.
InLoop == InHarness \ {"run_started", "cancel_event", "ending"}

\* The next point of a task, whatever it waits for succeeds.
NextPoint(r, t, u) ==
  /\ t.pc = "get_run" =>
       u.pc = IF status[r] = "queued" THEN "get_session" ELSE "returned"
  /\ t.pc = "get_session" => u.pc = "get_task_state"
  /\ t.pc = "get_task_state" => u.pc = "execution_outcomes"
  /\ t.pc = "execution_outcomes" =>
       u.pc = IF session[r] \in ActiveSessions THEN "rejected"
              ELSE "run_started"
  /\ t.pc = "run_started" =>
       u.pc \in {"model_request_started", "cancel_event", "ending"}
  /\ t.pc \in InLoop => u.pc \in InLoop \cup {"cancel_event", "ending"}
  /\ t.pc = "response_final" => u.pc \in {"cancel_event", "ending"}
  /\ t.pc = "cancel_event" => u.pc = "ending"
  /\ t.pc = "ending" => u.pc = "returned"
  /\ t.pc = "forced_cancel" => u.pc = "forced_record"
  /\ t.pc = "forced_record" => u.pc = "cancelled"
  /\ u.pc = "cancel_event" => r \in tokens
  /\ u.pc = "model_request_started" => r \notin tokens
  /\ u.pc = "ending" /\ u.ending = "run_completed" => t.pc = "response_final"

\* The local variables of a call, from point to point.
NextAttempt(t, u) ==
  /\ u.pc = "tool_call_requested" => u.number = 1
  /\ u.pc = "tool_execution_started" =>
       t.pc = "tool_call_requested" /\ u.number = t.number
  /\ u.pc = "discover_tools" =>
       t.pc = "tool_execution_started" /\ u.number = t.number
  /\ u.pc = "begin_attempt" =>
       /\ t.pc \in {"discover_tools", "retry_started"}
       /\ u.number = t.number /\ u.row = t.row /\ u.calls = t.calls
  /\ u.pc \in {"call_tool", "tool", "end_attempt"} =>
       /\ t.pc \in {"begin_attempt", "call_tool", "tool"}
       /\ u.number = t.number /\ u.call = t.call /\ u.calls = t.calls
       /\ u.row = IF t.pc = "begin_attempt" THEN Len(attempts) + 1 ELSE t.row
  /\ u.pc = "tool" => t.pc = "call_tool"
  /\ t.pc \in {"call_tool", "tool"} => u.pc \in {"tool", "end_attempt"}
  /\ u.pc = "retry_failed" =>
       /\ t.pc = "end_attempt" /\ t.call.retry_safe /\ t.code # "none"
       /\ u.number = t.number /\ u.row = t.row /\ u.calls = t.calls
  /\ u.pc = "retry_wait" =>
       /\ t.pc = "retry_failed"
       /\ u.number = t.number /\ u.row = t.row /\ u.calls = t.calls
  /\ u.pc = "retry_started" =>
       /\ t.pc = "retry_wait"
       /\ u.number = t.number + 1 /\ u.row = t.row /\ u.calls = t.calls

\* The calls of a response are taken one by one, and each has its reply before
\* the next is taken; the loop goes on when none is left.
NextOwed(t, u) ==
  /\ u.pc = "tool_call_requested" =>
       /\ t.pc \in {"response_calls", "tool_reply"} /\ t.left # 0
       /\ u.left = t.left - 1 /\ u.calls = t.calls + 1
  /\ u.pc \in (InCall \ {"tool_call_requested"}) \cup {"tool_reply"} =>
       t.pc \in InCall /\ u.left = t.left /\ u.calls = t.calls
  /\ t.pc \in InCall =>
       u.pc \in (InCall \ {"tool_call_requested"})
                \cup {"tool_reply", "cancel_event", "ending"}
  /\ t.pc \in {"response_calls", "tool_reply"} /\ t.left # 0 =>
       u.pc \in {"tool_call_requested", "cancel_event", "ending"}

Leads(r, t, u) ==
  /\ Shape(u)
  /\ Counted(u) = Taken(t)
  /\ NextPoint(r, t, u)
  /\ NextAttempt(t, u)
  /\ NextOwed(t, u)

\* A task that only goes on keeps its local variables.
LEMMA AtFields ==
  ASSUME NEW t \in Tasks, NEW pc \in Points
  PROVE  /\ At(t, pc) \in Tasks /\ At(t, pc).pc = pc
         /\ At(t, pc).steps = t.steps /\ At(t, pc).calls = t.calls
         /\ At(t, pc).left = t.left /\ At(t, pc).call = t.call
         /\ At(t, pc).number = t.number /\ At(t, pc).row = t.row
         /\ At(t, pc).ending = t.ending
BY DEF At, Tasks

\* A task that goes on to record its end keeps its counts.
LEMMA EndingFields ==
  ASSUME NEW t \in Tasks, NEW kind \in TerminalKinds
  PROVE  /\ Ending(t, kind).pc = "ending" /\ Ending(t, kind).ending = kind
         /\ Ending(t, kind).steps = t.steps /\ Ending(t, kind).calls = t.calls
BY PointNames DEF Ending, Tasks, TerminalKinds

\* The points a task may go to from anywhere.
LEMMA GoesTo ==
  ASSUME NEW t, Shape(t),
         NEW pc \in {"get_run", "get_session", "get_task_state",
           "execution_outcomes", "run_started", "response_invalid",
           "response_final", "model", "cancel_event", "forced_cancel",
           "forced_record", "returned", "raised", "rejected", "cancelled"}
  PROVE  /\ Shape(At(t, pc)) /\ At(t, pc).pc = pc
         /\ Counted(At(t, pc)) = Taken(t)
<1>1. pc \in Points \ (InCall \cup {"response_calls", "tool_reply", "ending"})
  BY PointNames DEF InCall
<1>2. QED BY <1>1, AtShape, AtFields DEF Shape, Counted, Taken

\* The loop decides to end the run, as cancelled, limited or failed.
Stopping(r, t, u) ==
  /\ Shape(u)
  /\ Counted(u) = Taken(t)
  /\ u.pc \in {"cancel_event", "ending"}
  /\ u.pc = "cancel_event" => r \in tokens
  /\ u.pc = "ending" => u.ending # "run_completed"

\* The three ways a task stops before its answer: cancelled, out of its limits,
\* failed.
LEMMA StopsAs ==
  ASSUME NEW r, NEW t, Shape(t)
  PROVE  /\ r \in tokens => Stopping(r, t, At(t, "cancel_event"))
         /\ Stopping(r, t, Limited(t)) /\ Stopping(r, t, Failed(t))
<1>1. t \in Tasks
  BY DEF Shape
<1>2. \A kind \in TerminalKinds : Shape(Ending(t, kind))
  BY EndingShape
<1>3. QED
  BY <1>1, <1>2, GoesTo, EndingFields
  DEF Stopping, Limited, Failed, TerminalKinds, Counted, Taken

\* A task that stops, stops at a point its loop can stop at.
LEMMA StopsLead ==
  ASSUME NEW r, NEW t, NEW u, Stopping(r, t, u),
         t.pc \in (InLoop \ {"call_tool", "tool"}) \cup {"run_started"}
  PROVE  Leads(r, t, u)
BY DEF Stopping, Leads, NextPoint, NextAttempt, NextOwed, InLoop, InHarness,
       Recording, Waiting, InCall

\* What the loop does after a check.
LEMMA CheckedCases ==
  ASSUME NEW r, NEW t, Shape(t), NEW choices, NEW u \in Checked(r, t, choices)
  PROVE  \/ Stopping(r, t, u)
         \/ r \notin tokens /\ u \in choices
<1>1. CASE r \in tokens
  <2>1. u = At(t, "cancel_event")
    BY <1>1 DEF Checked
  <2>2. QED BY <1>1, <2>1, StopsAs
<1>2. CASE r \notin tokens
  <2>1. u \in choices \/ u = Limited(t)
    BY <1>2 DEF Checked, IfDisturbed
  <2>2. QED BY <1>2, <2>1, StopsAs
<1>3. QED BY <1>1, <1>2

\* The head of the agent loop stops the task or counts a step and asks the
\* model.
LEMMA LoopHeadLeads ==
  ASSUME NEW r, NEW t, Shape(t), NEW u \in LoopHead(r, t)
  PROVE  \/ Stopping(r, t, u)
         \/ /\ r \notin tokens /\ Shape(u) /\ Counted(u) = Taken(t)
            /\ u.pc = "model_request_started"
<1>1. t \in Tasks
  BY DEF Shape
<1>2. ASSUME t.steps < MaxSteps, u = Stepped(t)
      PROVE  /\ Shape(u) /\ Counted(u) = Taken(t)
             /\ u.pc = "model_request_started"
  <2>1. t.steps \in Int
    BY <1>1, LimitsAssumption DEF Tasks
  <2>2. /\ u \in Tasks /\ u.pc = "model_request_started"
        /\ u.steps = t.steps + 1 /\ u.calls = t.calls
    BY <1>1, <1>2, SteppedFields
  <2>3. Counted(u) = Taken(t)
    BY <2>1, <2>2 DEF Counted, Taken
  <2>4. QED BY <2>2, <2>3 DEF Shape, InCall
<1>3. CASE u = Limited(t) \/ u = Failed(t)
  BY <1>3, StopsAs
<1>4. CASE r \in tokens /\ u = At(t, "cancel_event")
  BY <1>4, StopsAs
<1>5. \/ r \in tokens /\ u = At(t, "cancel_event")
      \/ u = Limited(t)
      \/ u = Failed(t)
      \/ r \notin tokens /\ t.steps < MaxSteps /\ u = Stepped(t)
  BY <1>1, LoopHeadCases
<1>6. QED BY <1>2, <1>3, <1>4, <1>5

\* After a tool call the task stops, makes the next call or asks the model.
LEMMA NextCallLeads ==
  ASSUME NEW r, NEW t, Shape(t), NEW u \in NextCall(r, t)
  PROVE  \/ Stopping(r, t, u)
         \/ /\ r \notin tokens /\ Shape(u) /\ Counted(u) = Taken(t)
            /\ \/ u.pc = "model_request_started" /\ t.left = 0
               \/ /\ u.pc = "tool_call_requested" /\ u.number = 1
                  /\ t.left # 0 /\ u.left = t.left - 1
                  /\ u.calls = t.calls + 1
<1>1. t \in Tasks
  BY DEF Shape
<1>2. ASSUME t.left # 0, t.calls < MaxCalls, NEW c \in Calls,
             u = Called(t, c), r \notin tokens
      PROVE  /\ r \notin tokens /\ Shape(u) /\ Counted(u) = Taken(t)
             /\ u.pc = "tool_call_requested" /\ u.number = 1
             /\ u.left = t.left - 1 /\ u.calls = t.calls + 1
  <2>1. t.calls \in Nat
    BY <1>1, LimitsAssumption DEF Tasks
  <2>2. /\ u \in Tasks /\ u.pc = "tool_call_requested"
        /\ u.steps = t.steps /\ u.calls = t.calls + 1 /\ u.number = 1
        /\ u.left = t.left - 1
    BY <1>1, <1>2, CalledFields
  <2>3. Counted(u) = Taken(t)
    BY <2>1, <2>2 DEF Counted, Taken
  <2>4. Shape(u)
    BY <2>1, <2>2 DEF Shape, InCall
  <2>5. QED BY <1>2, <2>2, <2>3, <2>4
<1>3. CASE u = Limited(t)
  BY <1>3, StopsAs
<1>4. CASE r \in tokens /\ u = At(t, "cancel_event")
  BY <1>4, StopsAs
<1>5. CASE t.left = 0 /\ u \in LoopHead(r, t)
  BY <1>5, LoopHeadLeads
<1>6. \/ t.left = 0 /\ u \in LoopHead(r, t)
      \/ r \in tokens /\ u = At(t, "cancel_event")
      \/ u = Limited(t)
      \/ /\ r \notin tokens
         /\ t.left # 0 /\ t.calls < MaxCalls
         /\ \E c \in Calls : u = Called(t, c)
  BY <1>1, NextCallCases
<1>7. QED BY <1>2, <1>3, <1>4, <1>5, <1>6

-----------------------------------------------------------------------------
(* The control state *)

\* The types of everything but the tables, the shape of every task, and that
\* only a task at work can be interrupted.
Control ==
  /\ up \in BOOLEAN /\ accepting \in BOOLEAN /\ broken \in BOOLEAN
  /\ fault \in {"none", "storage", "lifecycle"}
  /\ tokens \subseteq Runs
  /\ task \in [Runs -> Tasks]
  /\ \A r \in Runs : Shape(task[r])
  /\ sub \in [pc : {"idle", "get_session", "get_task_state", "create_run"},
              session : Sessions \cup {NoSession}]
  /\ sub.pc # "idle" => sub.session \in Sessions
  /\ cancels \in [Runs -> {"none", "asked", "answered"}]
  /\ stop \in [pc : {"off", "cancel", "drain", "forced", "closed"},
               run : Runs \cup {NoRun}, left : SUBSET Runs]
  /\ stop.pc = "cancel" => stop.run \in Runs
  /\ interrupted \subseteq LiveTasks
  /\ failures \in 0 .. MaxFailures /\ restarts \in 0 .. MaxRestarts

-----------------------------------------------------------------------------
(* What a step of a task does *)

\* The points at which a task records an event, and the event and the role of
\* its message.
Reports == (Recording \ {"begin_attempt", "end_attempt"})
           \cup {"forced_record"}
KindOf(t) ==
  CASE t.pc \in {"response_invalid", "response_calls", "response_final"} ->
         "model_response_received"
    [] t.pc = "tool_reply" ->
         IF t.code = "none" THEN "tool_execution_completed"
         ELSE "tool_execution_failed"
    [] t.pc = "retry_failed" -> "tool_execution_failed"
    [] t.pc = "retry_started" -> "tool_execution_started"
    [] t.pc = "cancel_event" -> "run_cancel_requested"
    [] t.pc = "ending" -> t.ending
    [] t.pc = "forced_record" -> "run_cancelled"
    [] OTHER -> t.pc
RoleOf(t) ==
  CASE t.pc = "response_calls" -> "calls"
    [] t.pc = "response_final" -> "final"
    [] t.pc = "tool_reply" -> "tool"
    [] OTHER -> "none"

Recorded(r) ==
  LET t == task[r] IN
  RecordEvent(r, Logical(KindOf(t)), RoleOf(t), CallsIn(t, RoleOf(t)),
              OwnRun(t))
Begun(r) ==
  LET t == task[r] IN
  BeginAttempt(r, t.calls, t.number, t.call.key, t.call.retry_safe)

\* The transaction of task r commits, or what it waits for outside the store
\* happens.
Commits(r) ==
  LET t == task[r] IN
  /\ t.pc \in StoreCalls => ~broken /\ Turn(RunProc(r))
  /\ \/ t.pc \in Reading \cup Waiting \cup {"begin_attempt"}
        /\ UNCHANGED <<dbVars, snapshot>>
     \/ t.pc \in Reports /\ Recorded(r)
     \/ t.pc = "begin_attempt" /\ Begun(r)
     \/ t.pc = "end_attempt" /\ EndAttempt(t.row, t.code, t.unknown)
     \/ t.pc = "forced_cancel" /\ CancelRun(r)

\* begin_attempt refuses, or leaves an intent that the executor follows or
\* settles.
RefusedOrBegun(r, u) ==
  \/ u.pc = "tool_reply" /\ UNCHANGED attempts
  \/ u.pc \in {"call_tool", "end_attempt"} /\ Begun(r)

\* Task r goes on as u.
Advances(r, u) ==
  /\ Commits(r)
  /\ Leads(r, task[r], u)
  /\ task[r].pc = "begin_attempt" => RefusedOrBegun(r, u)
  /\ dispatched' = IF u.pc = "tool" THEN dispatched \cup {task[r].row}
                   ELSE dispatched
  /\ r \notin interrupted
  /\ Becomes(r, u)
  /\ UNCHANGED <<broken, serviceVars, tokens, interrupted, failures>>

\* Its transaction fails, or commits without an acknowledgement.
Raises(r) ==
  /\ task[r].pc \in StoreCalls /\ Turn(RunProc(r))
  /\ Commits(r) \/ UNCHANGED <<dbVars, snapshot>>
  /\ broken' = TRUE
  /\ failures' \in 0 .. MaxFailures
  /\ r \notin interrupted
  /\ Becomes(r, At(task[r], "raised"))
  /\ UNCHANGED <<serviceVars, tokens, interrupted, dispatched>>

\* It notices that it was cancelled natively.
Interrupts(r) ==
  /\ r \in interrupted
  /\ \/ task[r].pc \in StoreCalls /\ Commits(r) /\ broken' = TRUE
     \/ UNCHANGED <<dbVars, snapshot>> /\ broken' \in {broken, TRUE}
  /\ interrupted' = interrupted \ {r}
  /\ Becomes(r, Unwound(task[r]))
  /\ UNCHANGED <<serviceVars, tokens, dispatched, failures>>

TaskStep(r) ==
  Observe(r) \/ Raises(r) \/ Interrupts(r) \/ \E u : Advances(r, u)

\* A failure of the store is counted while there are any left.
LEMMA FailureCounted ==
  ASSUME Control
  PROVE  failures < MaxFailures => failures + 1 \in 0 .. MaxFailures
BY BoundsAssumption DEF Control

\* A task in a transaction.
LEMMA AnsweredStep ==
  ASSUME Control, NEW r \in Runs, NEW nexts,
         task[r].pc \in StoreCalls, Turn(RunProc(r)),
         Answered(r, nexts),
         ~broken => Commits(r),
         \A u \in nexts : /\ Leads(r, task[r], u) /\ u.pc # "tool"
                          /\ task[r].pc = "begin_attempt" =>
                               RefusedOrBegun(r, u),
         UNCHANGED <<serviceVars, tokens, dispatched>>
  PROVE  TaskStep(r)
<1>1. ASSUME r \notin interrupted, NEW u \in nexts, Becomes(r, u),
             UNCHANGED <<broken, interrupted, failures>>
      PROVE  Advances(r, u)
  BY <1>1 DEF Answered, Advances
<1>2. ASSUME r \notin interrupted, failures < MaxFailures,
             failures' = failures + 1, broken' = TRUE,
             Becomes(r, At(task[r], "raised")), UNCHANGED interrupted
      PROVE  Raises(r)
  BY <1>2, FailureCounted DEF Answered, Raises
<1>3. ASSUME r \in interrupted, interrupted' = interrupted \ {r},
             broken' = TRUE, Becomes(r, Unwound(task[r])), UNCHANGED failures
      PROVE  Interrupts(r)
  BY <1>3 DEF Answered, Interrupts
<1>4. QED BY <1>1, <1>2, <1>3 DEF Answered, TaskStep

\* A task that records an event.
LEMMA RecordsStep ==
  ASSUME Control, NEW r \in Runs, NEW pc \in Reports, NEW kind, NEW role,
         NEW nexts, Records(r, pc, kind, role, nexts),
         kind = KindOf(task[r]), role = RoleOf(task[r]),
         \A u \in nexts : Leads(r, task[r], u) /\ u.pc # "tool"
  PROVE  TaskStep(r)
<1>1. /\ task[r].pc = pc /\ Turn(RunProc(r)) /\ Answered(r, nexts)
      /\ UNCHANGED <<serviceVars, tokens, dispatched>>
      /\ RecordEvent(r, Logical(kind), role, CallsIn(task[r], role),
                     OwnRun(task[r]))
  BY DEF Records, TaskTurn
<1>2. pc \in StoreCalls /\ pc # "begin_attempt"
  BY DEF Reports, StoreCalls, Forced, Recording
<1>3. ~broken => Commits(r)
  BY <1>1, <1>2 DEF Commits, Recorded
<1>4. QED BY <1>1, <1>2, <1>3, AnsweredStep

\* A read of the store is a step of its task to one of the points that follow
\* it.
LEMMA ReadsStep ==
  ASSUME Control, NEW r \in Runs, NEW pc \in Reading, NEW nexts,
         Reads(r, pc, nexts),
         \A u \in nexts : Leads(r, task[r], u) /\ u.pc # "tool"
  PROVE  TaskStep(r)
<1>1. /\ task[r].pc = pc /\ Turn(RunProc(r)) /\ Answered(r, nexts)
      /\ UNCHANGED <<serviceVars, tokens, dispatched>>
      /\ UNCHANGED <<dbVars, snapshot>>
  BY DEF Reads, TaskTurn
<1>2. pc \in StoreCalls /\ pc # "begin_attempt"
  BY DEF StoreCalls, Reading
<1>3. ~broken => Commits(r)
  BY <1>1, <1>2 DEF Commits
<1>4. QED BY <1>1, <1>2, <1>3, AnsweredStep

\* A task whose wait outside the store ends.
LEMMA WakesStep ==
  ASSUME Control, NEW r \in Runs, NEW pc \in Waiting, NEW nexts,
         Wakes(r, pc, nexts),
         \A u \in nexts :
           /\ Leads(r, task[r], u)
           /\ dispatched' = IF u.pc = "tool" THEN dispatched \cup {task[r].row}
                            ELSE dispatched
  PROVE  TaskStep(r)
<1>1. PICK u \in nexts : Becomes(r, u)
  BY DEF Wakes
<1>2. /\ task[r].pc = pc /\ r \notin interrupted
      /\ UNCHANGED <<storeVars, serviceVars, tokens, interrupted, failures>>
  BY DEF Wakes
<1>3. pc \notin StoreCalls /\ pc # "begin_attempt"
  BY DEF StoreCalls, Reading, Recording, Forced, Waiting
<1>4. UNCHANGED <<dbVars, snapshot>> /\ UNCHANGED broken
  BY <1>2 DEF storeVars, dbVars
<1>5. Commits(r)
  BY <1>2, <1>3, <1>4 DEF Commits
<1>6. Advances(r, u)
  BY <1>1, <1>2, <1>3, <1>4, <1>5 DEF Advances
<1>7. QED BY <1>6 DEF TaskStep

\* Moving on to another point without touching a local variable.
LEMMA AtLeads ==
  ASSUME NEW r, NEW t, Shape(t),
         NEW pc \in {"get_session", "get_task_state", "execution_outcomes",
           "run_started", "response_invalid", "response_final", "model",
           "forced_record", "returned", "rejected", "cancelled"},
         NextPoint(r, t, At(t, pc)),
         t.pc \notin InCall \cup {"response_calls", "tool_reply"}
  PROVE  Leads(r, t, At(t, pc)) /\ At(t, pc).pc = pc
BY GoesTo DEF Leads, NextAttempt, NextOwed, InCall

\* What AgentHarness does before the loop is a step of the task.
LEMMA PreparingStep ==
  ASSUME Control, NEW r \in Runs, Preparing(r)
  PROVE  TaskStep(r)
<1> DEFINE t == task[r]
<1>1. Shape(t)
  BY DEF Control
<1>2. ASSUME GetRun(r) PROVE TaskStep(r)
  <2> DEFINE pc == IF status[r] = "queued" THEN "get_session" ELSE "returned"
  <2>1. t.pc = "get_run"
    BY <1>2 DEF GetRun, Reads, TaskTurn
  <2>2. At(t, pc).pc = pc
    BY <1>1, GoesTo
  <2>3. Leads(r, t, At(t, pc)) /\ At(t, pc).pc # "tool"
    BY <1>1, <2>1, <2>2, AtLeads DEF NextPoint, InLoop, InHarness, Recording,
       Waiting, InCall
  <2>4. QED BY <1>2, <2>3, ReadsStep DEF GetRun, Reading
<1>3. ASSUME GetSession(r) PROVE TaskStep(r)
  <2>1. t.pc = "get_session"
    BY <1>3 DEF GetSession, Reads, TaskTurn
  <2>2. At(t, "get_task_state").pc = "get_task_state"
    BY <1>1, GoesTo
  <2>3. Leads(r, t, At(t, "get_task_state"))
    BY <1>1, <2>1, <2>2, AtLeads DEF NextPoint, InLoop, InHarness, Recording,
       Waiting, InCall
  <2>4. QED BY <1>3, <2>2, <2>3, ReadsStep DEF GetSession, Reading
<1>4. ASSUME ReadTaskState(r) PROVE TaskStep(r)
  <2>1. t.pc = "get_task_state"
    BY <1>4 DEF ReadTaskState, Reads, TaskTurn
  <2>2. At(t, "execution_outcomes").pc = "execution_outcomes"
    BY <1>1, GoesTo
  <2>3. Leads(r, t, At(t, "execution_outcomes"))
    BY <1>1, <2>1, <2>2, AtLeads DEF NextPoint, InLoop, InHarness, Recording,
       Waiting, InCall
  <2>4. QED BY <1>4, <2>2, <2>3, ReadsStep DEF ReadTaskState, Reading
<1>5. ASSUME GetOutcomes(r) PROVE TaskStep(r)
  <2> DEFINE pc == IF session[r] \in ActiveSessions THEN "rejected"
                   ELSE "run_started"
  <2>1. t.pc = "execution_outcomes"
    BY <1>5 DEF GetOutcomes, Reads, TaskTurn
  <2>2. At(t, pc).pc = pc
    BY <1>1, GoesTo
  <2>3. Leads(r, t, At(t, pc)) /\ At(t, pc).pc # "tool"
    BY <1>1, <2>1, <2>2, AtLeads DEF NextPoint, InLoop, InHarness, Recording,
       Waiting, InCall
  <2>4. QED BY <1>5, <2>3, ReadsStep DEF GetOutcomes, Reading
<1>6. QED BY <1>2, <1>3, <1>4, <1>5 DEF Preparing

\* A final decision inside the loop leads out of it.
LEMMA StoppingLeads ==
  ASSUME NEW r, NEW t, NEW u, Stopping(r, t, u),
         t.pc \in (InLoop \ {"call_tool", "tool"}) \cup {"run_started"}
  PROVE  Leads(r, t, u) /\ u.pc # "tool"
BY StopsLead DEF Stopping

\* The loop leads to a model request or to a tool call.
LEMMA LoopStep ==
  ASSUME NEW r, NEW t, t.pc \in {"response_calls", "tool_reply"}, NEW u,
         Shape(u), Counted(u) = Taken(t), r \notin tokens,
         \/ u.pc = "model_request_started" /\ t.left = 0
         \/ /\ u.pc = "tool_call_requested" /\ u.number = 1
            /\ t.left # 0 /\ u.left = t.left - 1 /\ u.calls = t.calls + 1
  PROVE  Leads(r, t, u) /\ u.pc # "tool"
BY DEF Leads, NextPoint, NextAttempt, NextOwed, InLoop, InHarness, Recording,
       Waiting, InCall

\* What AgentLoop does is a step of the task.
LEMMA LoopingStep ==
  ASSUME Control, NEW r \in Runs, Looping(r)
  PROVE  TaskStep(r)
<1> DEFINE t == task[r]
<1> USE DEF Reports, Recording, KindOf, RoleOf
<1>1. Shape(t) /\ t \in Tasks
  BY DEF Control, Shape
<1>2. ASSUME RunStarted(r) PROVE TaskStep(r)
  <2>1. t.pc = "run_started"
    BY <1>2 DEF RunStarted, Records, TaskTurn
  <2>2. ASSUME NEW u \in LoopHead(r, t)
        PROVE  Leads(r, t, u) /\ u.pc # "tool"
    <3>1. CASE Stopping(r, t, u)
      BY <2>1, <3>1, StoppingLeads
    <3>2. CASE /\ r \notin tokens /\ Shape(u) /\ Counted(u) = Taken(t)
               /\ u.pc = "model_request_started"
      BY <2>1, <3>2 DEF Leads, NextPoint, NextAttempt, NextOwed, InLoop, InCall
    <3>3. QED BY <1>1, <3>1, <3>2, LoopHeadLeads
  <2>3. QED BY <1>2, <2>1, <2>2, RecordsStep DEF RunStarted
<1>3. ASSUME ModelRequested(r) PROVE TaskStep(r)
  <2>1. t.pc = "model_request_started"
    BY <1>3 DEF ModelRequested, Records, TaskTurn
  <2>2. Leads(r, t, At(t, "model")) /\ At(t, "model").pc # "tool"
    <3>1. At(t, "model").pc = "model"
      BY <1>1, GoesTo
    <3>2. NextPoint(r, t, At(t, "model"))
      BY <2>1, <3>1 DEF NextPoint, InLoop, InHarness, Waiting
    <3>3. QED BY <1>1, <2>1, <3>1, <3>2, AtLeads DEF InCall
  <2>3. t.pc \in InLoop
    BY <2>1 DEF InLoop, InHarness
  <2>4. ASSUME NEW u \in Checked(r, t, {At(t, "model")})
        PROVE  Leads(r, t, u) /\ u.pc # "tool"
    <3>1. Stopping(r, t, u) \/ u = At(t, "model")
      BY <1>1, CheckedCases
    <3>2. QED BY <2>1, <2>2, <2>3, <3>1, StoppingLeads
  <2>5. QED BY <1>3, <2>1, <2>4, RecordsStep DEF ModelRequested
<1>4. ASSUME t.pc = "model"
      PROVE  /\ t.pc \in InLoop
             /\ Leads(r, t, Failed(t)) /\ Failed(t).pc = "ending"
  <2>1. t.pc \in InLoop
    BY <1>4 DEF InLoop, InHarness, Waiting
  <2>2. Stopping(r, t, Failed(t))
    BY <1>1, StopsAs
  <2>3. Failed(t).pc = "ending"
    BY <1>1, EndingFields DEF Failed, TerminalKinds
  <2>4. QED BY <1>4, <2>1, <2>2, <2>3, StoppingLeads
<1>5. ASSUME ModelReturns(r) PROVE TaskStep(r)
  <2> DEFINE called == {[t EXCEPT !.pc = "response_calls", !.left = n] :
                          n \in 1 .. MaxBatch}
             choices == {At(t, "response_final")} \cup called \cup
               IfDisturbed("failure", {At(t, "response_invalid"), Failed(t)})
  <2>1. t.pc = "model"
    BY <1>5 DEF ModelReturns, Wakes
  <2>2. ASSUME NEW n \in 1 .. MaxBatch
        PROVE  LET u == [t EXCEPT !.pc = "response_calls", !.left = n] IN
               Leads(r, t, u) /\ u.pc # "tool"
    <3> DEFINE u == [t EXCEPT !.pc = "response_calls", !.left = n]
    <3>1. n \in 0 .. MaxBatch /\ n # 0 /\ "response_calls" \in Points
      BY PointNames, LimitsAssumption
    <3>2. /\ u \in Tasks /\ u.pc = "response_calls" /\ u.left = n
          /\ u.steps = t.steps /\ u.calls = t.calls
      BY <1>1, <3>1 DEF Tasks
    <3> HIDE DEF u
    <3>3. Shape(u)
      BY <3>1, <3>2 DEF Shape, InCall
    <3>4. Counted(u) = Taken(t)
      BY <3>2 DEF Counted, Taken
    <3>5. NextPoint(r, t, u) /\ NextAttempt(t, u) /\ NextOwed(t, u)
      BY <2>1, <3>2 DEF NextPoint, NextAttempt, NextOwed, InLoop, InHarness,
                        Waiting, InCall
    <3>6. QED BY <3>2, <3>3, <3>4, <3>5 DEF Leads, u
  <2>3. ASSUME NEW pc \in {"response_final", "response_invalid"}
        PROVE  Leads(r, t, At(t, pc)) /\ At(t, pc).pc # "tool"
    <3>1. At(t, pc).pc = pc
      BY <1>1, GoesTo
    <3>2. NextPoint(r, t, At(t, pc))
      BY <2>1, <3>1 DEF NextPoint, InLoop, InHarness, Waiting
    <3>3. QED BY <1>1, <2>1, <3>1, <3>2, AtLeads DEF InCall
  <2>4. \A u \in choices : Leads(r, t, u) /\ u.pc # "tool"
    BY <1>4, <2>1, <2>2, <2>3 DEF IfDisturbed
  <2> HIDE DEF choices
  <2>5. \A u \in Checked(r, t, choices) : Leads(r, t, u) /\ u.pc # "tool"
    BY <1>1, <1>4, <2>1, <2>4, CheckedCases, StoppingLeads
  <2>6. Wakes(r, "model", Checked(r, t, choices)) /\ UNCHANGED dispatched
    BY <1>5 DEF ModelReturns, choices
  <2>7. QED BY <2>5, <2>6, WakesStep DEF Waiting
<1>6. ASSUME ModelFails(r) PROVE TaskStep(r)
  <2>1. t.pc = "model"
    BY <1>6 DEF ModelFails, Wakes
  <2>2. QED BY <1>4, <1>6, <2>1, WakesStep DEF ModelFails, Waiting
<1>7. ASSUME ResponseInvalid(r) PROVE TaskStep(r)
  <2>1. t.pc = "response_invalid"
    BY <1>7 DEF ResponseInvalid, Records, TaskTurn
  <2>2. t.pc \in InLoop
    BY <2>1 DEF InLoop, InHarness
  <2>3. Leads(r, t, Failed(t)) /\ Failed(t).pc # "tool"
    BY <1>1, <2>1, <2>2, StopsAs, StoppingLeads
  <2>4. QED BY <1>7, <2>1, <2>3, RecordsStep DEF ResponseInvalid
<1>8. ASSUME ResponseFinal(r) PROVE TaskStep(r)
  <2> DEFINE u == Ending(t, "run_completed")
  <2>1. t.pc = "response_final"
    BY <1>8 DEF ResponseFinal, Records, TaskTurn
  <2>2. t.pc \in InLoop
    BY <2>1 DEF InLoop, InHarness
  <2>3. /\ u.pc = "ending" /\ Shape(u)
        /\ u.steps = t.steps /\ u.calls = t.calls
    BY <1>1, EndingShape, EndingFields DEF TerminalKinds
  <2>4. Leads(r, t, u)
    BY <2>1, <2>3
    DEF Leads, NextPoint, NextAttempt, NextOwed, Counted, Taken, InLoop,
        InHarness, InCall
  <2> HIDE DEF u
  <2>5. ASSUME NEW v \in Checked(r, t, {u})
        PROVE  Leads(r, t, v) /\ v.pc # "tool"
    <3> DEFINE choices == {u}
    <3> HIDE DEF choices
    <3>1. Stopping(r, t, v) \/ v = u
      <4>1. v \in Checked(r, t, choices)
        BY DEF choices
      <4>2. Stopping(r, t, v) \/ v \in choices
        BY <1>1, <4>1, CheckedCases
      <4>3. QED BY <4>2 DEF choices
    <3>2. t.pc \in InLoop \ {"call_tool", "tool"}
      BY <2>1, <2>2
    <3>3. CASE Stopping(r, t, v)
      BY <3>2, <3>3, StoppingLeads
    <3>4. CASE v = u
      BY <2>3, <2>4, <3>4
    <3>5. QED BY <3>1, <3>3, <3>4
  <2>6. QED BY <1>8, <2>1, <2>5, RecordsStep DEF ResponseFinal, u
<1>9. ASSUME ResponseCalls(r) PROVE TaskStep(r)
  <2> DEFINE nexts == IF t.steps >= MaxSteps THEN {Limited(t)}
                      ELSE NextCall(r, t)
  <2>1. t.pc = "response_calls"
    BY <1>9 DEF ResponseCalls, Records, TaskTurn
  <2>2. t.pc \in InLoop
    BY <2>1 DEF InLoop, InHarness
  <2>3. Leads(r, t, Limited(t)) /\ Limited(t).pc # "tool"
    BY <1>1, <2>1, <2>2, StopsAs, StoppingLeads
  <2>4. ASSUME NEW u \in NextCall(r, t)
        PROVE  Leads(r, t, u) /\ u.pc # "tool"
    BY <1>1, <2>1, <2>2, NextCallLeads, StoppingLeads, LoopStep
  <2>5. \A u \in nexts : Leads(r, t, u) /\ u.pc # "tool"
    BY <2>3, <2>4
  <2>6. Records(r, "response_calls", "model_response_received", "calls", nexts)
    BY <1>9 DEF ResponseCalls
  <2> HIDE DEF nexts
  <2>7. QED BY <2>1, <2>5, <2>6, RecordsStep
<1>10. ASSUME ToolCallRequested(r) PROVE TaskStep(r)
  <2> DEFINE u == At(t, "tool_execution_started")
  <2>1. t.pc = "tool_call_requested"
    BY <1>10 DEF ToolCallRequested, Records, TaskTurn
  <2>2. Shape(u)
    BY <1>1, <2>1, AtCallShape DEF InCall
  <2>3. /\ u.pc = "tool_execution_started" /\ u.number = t.number
        /\ u.steps = t.steps /\ u.calls = t.calls /\ u.left = t.left
    BY <1>1, AtFields, PointNames
  <2>4. Leads(r, t, u)
    BY <2>1, <2>2, <2>3
    DEF Leads, NextPoint, NextAttempt, NextOwed, Counted, Taken, InLoop,
        InHarness, InCall
  <2>5. QED BY <1>10, <2>1, <2>3, <2>4, RecordsStep DEF ToolCallRequested
<1>11. ASSUME ToolReplied(r) PROVE TaskStep(r)
  <2> DEFINE cleared == [t EXCEPT !.code = "none"]
  <2>1. t.pc = "tool_reply"
    BY <1>11 DEF ToolReplied, Records, TaskTurn
  <2>2. t.pc \in InLoop
    BY <2>1 DEF InLoop, InHarness
  <2>3. /\ cleared \in Tasks /\ cleared.pc = t.pc
        /\ cleared.steps = t.steps /\ cleared.calls = t.calls
        /\ cleared.left = t.left
    BY <1>1 DEF Tasks, ResultCodes
  <2> HIDE DEF cleared
  <2>4. Shape(cleared) /\ Taken(cleared) = Taken(t)
    BY <1>1, <2>1, <2>3 DEF Shape, InCall, Taken
  <2>5. ASSUME NEW u \in NextCall(r, cleared)
        PROVE  Leads(r, t, u) /\ u.pc # "tool"
    <3>1. Stopping(r, cleared, u) => Stopping(r, t, u)
      BY <2>4 DEF Stopping
    <3>2. QED
      BY <2>1, <2>2, <2>3, <2>4, <3>1, NextCallLeads, StoppingLeads, LoopStep
  <2>6. QED
    BY <1>11, <2>1, <2>5, RecordsStep DEF ToolReplied, cleared
<1>12. ASSUME CancelEvent(r) PROVE TaskStep(r)
  <2> DEFINE u == Ending(t, "run_cancelled")
  <2>1. t.pc = "cancel_event"
    BY <1>12 DEF CancelEvent, Records, TaskTurn
  <2>2. /\ u.pc = "ending" /\ Shape(u) /\ u.ending = "run_cancelled"
        /\ u.steps = t.steps /\ u.calls = t.calls
    BY <1>1, EndingShape, EndingFields DEF TerminalKinds
  <2>3. Leads(r, t, u)
    BY <2>1, <2>2
    DEF Leads, NextPoint, NextAttempt, NextOwed, Counted, Taken, InLoop,
        InHarness, InCall
  <2>4. QED BY <1>12, <2>1, <2>2, <2>3, RecordsStep DEF CancelEvent
<1>13. ASSUME Ends(r) PROVE TaskStep(r)
  <2>1. t.pc = "ending"
    BY <1>13 DEF Ends, Records, TaskTurn
  <2>2. At(t, "returned").pc = "returned"
    BY <1>1, GoesTo
  <2>3. Leads(r, t, At(t, "returned"))
    BY <1>1, <2>1, <2>2, AtLeads DEF NextPoint, InLoop, InHarness, InCall
  <2>4. QED BY <1>13, <2>1, <2>2, <2>3, RecordsStep DEF Ends
<1>14. QED
  BY <1>2, <1>3, <1>5, <1>6, <1>7, <1>8, <1>9, <1>10, <1>11, <1>12, <1>13
  DEF Looping

\* Results and replies lead on from the points of a call.
LEMMA ReplyLeads ==
  ASSUME NEW r, NEW t, Shape(t), NEW code \in ResultCodes,
         t.pc \in {"tool_execution_started", "discover_tools",
                   "begin_attempt", "end_attempt", "retry_wait"}
  PROVE  Leads(r, t, Reply(t, code)) /\ Reply(t, code).pc = "tool_reply"
<1>1. t.calls # 0
  BY DEF Shape, InCall
<1>2. /\ Shape(Reply(t, code)) /\ Reply(t, code).pc = "tool_reply"
      /\ Reply(t, code).steps = t.steps /\ Reply(t, code).calls = t.calls
      /\ Reply(t, code).left = t.left
  BY <1>1, ReplyFields
<1>3. QED
  BY <1>2 DEF Leads, NextPoint, NextAttempt, NextOwed, Counted, Taken, InLoop,
              InHarness, Recording, Waiting, InCall

\* The result of a tool leads to the end of its attempt.
LEMMA ResultLeads ==
  ASSUME NEW r, NEW t, Shape(t), NEW code \in ResultCodes,
         NEW unknown \in BOOLEAN, NEW retryable \in BOOLEAN,
         code = "none" => ~unknown /\ ~retryable,
         t.pc \in {"call_tool", "tool"}
  PROVE  LET u == Result(t, code, unknown, retryable) IN
         Leads(r, t, u) /\ u.pc = "end_attempt"
<1> DEFINE u == Result(t, code, unknown, retryable)
<1>1. t.pc \in InCall
  BY DEF InCall
<1>2. /\ Shape(u) /\ u.pc = "end_attempt"
      /\ u.steps = t.steps /\ u.calls = t.calls /\ u.left = t.left
      /\ u.number = t.number /\ u.row = t.row /\ u.call = t.call
  BY <1>1, ResultFields
<1> HIDE DEF u
<1>3. Leads(r, t, u)
  BY <1>2 DEF Leads, NextPoint, NextAttempt, NextOwed, Counted, Taken, InLoop,
              InHarness, Recording, Waiting, InCall
<1>4. QED BY <1>2, <1>3 DEF u

\* From one point of a tool call to the next.
LEMMA InCallLeads ==
  ASSUME NEW r, NEW t, Shape(t), NEW pc \in InCall,
         <<t.pc, pc>> \in {<<"tool_execution_started", "discover_tools">>,
           <<"discover_tools", "begin_attempt">>, <<"call_tool", "tool">>,
           <<"retry_started", "begin_attempt">>}
  PROVE  Leads(r, t, At(t, pc)) /\ At(t, pc).pc = pc
<1> DEFINE u == At(t, pc)
<1>1. t.pc \in InCall /\ t \in Tasks /\ pc \in Points
  BY PointNames DEF InCall, Shape
<1>2. Shape(u)
  BY <1>1, AtCallShape
<1>3. /\ u.pc = pc /\ u.number = t.number /\ u.call = t.call /\ u.row = t.row
      /\ u.steps = t.steps /\ u.calls = t.calls /\ u.left = t.left
  BY <1>1, AtFields
<1> HIDE DEF u
<1>4. Leads(r, t, u)
  BY <1>2, <1>3 DEF Leads, NextPoint, NextAttempt, NextOwed, Counted, Taken,
                    InLoop, InHarness, Recording, Waiting, InCall
<1>5. QED BY <1>3, <1>4 DEF u

\* A check of the budget leads on, or to a reply.
LEMMA BudgetedLeads ==
  ASSUME NEW r, NEW t, Shape(t), NEW t1, NEW u \in Budgeted(r, t, t1),
         Leads(r, t, t1), t1.pc # "tool",
         t.pc \in {"tool_execution_started", "discover_tools", "retry_wait"}
  PROVE  Leads(r, t, u) /\ u.pc # "tool"
<1>1. \A code \in ResultCodes :
        Leads(r, t, Reply(t, code)) /\ Reply(t, code).pc = "tool_reply"
  BY ReplyLeads
<1>2. u = t1 \/ \E code \in ResultCodes : u = Reply(t, code)
  BY DEF Budgeted, IfDisturbed, ResultCodes
<1>3. QED BY <1>1, <1>2

\* What MCPToolExecutor does is a step of the task.
LEMMA ExecutingStep ==
  ASSUME TypeOK, Control, NEW r \in Runs, Executing(r)
  PROVE  TaskStep(r)
<1> DEFINE t == task[r]
<1>1. Shape(t) /\ t \in Tasks
  BY DEF Control, Shape
<1>2. ASSUME ToolExecutionStarted(r) PROVE TaskStep(r)
  <2> DEFINE u == At(t, "discover_tools")
             nexts == Budgeted(r, t, u)
  <2>1. t.pc = "tool_execution_started"
    BY <1>2 DEF ToolExecutionStarted, Records, TaskTurn
  <2>2. Leads(r, t, u) /\ u.pc = "discover_tools"
    BY <1>1, <2>1, InCallLeads DEF InCall
  <2> HIDE DEF u
  <2>3. \A v \in nexts : Leads(r, t, v) /\ v.pc # "tool"
    BY <1>1, <2>1, <2>2, BudgetedLeads
  <2>4. KindOf(t) = "tool_execution_started" /\ RoleOf(t) = "none"
        /\ t.pc \in Reports
    BY <2>1 DEF KindOf, RoleOf, Reports, Recording
  <2>5. Records(r, "tool_execution_started", "tool_execution_started", "none",
                nexts)
    BY <1>2 DEF ToolExecutionStarted, u
  <2> HIDE DEF nexts
  <2>6. QED BY <2>1, <2>3, <2>4, <2>5, RecordsStep
<1>3. ASSUME t.pc = "begin_attempt"
      PROVE  t.pc \in StoreCalls /\ t.pc \notin Reports /\ t.pc \in InCall
  BY <1>3 DEF StoreCalls, Reports, Recording, Forced, InCall
<1>4. ASSUME AttemptRefused(r) PROVE TaskStep(r)
  <2> DEFINE nexts == {Reply(t, IF status[r] # "running" THEN "cancelled"
                                ELSE "other")}
  <2>1. /\ t.pc = "begin_attempt" /\ Turn(RunProc(r))
        /\ UNCHANGED <<dbVars, snapshot>>
        /\ UNCHANGED <<serviceVars, tokens, dispatched>>
        /\ Answered(r, nexts)
    BY <1>4 DEF AttemptRefused, TaskTurn
  <2>2. \A code \in ResultCodes :
          Leads(r, t, Reply(t, code)) /\ Reply(t, code).pc = "tool_reply"
    BY <1>1, <2>1, ReplyLeads
  <2>3. \A u \in nexts : Leads(r, t, u) /\ u.pc = "tool_reply"
    BY <2>2 DEF ResultCodes
  <2>4. ~broken => Commits(r)
    BY <2>1 DEF Commits
  <2> HIDE DEF nexts
  <2>5. UNCHANGED attempts
    BY <2>1 DEF dbVars
  <2>6. \A u \in nexts : /\ Leads(r, t, u) /\ u.pc # "tool"
                         /\ RefusedOrBegun(r, u)
    BY <2>3, <2>5 DEF RefusedOrBegun
  <2>7. QED BY <1>3, <2>1, <2>4, <2>6, AnsweredStep
<1>5. ASSUME AttemptBegun(r) PROVE TaskStep(r)
  <2> DEFINE b == [t EXCEPT !.row = Len(attempts) + 1]
             nexts ==
        IF r \in tokens THEN {Result(b, "cancelled", FALSE, FALSE)}
        ELSE {At(b, "call_tool")} \cup
            IfDisturbed("deadline", {Result(b, "not_executed", FALSE, FALSE)})
  <2>1. /\ t.pc = "begin_attempt" /\ Turn(RunProc(r))
        /\ BeginAttempt(r, b.calls, b.number, b.call.key, b.call.retry_safe)
        /\ UNCHANGED <<serviceVars, tokens, dispatched>>
        /\ Answered(r, nexts)
    BY <1>5 DEF AttemptBegun, TaskTurn
  <2>2. /\ b \in Tasks /\ b.pc = t.pc /\ b.row = Len(attempts) + 1
        /\ b.number = t.number /\ b.call = t.call
        /\ b.steps = t.steps /\ b.calls = t.calls /\ b.left = t.left
    BY <1>1, NextRow DEF Tasks
  <2>3. Begun(r)
    BY <2>1, <2>2 DEF Begun
  <2> HIDE DEF b
  <2>4. Shape(b)
    BY <1>1, <2>1, <2>2 DEF Shape, InCall
  <2>5. ASSUME NEW u, Shape(u), u.pc \in {"call_tool", "end_attempt"},
               u.steps = b.steps, u.calls = b.calls, u.number = b.number,
               u.row = b.row, u.call = b.call, u.left = b.left
        PROVE  Leads(r, t, u)
    BY <2>1, <2>2, <2>5
    DEF Leads, NextPoint, NextAttempt, NextOwed, Counted, Taken, InLoop,
        InHarness, Recording, Waiting, InCall
  <2>6. Leads(r, t, At(b, "call_tool")) /\ At(b, "call_tool").pc = "call_tool"
    <3>1. Shape(At(b, "call_tool"))
      BY <2>1, <2>2, <2>4, AtCallShape DEF InCall
    <3>2. /\ At(b, "call_tool").pc = "call_tool"
          /\ At(b, "call_tool").steps = b.steps
          /\ At(b, "call_tool").calls = b.calls
          /\ At(b, "call_tool").number = b.number
          /\ At(b, "call_tool").row = b.row
          /\ At(b, "call_tool").call = b.call
          /\ At(b, "call_tool").left = b.left
      BY <2>2, AtFields, PointNames
    <3>3. QED BY <2>5, <3>1, <3>2
  <2>7. \A code \in ResultCodes \ {"none"} :
          LET u == Result(b, code, FALSE, FALSE) IN
          Leads(r, t, u) /\ u.pc = "end_attempt"
    <3>1. b.pc \in InCall
      BY <1>3, <2>1, <2>2
    <3>2. QED BY <2>4, <2>5, <3>1, ResultFields
  <2>8. \A u \in nexts :
          Leads(r, t, u) /\ u.pc \in {"call_tool", "end_attempt"}
    <3>1. \A u \in nexts : \/ u = At(b, "call_tool")
                           \/ u = Result(b, "cancelled", FALSE, FALSE)
                           \/ u = Result(b, "not_executed", FALSE, FALSE)
      BY DEF IfDisturbed
    <3>2. {"cancelled", "not_executed"} \subseteq ResultCodes \ {"none"}
      BY DEF ResultCodes
    <3> HIDE DEF nexts
    <3>3. QED BY <2>6, <2>7, <3>1, <3>2
  <2>9. ~broken => Commits(r)
    BY <2>1, <2>3 DEF Commits
  <2> HIDE DEF nexts
  <2>10. \A u \in nexts : /\ Leads(r, t, u) /\ u.pc # "tool"
                          /\ RefusedOrBegun(r, u)
    BY <2>3, <2>8 DEF RefusedOrBegun
  <2>11. QED BY <1>3, <2>1, <2>9, <2>10, AnsweredStep
<1>6. ASSUME Dispatch(r) PROVE TaskStep(r)
  <2>1. t.pc = "call_tool" /\ Wakes(r, "call_tool", {At(t, "tool")})
        /\ dispatched' = dispatched \cup {t.row}
    BY <1>6 DEF Dispatch, Wakes
  <2>2. Leads(r, t, At(t, "tool")) /\ At(t, "tool").pc = "tool"
    BY <1>1, <2>1, InCallLeads DEF InCall
  <2>3. QED BY <2>1, <2>2, WakesStep DEF Waiting
<1>7. ASSUME NotDispatched(r) PROVE TaskStep(r)
  <2> DEFINE nexts ==
       (IF r \in tokens
        THEN {Result(t, "cancelled", FALSE, FALSE)} ELSE {}) \cup
       IfDisturbed("failure",
         {Result(t, code, FALSE, TRUE) : code \in {"not_executed", "other"}})
  <2>1. t.pc = "call_tool"
    BY <1>7 DEF NotDispatched, Wakes
  <2>2. ASSUME NEW code \in ResultCodes \ {"none"}, NEW retryable \in BOOLEAN
        PROVE  LET u == Result(t, code, FALSE, retryable) IN
               Leads(r, t, u) /\ u.pc = "end_attempt"
    BY <1>1, <2>1, ResultLeads
  <2>3. \A u \in nexts : Leads(r, t, u) /\ u.pc # "tool"
    BY <2>2 DEF IfDisturbed, ResultCodes
  <2>4. Wakes(r, "call_tool", nexts) /\ UNCHANGED dispatched
    BY <1>7 DEF NotDispatched
  <2> HIDE DEF nexts
  <2>5. QED BY <2>3, <2>4, WakesStep DEF Waiting
<1>8. ASSUME ToolAnswers(r) PROVE TaskStep(r)
  <2> DEFINE nexts ==
        {Result(t, "none", FALSE, FALSE)} \cup
        IfDisturbed("failure", {Result(t, "other", FALSE, FALSE)})
  <2>1. t.pc = "tool"
    BY <1>8 DEF ToolAnswers, Wakes
  <2>2. ASSUME NEW code \in ResultCodes
        PROVE  LET u == Result(t, code, FALSE, FALSE) IN
               Leads(r, t, u) /\ u.pc = "end_attempt"
    BY <1>1, <2>1, ResultLeads
  <2>3. \A u \in nexts : Leads(r, t, u) /\ u.pc # "tool"
    BY <2>2 DEF IfDisturbed, ResultCodes
  <2>4. Wakes(r, "tool", nexts) /\ UNCHANGED dispatched
    BY <1>8 DEF ToolAnswers
  <2> HIDE DEF nexts
  <2>5. QED BY <2>3, <2>4, WakesStep DEF Waiting
<1>9. ASSUME ToolUnknown(r) PROVE TaskStep(r)
  <2> DEFINE nexts ==
       (IF r \in tokens
        THEN {Result(t, "cancelled", TRUE, FALSE)} ELSE {}) \cup
       IfDisturbed("failure",
         {Result(t, "other", TRUE, again) : again \in BOOLEAN})
  <2>1. t.pc = "tool"
    BY <1>9 DEF ToolUnknown, Wakes
  <2>2. ASSUME NEW code \in ResultCodes \ {"none"}, NEW retryable \in BOOLEAN
        PROVE  LET u == Result(t, code, TRUE, retryable) IN
               Leads(r, t, u) /\ u.pc = "end_attempt"
    BY <1>1, <2>1, ResultLeads
  <2>3. \A u \in nexts : Leads(r, t, u) /\ u.pc # "tool"
    BY <2>2 DEF IfDisturbed, ResultCodes
  <2>4. Wakes(r, "tool", nexts) /\ UNCHANGED dispatched
    BY <1>9 DEF ToolUnknown
  <2> HIDE DEF nexts
  <2>5. QED BY <2>3, <2>4, WakesStep DEF Waiting
<1>10. ASSUME AttemptEnded(r) PROVE TaskStep(r)
  <2> DEFINE again == At(t, "retry_failed")
             nexts == IF MayRetry(r, t)
                 THEN {again} \cup IfDisturbed("deadline", {Reply(t, t.code)})
                 ELSE {Reply(t, t.code)}
  <2>1. /\ t.pc = "end_attempt" /\ Turn(RunProc(r))
        /\ EndAttempt(t.row, t.code, t.unknown)
        /\ UNCHANGED <<serviceVars, tokens, dispatched>>
        /\ Answered(r, nexts)
    BY <1>10 DEF AttemptEnded, TaskTurn
  <2>2. t.code \in ResultCodes
    BY <1>1 DEF Tasks
  <2>3. Leads(r, t, Reply(t, t.code)) /\ Reply(t, t.code).pc = "tool_reply"
    BY <1>1, <2>1, <2>2, ReplyLeads
  <2>4. MayRetry(r, t) => Leads(r, t, again) /\ again.pc = "retry_failed"
    <3>1. /\ again \in Tasks /\ again.pc = "retry_failed"
          /\ again.number = t.number /\ again.row = t.row
          /\ again.steps = t.steps /\ again.calls = t.calls
          /\ again.left = t.left
      BY <1>1, AtFields, PointNames
    <3> HIDE DEF again
    <3>2. t.calls # 0 /\ t.number # 0 /\ (t.code = "none" => ~t.retryable)
      BY <1>1, <2>1 DEF Shape, InCall
    <3>3. MayRetry(r, t) => Shape(again)
      BY <3>1, <3>2 DEF MayRetry, Shape, InCall
    <3>4. QED
      BY <2>1, <3>1, <3>2, <3>3
      DEF MayRetry, Leads, NextPoint, NextAttempt, NextOwed, Counted, Taken,
          InLoop, InHarness, Recording, Waiting, InCall
  <2>5. \A u \in nexts : Leads(r, t, u) /\ u.pc # "tool"
    BY <2>3, <2>4 DEF IfDisturbed
  <2>6. ~broken => Commits(r)
    BY <2>1 DEF Commits
  <2>7. t.pc \in StoreCalls /\ t.pc # "begin_attempt"
    BY <2>1 DEF StoreCalls, Recording
  <2> HIDE DEF nexts
  <2>8. QED BY <2>1, <2>5, <2>6, <2>7, AnsweredStep
<1>11. ASSUME RetryFailed(r) PROVE TaskStep(r)
  <2> DEFINE u == At(t, "retry_wait")
  <2>1. t.pc = "retry_failed"
    BY <1>11 DEF RetryFailed, Records, TaskTurn
  <2>2. /\ u \in Tasks /\ u.pc = "retry_wait"
        /\ u.number = t.number /\ u.row = t.row
        /\ u.steps = t.steps /\ u.calls = t.calls /\ u.left = t.left
    BY <1>1, AtFields, PointNames
  <2> HIDE DEF u
  <2>3. Shape(u)
    BY <1>1, <2>1, <2>2 DEF Shape, InCall
  <2>4. Leads(r, t, u)
    BY <2>1, <2>2, <2>3
    DEF Leads, NextPoint, NextAttempt, NextOwed, Counted, Taken, InLoop,
        InHarness, Recording, Waiting, InCall
  <2>5. KindOf(t) = "tool_execution_failed" /\ RoleOf(t) = "none"
        /\ t.pc \in Reports
    BY <2>1 DEF KindOf, RoleOf, Reports, Recording
  <2>6. QED BY <1>11, <2>1, <2>2, <2>4, <2>5, RecordsStep DEF RetryFailed, u
<1>12. ASSUME RetryWaited(r) PROVE TaskStep(r)
  <2> DEFINE again == [t EXCEPT !.pc = "retry_started", !.number = @ + 1]
             nexts == Budgeted(r, t, again)
  <2>1. t.pc = "retry_wait"
    BY <1>12 DEF RetryWaited, Wakes
  <2>2. /\ Shape(again) /\ again.pc = "retry_started"
        /\ again.number = t.number + 1 /\ again.row = t.row
        /\ again.steps = t.steps /\ again.calls = t.calls
        /\ again.left = t.left
    BY <1>1, <2>1, RetryShape
  <2> HIDE DEF again
  <2>3. Leads(r, t, again)
    BY <2>1, <2>2
    DEF Leads, NextPoint, NextAttempt, NextOwed, Counted, Taken, InLoop,
        InHarness, Recording, Waiting, InCall
  <2>4. \A u \in nexts : Leads(r, t, u) /\ u.pc # "tool"
    BY <1>1, <2>1, <2>2, <2>3, BudgetedLeads
  <2>5. Wakes(r, "retry_wait", nexts) /\ UNCHANGED dispatched
    BY <1>12 DEF RetryWaited, again
  <2> HIDE DEF nexts
  <2>6. QED BY <2>4, <2>5, WakesStep DEF Waiting
<1>13. ASSUME RetryStarted(r) PROVE TaskStep(r)
  <2>1. t.pc = "retry_started"
    BY <1>13 DEF RetryStarted, Records, TaskTurn
  <2>2. Leads(r, t, At(t, "begin_attempt"))
        /\ At(t, "begin_attempt").pc = "begin_attempt"
    BY <1>1, <2>1, InCallLeads DEF InCall
  <2>3. KindOf(t) = "tool_execution_started" /\ RoleOf(t) = "none"
        /\ t.pc \in Reports
    BY <2>1 DEF KindOf, RoleOf, Reports, Recording
  <2>4. QED BY <1>13, <2>1, <2>2, <2>3, RecordsStep DEF RetryStarted
<1>14. ASSUME ToolsDiscovered(r) PROVE TaskStep(r)
  <2> DEFINE u == At(t, "begin_attempt")
             nexts == Budgeted(r, t, u)
  <2>1. t.pc = "discover_tools"
    BY <1>14 DEF ToolsDiscovered, Wakes
  <2>2. Leads(r, t, u) /\ u.pc = "begin_attempt"
    BY <1>1, <2>1, InCallLeads DEF InCall
  <2> HIDE DEF u
  <2>3. \A v \in nexts : Leads(r, t, v) /\ v.pc # "tool"
    BY <1>1, <2>1, <2>2, BudgetedLeads
  <2>4. Wakes(r, "discover_tools", nexts) /\ UNCHANGED dispatched
    BY <1>14 DEF ToolsDiscovered, u
  <2> HIDE DEF nexts
  <2>5. QED BY <2>3, <2>4, WakesStep DEF Waiting
<1>15. QED
  BY <1>2, <1>4, <1>5, <1>6, <1>7, <1>8, <1>9, <1>10, <1>11, <1>12, <1>13, <1>14
  DEF Executing

\* A task that is cancelled or forced to end takes a step too.
LEMMA UnwindingStep ==
  ASSUME Control, NEW r \in Runs, Unwinding(r)
  PROVE  TaskStep(r)
<1> DEFINE t == task[r]
<1>1. Shape(t)
  BY DEF Control
<1>2. ASSUME StoreFails(r) PROVE TaskStep(r)
  <2>1. failures' \in 0 .. MaxFailures
    BY <1>2, FailureCounted DEF StoreFails, Control
  <2>2. Raises(r)
    BY <1>2, <2>1 DEF StoreFails, Raises
  <2>3. QED BY <2>2 DEF TaskStep
<1>3. ASSUME Unwinds(r) PROVE TaskStep(r)
  <2>1. Interrupts(r)
    BY <1>3 DEF Unwinds, Interrupts
  <2>2. QED BY <2>1 DEF TaskStep
<1>4. ASSUME ForcedCancel(r) PROVE TaskStep(r)
  <2>1. /\ t.pc = "forced_cancel" /\ Turn(RunProc(r)) /\ CancelRun(r)
        /\ Answered(r, {At(t, "forced_record")})
        /\ UNCHANGED <<serviceVars, tokens, dispatched>>
    BY <1>4 DEF ForcedCancel, TaskTurn
  <2>2. At(t, "forced_record").pc = "forced_record"
    BY <1>1, GoesTo
  <2>3. Leads(r, t, At(t, "forced_record"))
    BY <1>1, <2>1, <2>2, AtLeads
    DEF NextPoint, InLoop, InHarness, Recording, Waiting, InCall
  <2>4. ~broken => Commits(r)
    BY <2>1 DEF Commits
  <2>5. t.pc \in StoreCalls
    BY <2>1 DEF StoreCalls, Forced
  <2>6. QED BY <2>1, <2>2, <2>3, <2>4, <2>5, AnsweredStep
<1>5. ASSUME ForcedRecord(r) PROVE TaskStep(r)
  <2>1. t.pc = "forced_record"
    BY <1>5 DEF ForcedRecord, Records, TaskTurn
  <2>2. At(t, "cancelled").pc = "cancelled"
    BY <1>1, GoesTo
  <2>3. Leads(r, t, At(t, "cancelled"))
    BY <1>1, <2>1, <2>2, AtLeads
    DEF NextPoint, InLoop, InHarness, Recording, Waiting, InCall
  <2>4. KindOf(t) = "run_cancelled" /\ RoleOf(t) = "none" /\ t.pc \in Reports
    BY <2>1 DEF KindOf, RoleOf, Reports
  <2>5. QED BY <1>5, <2>1, <2>2, <2>3, <2>4, RecordsStep DEF ForcedRecord
<1>6. ASSUME Observe(r) PROVE TaskStep(r)
  BY <1>6 DEF TaskStep
<1>7. QED BY <1>2, <1>3, <1>4, <1>5, <1>6 DEF Unwinding

\* Every action of a task advances it, fails, interrupts or reaps it.
LEMMA RunTaskStep ==
  ASSUME TypeOK, Control, NEW r \in Runs, RunTask(r)
  PROVE  TaskStep(r)
BY PreparingStep, LoopingStep, ExecutingStep, UnwindingStep DEF RunTask

-----------------------------------------------------------------------------
(* The control state stays typed *)

\* A cancelled task that unwinds stays well formed.
LEMMA UnwoundShape ==
  ASSUME NEW t, Shape(t)
  PROVE  Shape(Unwound(t))
<1>1. Shape(At(t, "cancelled")) /\ Shape(At(t, "forced_cancel"))
  BY GoesTo
<1>2. QED BY <1>1, NewTaskShape DEF Unwound

\* The task that unwinds knows its usage only if the loop had returned.
LEMMA UnwoundFields ==
  ASSUME NEW t, Shape(t)
  PROVE  /\ Unwound(t).pc \in {"cancelled", "forced_cancel"}
         /\ t.pc \in Reading <=> Unwound(t).pc = "cancelled"
         /\ Unwound(t).pc \notin Reading \cup InHarness
         /\ Unwound(t).pc \in Forced =>
              Taken(Unwound(t)) =
                IF t.pc = "ending" THEN Taken(t) ELSE [steps |-> 0, calls |-> 0]
<1> DEFINE lost == [NewTask EXCEPT !.pc = "forced_cancel"]
<1>1. t \in Tasks /\ {"cancelled", "forced_cancel"} \subseteq Points
  BY PointNames DEF Shape
<1>2. /\ At(t, "cancelled").pc = "cancelled"
      /\ At(t, "forced_cancel").pc = "forced_cancel"
      /\ At(t, "forced_cancel").steps = t.steps
      /\ At(t, "forced_cancel").calls = t.calls
  BY <1>1, AtFields
<1>3. lost.pc = "forced_cancel" /\ lost.steps = 0 /\ lost.calls = 0
  BY <1>1, NewTaskFields
<1> HIDE DEF lost
<1>4. \/ t.pc \in Reading /\ Unwound(t) = At(t, "cancelled")
      \/ /\ t.pc \notin Reading /\ t.pc = "ending"
         /\ Unwound(t) = At(t, "forced_cancel")
      \/ t.pc \notin Reading /\ t.pc # "ending" /\ Unwound(t) = lost
  BY DEF Unwound, lost
<1>5. /\ "cancelled" \notin Reading \cup InHarness \cup Forced
      /\ "forced_cancel" \notin Reading \cup InHarness
  BY DEF Reading, InHarness, Recording, Waiting, Forced
<1>6. QED BY <1>2, <1>3, <1>4, <1>5 DEF Taken

\* A step of one task, and what may happen around it.
LEMMA TaskTyped ==
  ASSUME Control, NEW r \in Runs, NEW u, Shape(u),
         task' = [task EXCEPT ![r] = u],
         broken' \in BOOLEAN, interrupted' = interrupted \ {r},
         failures' \in 0 .. MaxFailures, UNCHANGED <<serviceVars, tokens>>
  PROVE  Control'
<1>1. u \in Tasks
  BY DEF Shape
<1>2. task' \in [Runs -> Tasks] /\ \A q \in Runs : Shape(task'[q])
  BY <1>1 DEF Control
<1>3. \A q \in Runs \ {r} : task'[q] = task[q]
  BY DEF Control
<1>4. interrupted' \subseteq LiveTasks'
  BY <1>3 DEF Control, LiveTasks
<1>5. QED BY <1>2, <1>4 DEF Control, serviceVars

\* A step of a task keeps what its control relies on.
LEMMA TaskControl ==
  ASSUME Control, NEW r \in Runs, TaskStep(r)
  PROVE  Control'
<1> DEFINE t == task[r]
<1>1. Shape(t)
  BY DEF Control
<1>2. ASSUME NEW u, Advances(r, u) PROVE Control'
  <2>1. Shape(u) /\ task' = [task EXCEPT ![r] = u]
    BY <1>2 DEF Advances, Leads, Becomes
  <2>2. interrupted' = interrupted \ {r}
    BY <1>2 DEF Advances
  <2>3. broken' \in BOOLEAN /\ failures' \in 0 .. MaxFailures
    BY <1>2 DEF Advances, Control
  <2>4. QED BY <1>2, <2>1, <2>2, <2>3, TaskTyped DEF Advances
<1>3. ASSUME Raises(r) PROVE Control'
  <2>1. Shape(At(t, "raised")) /\ task' = [task EXCEPT ![r] = At(t, "raised")]
    BY <1>1, <1>3, GoesTo DEF Raises, Becomes
  <2>2. interrupted' = interrupted \ {r}
    BY <1>3 DEF Raises
  <2>3. QED BY <1>3, <2>1, <2>2, TaskTyped DEF Raises
<1>4. ASSUME Interrupts(r) PROVE Control'
  <2>1. Shape(Unwound(t)) /\ task' = [task EXCEPT ![r] = Unwound(t)]
    BY <1>1, <1>4, UnwoundShape DEF Interrupts, Becomes
  <2>2. broken' \in BOOLEAN /\ failures' \in 0 .. MaxFailures
    BY <1>4 DEF Interrupts, Control
  <2>3. QED BY <1>4, <2>1, <2>2, TaskTyped DEF Interrupts
<1>5. ASSUME Observe(r) PROVE Control'
  <2>1. Shape(At(NoTask, "done")) /\ At(NoTask, "done") \in Tasks
    BY DoneShape DEF Shape
  <2>2. task' = [task EXCEPT ![r] = At(NoTask, "done")] /\ t.pc \in Over
    BY <1>5 DEF Observe
  <2>3. task' \in [Runs -> Tasks] /\ \A q \in Runs : Shape(task'[q])
    BY <2>1, <2>2 DEF Control
  <2>4. /\ accepting' \in BOOLEAN /\ fault' \in {"none", "storage", "lifecycle"}
        /\ tokens' \subseteq Runs
    BY <1>5 DEF Observe, Control, Tokens
  <2>5. r \notin interrupted
    BY <2>2 DEF Control, LiveTasks, Over, Live, Reading, Recording, Waiting,
                Forced
  <2>6. interrupted' \subseteq LiveTasks'
    BY <1>5, <2>2, <2>5 DEF Observe, Control, LiveTasks
  <2>7. QED BY <1>5, <2>3, <2>4, <2>6 DEF Observe, Control, storeVars
<1>6. QED BY <1>2, <1>3, <1>4, <1>5 DEF TaskStep

\* So does the beginning of a submission.
LEMMA SubmitControl ==
  ASSUME Control, NEW s \in Sessions, Submit(s)
  PROVE  Control'
BY DEF Submit, Control, storeVars, taskVars, LiveTasks

\* So does what a submission does next.
LEMMA SubmissionControl ==
  ASSUME Control, Submission
  PROVE  Control'
<1>1. NoSub \in [pc : {"idle", "get_session", "get_task_state", "create_run"},
                 session : Sessions \cup {NoSession}]
      /\ NoSub.pc = "idle"
  BY DEF NoSub
<1>2. ASSUME NEW pc \in {"idle", "get_task_state", "create_run"}, SubmitTo(pc),
             sub.pc # "idle", UNCHANGED taskVars
      PROVE  Control'
  <2>1. /\ sub' \in [pc : {"idle", "get_session", "get_task_state", "create_run"},
                     session : Sessions \cup {NoSession}]
        /\ sub'.pc # "idle" => sub'.session \in Sessions
    BY <1>1, <1>2 DEF SubmitTo, Control
  <2>2. failures' \in 0 .. MaxFailures /\ broken' \in BOOLEAN
    BY <1>2, FailureCounted DEF SubmitTo, Control
  <2>3. QED BY <1>2, <2>1, <2>2 DEF SubmitTo, Control, taskVars, LiveTasks
<1>3. ASSUME SubmitGetSession PROVE Control'
  BY <1>2, <1>3 DEF SubmitGetSession, SubmitTurn
<1>4. ASSUME SubmitGetTaskState PROVE Control'
  BY <1>2, <1>4 DEF SubmitGetTaskState, SubmitTurn
<1>5. ASSUME SubmitConflict PROVE Control'
  BY <1>2, <1>5 DEF SubmitConflict, SubmitTurn
<1>6. ASSUME NEW r \in Runs, SubmitCreate(r) PROVE Control'
  <2>1. Shape(NewTask) /\ NewTask \in Tasks /\ NewTask.pc \in Live
    BY DoneShape DEF Shape, NewTask, Live, Reading
  <2>2. task' = task \/ task' = [task EXCEPT ![r] = NewTask]
    BY <1>6 DEF SubmitCreate
  <2>3. task' \in [Runs -> Tasks] /\ \A q \in Runs : Shape(task'[q])
    BY <2>1, <2>2 DEF Control
  <2>4. interrupted' \subseteq LiveTasks'
    BY <1>6, <2>1, <2>2 DEF SubmitCreate, Control, LiveTasks
  <2>5. failures' \in 0 .. MaxFailures /\ broken' \in BOOLEAN
    BY <1>6, FailureCounted DEF SubmitCreate, Control
  <2>6. QED BY <1>1, <1>6, <2>3, <2>4, <2>5 DEF SubmitCreate, Control
<1>7. ASSUME SubmitFails PROVE Control'
  <2>1. failures' \in 0 .. MaxFailures /\ broken' \in BOOLEAN
    BY <1>7, FailureCounted DEF SubmitFails, Control
  <2>2. QED BY <1>1, <1>7, <2>1 DEF SubmitFails, Control, taskVars, LiveTasks
<1>8. QED BY <1>3, <1>4, <1>5, <1>6, <1>7 DEF Submission

\* So does a request to cancel a run, and the answer to it.
LEMMA CancelControl ==
  ASSUME Control, NEW r \in Runs, RequestCancel(r) \/ CancelAnswered(r)
  PROVE  Control'
<1>1. ASSUME RequestCancel(r) PROVE Control'
  BY <1>1 DEF RequestCancel, Control, storeVars, taskVars, LiveTasks
<1>2. ASSUME CancelAnswered(r) PROVE Control'
  <2>1. failures' \in 0 .. MaxFailures /\ broken' \in BOOLEAN
    BY <1>2, FailureCounted
    DEF CancelAnswered, CancelCommits, CancelFails, Control
  <2>2. tokens' \subseteq Runs
    BY <1>2 DEF CancelAnswered, Signals, Control
  <2>3. QED BY <1>2, <2>1, <2>2 DEF CancelAnswered, Control, LiveTasks
<1>3. QED BY <1>1, <1>2

\* The shutdown goes from one run to the next, or on to its next phase.
LEMMA StopTyped ==
  ASSUME Control, NEW left \in SUBSET Runs, NEW others, StopGoesOn(left, others)
  PROVE  /\ stop' \in [pc : {"off", "cancel", "drain", "forced", "closed"},
                       run : Runs \cup {NoRun}, left : SUBSET Runs]
         /\ stop'.pc = "cancel" => stop'.run \in Runs
         /\ tokens' \subseteq Runs
<1>1. CASE left = {} /\ stop' = [NoStop EXCEPT !.pc = "drain"]
           /\ UNCHANGED tokens
  BY <1>1 DEF NoStop, Control
<1>2. CASE \E r \in left : /\ Signals(r)
             /\ stop' = [pc |-> "cancel", run |-> r, left |-> left \ {r}]
  BY <1>2 DEF Signals, Control
<1>3. QED BY <1>1, <1>2 DEF StopGoesOn

\* So does the shutdown.
LEMMA ShutdownControl ==
  ASSUME Control, ShutdownBegins \/ Shutdown
  PROVE  Control'
<1>1. ASSUME ShutdownBegins PROVE Control'
  <2>1. StopGoesOn(Tokens, queue) /\ Tokens \in SUBSET Runs
    BY <1>1 DEF ShutdownBegins, Tokens
  <2>2. QED
    BY <1>1, <2>1, StopTyped DEF ShutdownBegins, Control, storeVars, LiveTasks
<1>2. ASSUME ShutdownCancels PROVE Control'
  <2>1. StopGoesOn(stop.left, Without(StopProc(stop.run)))
        /\ stop.left \in SUBSET Runs
    BY <1>2 DEF ShutdownCancels, Control
  <2>2. /\ failures' \in 0 .. MaxFailures /\ broken' \in BOOLEAN
        /\ fault' \in {"none", "storage", "lifecycle"}
    BY <1>2, FailureCounted
    DEF ShutdownCancels, CancelCommits, CancelFails, Control
  <2>3. QED
    BY <1>2, <2>1, <2>2, StopTyped DEF ShutdownCancels, Control, LiveTasks
<1>3. ASSUME ShutdownForces PROVE Control'
  BY <1>3 DEF ShutdownForces, Control, storeVars, taskVars, LiveTasks
<1>4. ASSUME ShutdownEnds PROVE Control'
  BY <1>4 DEF ShutdownEnds, Control, taskVars, LiveTasks
<1>5. QED BY <1>1, <1>2, <1>3, <1>4 DEF Shutdown

\* So do the end and the start of the process and a reconciliation.
LEMMA ProcessControl ==
  ASSUME Control,
         ProcessEnds \/ Start \/ \E a \in DOMAIN attempts : Reconcile(a)
  PROVE  Control'
<1>1. ASSUME ProcessEnds PROVE Control'
  <2>1. Shape(NoTask) /\ NoTask \in Tasks
    BY DoneShape DEF Shape
  <2>2. restarts + 1 \in 0 .. MaxRestarts
    BY <1>1, BoundsAssumption DEF ProcessEnds, Control
  <2>3. /\ task' = [r \in Runs |-> NoTask] /\ restarts' = restarts + 1
        /\ UNCHANGED failures
    BY <1>1 DEF ProcessEnds
  <2>4. task' \in [Runs -> Tasks] /\ \A q \in Runs : Shape(task'[q])
    BY <2>1, <2>3
  <2>5. QED
    BY <1>1, <2>2, <2>3, <2>4
    DEF ProcessEnds, Control, NoSub, NoStop
<1>2. ASSUME Start PROVE Control'
  BY <1>2 DEF Start, Control, taskVars, LiveTasks
<1>3. ASSUME NEW a \in DOMAIN attempts, Reconcile(a) PROVE Control'
  BY <1>3 DEF Reconcile, Control, taskVars, serviceVars, LiveTasks
<1>4. QED BY <1>1, <1>2, <1>3

\* So does a step that changes nothing.
LEMMA StutterControl ==
  ASSUME Control, UNCHANGED vars
  PROVE  Control'
BY DEF vars, storeVars, serviceVars, taskVars, Control, LiveTasks

\* Every step keeps the control state typed and every task in shape.
LEMMA StepControl == TypeOK /\ Control /\ [Next]_vars => Control'
<1> SUFFICES ASSUME TypeOK, Control, [Next]_vars PROVE Control'
  OBVIOUS
<1>1. ASSUME NEW r \in Runs, RunTask(r) PROVE Control'
  BY <1>1, RunTaskStep, TaskControl
<1>2. QED
  BY <1>1, SubmitControl, SubmissionControl, CancelControl, ShutdownControl,
     ProcessControl, StutterControl
  DEF Next

\* No task has begun at first.
LEMMA InitControl == Init => Control
<1>1. Shape(NoTask) /\ NoTask \in Tasks
  BY DoneShape DEF Shape
<1>2. 0 \in 0 .. MaxFailures /\ 0 \in 0 .. MaxRestarts
  BY BoundsAssumption
<1>3. ASSUME Init
      PROVE  task \in [Runs -> Tasks] /\ \A r \in Runs : Shape(task[r])
  BY <1>1, <1>3 DEF Init
<1>4. ASSUME Init
      PROVE  /\ NoSub \in [pc : {"idle", "get_session", "get_task_state",
                                 "create_run"},
                           session : Sessions \cup {NoSession}]
             /\ NoStop \in [pc : {"off", "cancel", "drain", "forced", "closed"},
                            run : Runs \cup {NoRun}, left : SUBSET Runs]
             /\ NoSub.pc = "idle" /\ NoStop.pc = "off"
             /\ sub = NoSub /\ stop = NoStop
  BY <1>4 DEF Init, NoSub, NoStop
<1>5. QED
  BY <1>2, <1>3, <1>4 DEF Init, StoreInit, Control
=============================================================================
