------------------------- MODULE AgentRuntimeProofs -------------------------
(***************************************************************************)
(* Proofs about AgentRuntime: the invariant Base of the service and its    *)
(* tasks (every task agrees with the row of its run), that the store of    *)
(* the service is an ExecutionStore, what a run that completed owes its    *)
(* answer to, that the usage of a run is what its log says, and about the  *)
(* attempts of MCPToolExecutor: what is tried again, what is left to       *)
(* settle, what is never sent again.                                       *)
(***************************************************************************)
EXTENDS TaskFlowProofs, FiniteSetTheorems

-----------------------------------------------------------------------------
(* A process that is down *)

\* Nothing of the service is left when the process is gone.
Down ==
  ~up => /\ ~broken /\ queue = <<>> /\ tokens = {}
         /\ sub.pc = "idle" /\ stop.pc = "off"
         /\ \A r \in Runs : task[r].pc = "absent"

\* A task that takes a step is at one of its points.
LEMMA TaskStepPoint ==
  ASSUME Control, NEW r \in Runs, TaskStep(r)
  PROVE  task[r].pc \in Live \cup Over
<1>1. ASSUME Commits(r) PROVE task[r].pc \in Live
  BY <1>1 DEF Commits, Live, Reports, Forced, Recording
<1>2. ASSUME r \in interrupted PROVE task[r].pc \in Live
  BY <1>2 DEF Control, LiveTasks
<1>3. QED
  BY <1>1, <1>2
  DEF TaskStep, Observe, Raises, Interrupts, Advances, Live, StoreCalls

\* While the process is down it is only started, or its store mended.
LEMMA DownSteps ==
  ASSUME TypeOK, Control, Down, ~up, Next
  PROVE  Start \/ \E a \in DOMAIN attempts : Reconcile(a)
<1>1. ASSUME NEW r \in Runs, RunTask(r) PROVE FALSE
  <2>1. task[r].pc \in Live \cup Over
    BY <1>1, RunTaskStep, TaskStepPoint
  <2>2. QED
    BY <2>1 DEF Down, Live, Over, Reading, Recording, Waiting, Forced
<1>2. ASSUME NEW s \in Sessions, Submit(s) PROVE FALSE
  BY <1>2 DEF Submit
<1>3. ASSUME Submission PROVE FALSE
  BY <1>3
  DEF Submission, SubmitGetSession, SubmitGetTaskState, SubmitConflict,
      SubmitFails, SubmitCreate, SubmitTurn, Down
<1>4. ASSUME NEW r \in Runs, RequestCancel(r) \/ CancelAnswered(r) PROVE FALSE
  BY <1>4 DEF RequestCancel, CancelAnswered, Turn, Down
<1>5. ASSUME ShutdownBegins \/ Shutdown PROVE FALSE
  BY <1>5
  DEF ShutdownBegins, Shutdown, ShutdownCancels, ShutdownForces, ShutdownEnds,
      Down
<1>6. ASSUME ProcessEnds PROVE FALSE
  BY <1>6 DEF ProcessEnds
<1>7. QED BY <1>1, <1>2, <1>3, <1>4, <1>5, <1>6 DEF Next

\* Only the end of the process takes the service down.
LEMMA UpKept ==
  ASSUME TypeOK, Control, up, [Next]_vars
  PROVE  up' \/ ProcessEnds
<1>1. ASSUME NEW r \in Runs, RunTask(r) PROVE up'
  <2>1. TaskStep(r)
    BY <1>1, RunTaskStep
  <2>2. QED
    BY <2>1 DEF TaskStep, Observe, Raises, Interrupts, Advances, serviceVars
<1>2. ASSUME NEW s \in Sessions, Submit(s) PROVE up'
  BY <1>2 DEF Submit
<1>3. ASSUME Submission PROVE up'
  BY <1>3
  DEF Submission, SubmitGetSession, SubmitGetTaskState, SubmitConflict,
      SubmitFails, SubmitCreate, SubmitTo
<1>4. ASSUME NEW r \in Runs, RequestCancel(r) \/ CancelAnswered(r) PROVE up'
  BY <1>4 DEF RequestCancel, CancelAnswered
<1>5. ASSUME ShutdownBegins \/ Shutdown PROVE up'
  BY <1>5
  DEF ShutdownBegins, Shutdown, ShutdownCancels, ShutdownForces, ShutdownEnds
<1>6. ASSUME Start PROVE up'
  BY <1>6 DEF Start
<1>7. ASSUME NEW a \in DOMAIN attempts, Reconcile(a) PROVE up'
  BY <1>7 DEF Reconcile
<1>8. ASSUME UNCHANGED vars PROVE up'
  BY <1>8 DEF vars, serviceVars
<1>9. QED BY <1>1, <1>2, <1>3, <1>4, <1>5, <1>6, <1>7, <1>8 DEF Next

\* Every step keeps a process that is down empty.
LEMMA StepDown == TypeOK /\ Control /\ Down /\ [Next]_vars => Down'
<1> SUFFICES ASSUME TypeOK, Control, Down, [Next]_vars, ~up' PROVE Down'
  BY DEF Down
<1>1. CASE up
  <2>1. ProcessEnds
    BY <1>1, UpKept
  <2>2. \A r \in Runs : task'[r].pc = "absent"
    BY <2>1, DoneFields DEF ProcessEnds
  <2>3. QED BY <2>1, <2>2 DEF ProcessEnds, Down, NoSub, NoStop
<1>2. CASE ~up /\ UNCHANGED vars
  BY <1>2 DEF vars, storeVars, serviceVars, taskVars, Down
<1>3. ASSUME ~up, NEW a \in DOMAIN attempts, Reconcile(a) PROVE Down'
  BY <1>3 DEF Reconcile, taskVars, serviceVars, Down
<1>4. ASSUME Start PROVE FALSE
  BY <1>4 DEF Start
<1>5. QED BY <1>1, <1>2, <1>3, <1>4, DownSteps

-----------------------------------------------------------------------------
(* What a transaction of a task does to the rows of the runs *)

\* The kind of event a task reports follows from the point it is at.
LEMMA KindsReported ==
  ASSUME NEW t, Shape(t), t.pc \in Reports
  PROVE  /\ KindOf(t) \in ReportKinds
         /\ KindOf(t) \in TerminalKinds <=> t.pc \in {"ending", "forced_record"}
         /\ KindOf(t) = "model_request_started" <=>
              t.pc = "model_request_started"
         /\ KindOf(t) = "tool_call_requested" <=> t.pc = "tool_call_requested"
         /\ KindOf(t) = "run_started" <=> t.pc = "run_started"
         /\ KindOf(t) = "run_cancel_requested" <=> t.pc = "cancel_event"
<1>1. t.pc = "ending" => t.ending \in TerminalKinds
  BY DEF Shape, Tasks
<1>2. QED
  BY <1>1, ReportsAssumption
  DEF KindOf, Reports, Recording, ProgressKinds, TerminalKinds

\* record_event for a run: where the status goes, and what is counted.
LEMMA RecordedRow ==
  ASSUME TypeOK, NEW r \in Runs, NEW kind \in ReportKinds, NEW role, NEW calls,
         NEW own, RecordEvent(r, Logical(kind), role, calls, own)
  PROVE  /\ status[r] # "absent"
         /\ status' = [status EXCEPT ![r] = StatusAfter(r, kind)]
         /\ \A q \in Runs \ {r} : usage'[q] = usage[q]
         /\ status'[r] \in Active =>
              /\ status[r] \in Active /\ kind \notin TerminalKinds
              /\ usage'[r] =
                   [steps |-> usage[r].steps +
                      (IF kind = "model_request_started" THEN 1 ELSE 0),
                    calls |-> usage[r].calls +
                      (IF kind = "tool_call_requested" THEN 1 ELSE 0)]
<1> DEFINE next == StatusAfter(r, kind)
           e == Logical(kind)
<1>1. e.kind = kind /\ e.type # "provider_attempt"
  BY DEF Logical, Event
<1>2. /\ status[r] # "absent"
      /\ status' = [status EXCEPT ![r] = next]
  BY <1>1 DEF RecordEvent
<1>3. \A q \in Runs \ {r} : usage'[q] = usage[q]
  BY DEF RecordEvent, TypeOK
<1>4. ASSUME next \in Active
      PROVE  status[r] \in Active /\ kind \notin TerminalKinds
  BY <1>4 DEF StatusAfter, Active, TargetStatus, TerminalKinds
<1>5. ASSUME next \in Active
      PROVE  usage'[r] =
               [steps |-> usage[r].steps +
                  (IF kind = "model_request_started" THEN 1 ELSE 0),
                calls |-> usage[r].calls +
                  (IF kind = "tool_call_requested" THEN 1 ELSE 0)]
  <2>1. KindWritten(r, kind) = kind /\ next \notin Ended
    BY <1>4, <1>5 DEF KindWritten, Active, Ended
  <2>2. usage' = [usage EXCEPT ![r] =
       [steps |-> usage[r].steps +
          (IF kind = "model_request_started" THEN 1 ELSE 0),
        calls |-> usage[r].calls +
          (IF kind = "tool_call_requested" THEN 1 ELSE 0)]]
    BY <1>1, <2>1 DEF RecordEvent
  <2>3. QED BY <2>2 DEF TypeOK
<1>6. status'[r] = next
  BY <1>2 DEF TypeOK
<1>7. QED BY <1>2, <1>3, <1>4, <1>5, <1>6

\* Any transaction of a task, apart from the counters.
LEMMA CommittedRow ==
  ASSUME TypeOK, Control, NEW r \in Runs, Commits(r)
  PROVE  /\ \A q \in Runs \ {r} :
              status'[q] = status[q] /\ usage'[q] = usage[q]
         /\ status'[r] = "absent" <=> status[r] = "absent"
         /\ status'[r] \in Active => status[r] \in Active
<1> DEFINE t == task[r]
<1>1. Shape(t)
  BY DEF Control
<1>2. ASSUME t.pc \in Reports, Recorded(r)
      PROVE  /\ \A q \in Runs \ {r} :
                  status'[q] = status[q] /\ usage'[q] = usage[q]
             /\ status'[r] = "absent" <=> status[r] = "absent"
             /\ status'[r] \in Active => status[r] \in Active
  <2>1. KindOf(t) \in ReportKinds
    BY <1>1, <1>2, KindsReported
  <2>2. /\ status[r] # "absent"
        /\ status' = [status EXCEPT ![r] = StatusAfter(r, KindOf(t))]
        /\ \A q \in Runs \ {r} : usage'[q] = usage[q]
        /\ status'[r] \in Active => status[r] \in Active
    BY <1>2, <2>1, RecordedRow DEF Recorded
  <2>3. StatusAfter(r, KindOf(t)) # "absent"
    BY <2>2 DEF StatusAfter, TargetStatus
  <2>4. QED BY <2>2, <2>3 DEF TypeOK
<1>3. CASE UNCHANGED <<dbVars, snapshot>>
  BY <1>3 DEF dbVars
<1>4. ASSUME Begun(r) \/ EndAttempt(t.row, t.code, t.unknown)
      PROVE  UNCHANGED <<status, usage>>
  BY <1>4 DEF Begun, BeginAttempt, EndAttempt
<1>5. ASSUME CancelRun(r)
      PROVE  /\ \A q \in Runs \ {r} :
                  status'[q] = status[q] /\ usage'[q] = usage[q]
             /\ status'[r] = "absent" <=> status[r] = "absent"
             /\ status'[r] \in Active => status[r] \in Active
  BY <1>5 DEF CancelRun, TypeOK, Active
<1>6. QED BY <1>2, <1>3, <1>4, <1>5 DEF Commits

-----------------------------------------------------------------------------
(* The row and the task count alike *)

\* While a run is active its row and its task agree on the usage: the store
\* overwrites its counters with those of the task when the run ends.  A task
\* that unwinds may have lost its count.
RowMatches(r) ==
  /\ status[r] = "absent" => task[r].pc = "absent" /\ usage[r] = NoUsage
  /\ status[r] \in Active /\ task[r].pc \in Reading \cup InHarness =>
       usage[r] = Counted(task[r])
  /\ status[r] \in Active /\ task[r].pc \in Forced =>
       Taken(task[r]) \in {usage[r], NoUsage}
UsageOK == \A r \in Runs : RowMatches(r)

\* After its transaction the row of an active run has what the task took.
LEMMA CommittedUsage ==
  ASSUME TypeOK, Control, UsageOK, NEW r \in Runs, Commits(r),
         status'[r] \in Active
  PROVE  /\ task[r].pc \in Reading \cup InHarness =>
              usage'[r] = Taken(task[r]) /\ task[r].pc # "ending"
         /\ task[r].pc \in Forced =>
              usage'[r] = usage[r] /\ task[r].pc = "forced_cancel"
<1> DEFINE t == task[r]
<1>1. Shape(t) /\ t \in Tasks
  BY DEF Control, Shape
<1>2. t.steps \in Int /\ t.calls \in Int
  BY <1>1, LimitsAssumption DEF Tasks
<1>3. status[r] \in Active
  BY CommittedRow
<1>4. t.pc \in Reading \cup InHarness => usage[r] = Counted(t)
  BY <1>3 DEF UsageOK, RowMatches
<1>5. /\ usage[r] \in Usages
      /\ usage[r].steps \in Nat /\ usage[r].calls \in Nat
      /\ usage[r] = [steps |-> usage[r].steps, calls |-> usage[r].calls]
  BY DEF TypeOK, Usages
<1>6. ASSUME t.pc \in Reports, Recorded(r)
      PROVE  /\ t.pc \in InHarness => usage'[r] = Taken(t)
             /\ t.pc \notin {"ending", "forced_record"}
  <2>1. /\ KindOf(t) \in ReportKinds
        /\ KindOf(t) \in TerminalKinds <=> t.pc \in {"ending", "forced_record"}
        /\ KindOf(t) = "model_request_started" <=>
             t.pc = "model_request_started"
        /\ KindOf(t) = "tool_call_requested" <=> t.pc = "tool_call_requested"
    BY <1>1, <1>6, KindsReported
  <2>2. /\ KindOf(t) \notin TerminalKinds
        /\ usage'[r] =
             [steps |-> usage[r].steps +
                (IF KindOf(t) = "model_request_started" THEN 1 ELSE 0),
              calls |-> usage[r].calls +
                (IF KindOf(t) = "tool_call_requested" THEN 1 ELSE 0)]
    BY <1>6, <2>1, RecordedRow DEF Recorded
  <2>3. ASSUME t.pc \in InHarness PROVE usage'[r] = Taken(t)
    <3>1. /\ usage[r].steps =
               IF t.pc = "model_request_started" THEN t.steps - 1 ELSE t.steps
          /\ usage[r].calls =
               IF t.pc = "tool_call_requested" THEN t.calls - 1 ELSE t.calls
      BY <1>4, <2>3 DEF Counted
    <3>2. /\ usage[r].steps +
               (IF t.pc = "model_request_started" THEN 1 ELSE 0) = t.steps
          /\ usage[r].calls +
               (IF t.pc = "tool_call_requested" THEN 1 ELSE 0) = t.calls
      BY <1>2, <3>1
    <3>3. QED BY <2>1, <2>2, <3>2 DEF Taken
  <2>4. QED BY <2>1, <2>2, <2>3
<1>7. ASSUME t.pc \in Reading \cup Waiting \cup
                      {"begin_attempt", "end_attempt", "forced_cancel"}
      PROVE  /\ t.pc # "forced_cancel" => Counted(t) = Taken(t)
             /\ t.pc # "ending" /\ t.pc # "forced_record"
             /\ t.pc \notin Reports
  BY <1>7 DEF Counted, Taken, Reading, Waiting, Reports, Recording
<1>8. UNCHANGED <<dbVars, snapshot>> \/ Begun(r) \/ CancelRun(r)
      \/ EndAttempt(t.row, t.code, t.unknown) => usage' = usage
  BY DEF dbVars, Begun, BeginAttempt, EndAttempt, CancelRun
<1>9. "forced_cancel" \notin Reading \cup InHarness
  BY DEF Reading, InHarness, Recording, Waiting
<1>10. CASE t.pc \in Reports /\ Recorded(r)
  <2>1. t.pc \notin Reading /\ (t.pc \in Forced => t.pc = "forced_record")
    BY <1>10 DEF Reports, Reading, Recording, Forced
  <2>2. QED BY <1>6, <1>10, <2>1
<1>11. CASE ~(t.pc \in Reports /\ Recorded(r))
  <2>1. usage' = usage /\
        t.pc \in Reading \cup Waiting \cup
                 {"begin_attempt", "end_attempt", "forced_cancel"}
    BY <1>8, <1>11 DEF Commits
  <2>2. t.pc \in Forced => t.pc = "forced_cancel"
    BY <1>7, <2>1 DEF Forced
  <2>3. QED BY <1>4, <1>7, <1>9, <2>1, <2>2
<1>12. QED BY <1>10, <1>11

\* Nothing has been used at first.
LEMMA InitUsage == Init => Down /\ UsageOK
<1> SUFFICES ASSUME Init PROVE Down /\ UsageOK
  OBVIOUS
<1>1. \A r \in Runs : /\ task[r].pc = "absent" /\ status[r] = "absent"
                      /\ usage[r] = NoUsage
  BY DoneFields DEF Init, StoreInit
<1>2. QED
  BY <1>1 DEF Init, Down, UsageOK, RowMatches, Active

\* Task r goes on as u, and nothing else happens to a row.
LEMMA TaskUsage ==
  ASSUME Control, UsageOK, NEW r \in Runs, NEW u,
         task' = [task EXCEPT ![r] = u],
         \A q \in Runs \ {r} : status'[q] = status[q] /\ usage'[q] = usage[q],
         status'[r] # "absent",
         status'[r] \in Active /\ u.pc \in Reading \cup InHarness =>
           usage'[r] = Counted(u),
         status'[r] \in Active /\ u.pc \in Forced =>
           Taken(u) \in {usage'[r], NoUsage}
  PROVE  UsageOK'
<1>1. task'[r] = u /\ \A q \in Runs \ {r} : task'[q] = task[q]
  BY DEF Control
<1>2. RowMatches(r)'
  BY <1>1 DEF RowMatches
<1>3. ASSUME NEW q \in Runs \ {r} PROVE RowMatches(q)'
  BY <1>1, <1>3 DEF UsageOK, RowMatches
<1>4. QED BY <1>2, <1>3 DEF UsageOK

\* No task changes, and statuses only end.
LEMMA RowsUsage ==
  ASSUME UsageOK, task' = task, usage' = usage,
         \A q \in Runs : /\ status'[q] = "absent" => status[q] = "absent"
                         /\ status'[q] \in Active => status[q] \in Active
  PROVE  UsageOK'
BY DEF UsageOK, RowMatches

\* A step of a task keeps the row of its run in line with its counts.
LEMMA TaskStepUsage ==
  ASSUME TypeOK, Control, UsageOK, NEW r \in Runs, TaskStep(r)
  PROVE  UsageOK'
<1> DEFINE t == task[r]
<1>1. Shape(t) /\ t.pc \in Live \cup Over
  BY TaskStepPoint DEF Control
<1>2. t.pc # "absent"
  BY <1>1 DEF Live, Over, Reading, Recording, Waiting, Forced
<1>3. status[r] # "absent"
  BY <1>2 DEF UsageOK, RowMatches
<1>4. ASSUME NEW u, Advances(r, u) PROVE UsageOK'
  <2>1. /\ task' = [task EXCEPT ![r] = u] /\ Commits(r)
        /\ Counted(u) = Taken(t) /\ NextPoint(r, t, u)
    BY <1>4 DEF Advances, Becomes, Leads
  <2>2. t.pc \in Live
    BY <2>1 DEF Commits, Live, Reports, Forced, Recording
  <2>3. u.pc \in Reading \cup InHarness => t.pc \in Reading \cup InHarness
    BY <2>1, <2>2
    DEF NextPoint, Live, InLoop, InHarness, Reading, Recording, Waiting, Forced
  <2>4. u.pc \in Forced => t.pc \in Forced
    BY <2>1, <2>2
    DEF NextPoint, Live, InLoop, InHarness, Reading, Recording, Waiting, Forced
  <2>5. u.pc \in Forced => Taken(u) = Counted(u)
    BY DEF Counted, Taken, Forced
  <2>6. t.pc \in Forced => Taken(t) = Counted(t)
    BY DEF Counted, Taken, Forced
  <2>7. status'[r] \in Active /\ t.pc \in Forced =>
          Taken(t) \in {usage'[r], NoUsage}
    BY <2>1, <2>6, CommittedRow, CommittedUsage DEF UsageOK, RowMatches
  <2>8. /\ \A q \in Runs \ {r} : status'[q] = status[q] /\ usage'[q] = usage[q]
        /\ status'[r] # "absent"
    BY <1>3, <2>1, CommittedRow
  <2>9. status'[r] \in Active /\ t.pc \in Reading \cup InHarness =>
          usage'[r] = Taken(t)
    BY <2>1, CommittedUsage
  <2>10. QED
    BY <2>1, <2>3, <2>4, <2>5, <2>7, <2>8, <2>9, TaskUsage
<1>5. ASSUME Commits(r) \/ UNCHANGED <<dbVars, snapshot>>
      PROVE  /\ \A q \in Runs \ {r} :
                  status'[q] = status[q] /\ usage'[q] = usage[q]
             /\ status'[r] # "absent"
  BY <1>3, <1>5, CommittedRow DEF dbVars
<1>6. ASSUME Raises(r) PROVE UsageOK'
  <2>1. /\ task' = [task EXCEPT ![r] = At(t, "raised")]
        /\ At(t, "raised").pc = "raised"
    BY <1>1, <1>6, GoesTo DEF Raises, Becomes
  <2>2. Commits(r) \/ UNCHANGED <<dbVars, snapshot>>
    BY <1>6 DEF Raises
  <2>3. "raised" \notin Reading \cup InHarness \cup Forced
    BY DEF Reading, InHarness, Recording, Waiting, Forced
  <2>4. QED BY <1>5, <2>1, <2>2, <2>3, TaskUsage
<1>7. ASSUME Interrupts(r) PROVE UsageOK'
  <2> DEFINE u == Unwound(t)
  <2>1. task' = [task EXCEPT ![r] = u]
    BY <1>7 DEF Interrupts, Becomes
  <2>2. Commits(r) \/ UNCHANGED <<dbVars, snapshot>>
    BY <1>7 DEF Interrupts
  <2>3. /\ u.pc \notin Reading \cup InHarness
        /\ u.pc \in Forced =>
             Taken(u) = IF t.pc = "ending" THEN Taken(t) ELSE NoUsage
    BY <1>1, UnwoundFields DEF NoUsage
  <2>4. ASSUME status'[r] \in Active, t.pc = "ending"
        PROVE  Taken(t) = usage'[r]
    <3>1. ~Commits(r)
      BY <2>4, CommittedUsage DEF InHarness, Recording
    <3>2. usage' = usage /\ status' = status
      BY <2>2, <3>1 DEF dbVars
    <3>3. usage[r] = Counted(t)
      BY <2>4, <3>2 DEF UsageOK, RowMatches, InHarness, Recording
    <3>4. QED BY <2>4, <3>2, <3>3 DEF Counted, Taken
  <2> HIDE DEF u
  <2>5. QED BY <1>5, <2>1, <2>2, <2>3, <2>4, TaskUsage
<1>8. ASSUME Observe(r) PROVE UsageOK'
  <2>1. /\ task' = [task EXCEPT ![r] = At(NoTask, "done")]
        /\ status' = status /\ usage' = usage
    BY <1>8 DEF Observe, storeVars
  <2>2. At(NoTask, "done").pc \notin Reading \cup InHarness \cup Forced
    BY DoneFields DEF Reading, InHarness, Recording, Waiting, Forced
  <2>3. QED BY <1>3, <2>1, <2>2, TaskUsage
<1>9. QED BY <1>4, <1>6, <1>7, <1>8 DEF TaskStep

\* So does every other step.
LEMMA StepUsage ==
  TypeOK /\ Control /\ UsageOK /\ [Next]_vars => UsageOK'
<1> SUFFICES ASSUME TypeOK, Control, UsageOK, [Next]_vars PROVE UsageOK'
  OBVIOUS
<1>1. ASSUME NEW r \in Runs, RunTask(r) PROVE UsageOK'
  BY <1>1, RunTaskStep, TaskStepUsage
<1>2. ASSUME NEW s \in Sessions, Submit(s) PROVE UsageOK'
  BY <1>2, RowsUsage DEF Submit, storeVars, taskVars
<1>3. ASSUME SubmitGetSession \/ SubmitConflict \/ SubmitFails PROVE UsageOK'
  BY <1>3, RowsUsage
  DEF SubmitGetSession, SubmitConflict, SubmitFails, dbVars, taskVars
<1>4. ASSUME SubmitGetTaskState PROVE UsageOK'
  BY <1>4, RowsUsage DEF SubmitGetTaskState, GetTaskState, dbVars, taskVars
<1>5. ASSUME NEW r \in Runs, SubmitCreate(r) PROVE UsageOK'
  <2>1. /\ status[r] = "absent" /\ status' = [status EXCEPT ![r] = "queued"]
        /\ usage' = usage
    BY <1>5 DEF SubmitCreate, CreateRun
  <2>2. task[r].pc = "absent" /\ usage[r] = NoUsage
    BY <2>1 DEF UsageOK, RowMatches
  <2>3. CASE task' = [task EXCEPT ![r] = NewTask]
    <3>1. Counted(NewTask) = NoUsage /\ NewTask.pc \notin Forced
      BY DoneFields DEF Counted, NoUsage, Forced
    <3>2. QED BY <2>1, <2>2, <2>3, <3>1, TaskUsage DEF TypeOK
  <2>4. CASE task' = task
    <3>1. task' = [task EXCEPT ![r] = task[r]]
      BY <2>4 DEF Control
    <3>2. task[r].pc \notin Reading \cup InHarness \cup Forced
      BY <2>2 DEF Reading, InHarness, Recording, Waiting, Forced
    <3>3. QED BY <2>1, <3>1, <3>2, TaskUsage DEF TypeOK
  <2>5. QED BY <1>5, <2>3, <2>4 DEF SubmitCreate
<1>6. ASSUME NEW r \in Runs, CancelCommits(r) \/ CancelFails, task' = task
      PROVE  UsageOK'
  <2>1. /\ usage' = usage
        /\ \A q \in Runs : /\ status'[q] = "absent" => status[q] = "absent"
                           /\ status'[q] \in Active => status[q] \in Active
    BY <1>6 DEF CancelCommits, CancelRun, CancelFails, dbVars, TypeOK, Active
  <2>2. QED BY <1>6, <2>1, RowsUsage
<1>7. ASSUME NEW r \in Runs, RequestCancel(r) \/ CancelAnswered(r)
      PROVE  UsageOK'
  <2>1. CASE RequestCancel(r)
    BY <2>1, RowsUsage DEF RequestCancel, storeVars, taskVars
  <2>2. CASE CancelAnswered(r)
    BY <1>6, <2>2 DEF CancelAnswered
  <2>3. QED BY <1>7, <2>1, <2>2
<1>8. ASSUME ShutdownCancels PROVE UsageOK'
  BY <1>6, <1>8 DEF ShutdownCancels, Control
<1>9. ASSUME ShutdownBegins \/ ShutdownForces \/ ShutdownEnds PROVE UsageOK'
  BY <1>9, RowsUsage
  DEF ShutdownBegins, ShutdownForces, ShutdownEnds, storeVars, dbVars, taskVars
<1>10. ASSUME ProcessEnds PROVE UsageOK'
  <2>1. /\ status' = status /\ usage' = usage
        /\ \A r \in Runs : task'[r].pc = "absent"
    BY <1>10, DoneFields DEF ProcessEnds, dbVars
  <2>2. "absent" \notin Reading \cup InHarness \cup Forced
    BY DEF Reading, InHarness, Recording, Waiting, Forced
  <2>3. QED BY <2>1, <2>2 DEF UsageOK, RowMatches
<1>11. ASSUME Start PROVE UsageOK'
  <2>1. /\ usage' = usage /\ task' = task
        /\ \A q \in Runs : /\ status'[q] = "absent" => status[q] = "absent"
                           /\ status'[q] \in Active => status[q] \in Active
    BY <1>11 DEF Start, Recover, RecoveredStatus, taskVars, Active
  <2>2. QED BY <2>1, RowsUsage
<1>12. ASSUME NEW a \in DOMAIN attempts, Reconcile(a) PROVE UsageOK'
  BY <1>12, RowsUsage DEF Reconcile, ResolveAttempt, taskVars
<1>13. ASSUME UNCHANGED vars PROVE UsageOK'
  BY <1>13, RowsUsage DEF vars, storeVars, taskVars
<1>14. QED
  BY <1>1, <1>2, <1>3, <1>4, <1>5, <1>7, <1>8, <1>9, <1>10, <1>11, <1>12,
     <1>13
  DEF Next, Submission, Shutdown

-----------------------------------------------------------------------------
(* The service is a client of the store *)

\* record_event reads the Run object of its caller only when the run ends.
LEMMA OwnReadAtEnd ==
  ASSUME TypeOK, NEW r \in Runs, NEW kind \in ReportKinds, NEW role, NEW calls,
         NEW own, RecordEvent(r, Logical(kind), role, calls, own),
         own.output \in BOOLEAN,
         status[r] \in Active /\ kind \in TerminalKinds =>
           own = [usage |-> own.usage, output |-> own.output]
           /\ own.usage \in {usage[r], NoUsage}
  PROVE  \E mine \in OwnRuns(r) :
           RecordEvent(r, Logical(kind), role, calls, mine)
<1>1. Logical(kind).kind = kind
  BY DEF Logical, Event
<1>2. CASE status[r] \in Active /\ kind \in TerminalKinds
  <2>1. own \in OwnRuns(r)
    BY <1>2 DEF OwnRuns
  <2>2. QED BY <2>1
<1>3. CASE ~(status[r] \in Active /\ kind \in TerminalKinds)
  <2> DEFINE mine == [usage |-> usage[r], output |-> FALSE]
  <2>1. mine \in OwnRuns(r)
    BY DEF OwnRuns
  <2>2. ~(status[r] \in Active /\ StatusAfter(r, kind) \in Ended)
    BY <1>3 DEF StatusAfter, Active, Ended
  <2>3. RecordEvent(r, Logical(kind), role, calls, mine)
    BY <1>1, <2>2 DEF RecordEvent
  <2>4. QED BY <2>1, <2>3
<1>4. QED BY <1>2, <1>3

\* The tool calls a message names are calls of the run.
LEMMA CallsRecorded ==
  ASSUME NEW t, Shape(t)
  PROVE  CallsIn(t, RoleOf(t)) \in CallsOf(RoleOf(t))
<1>1. t \in Tasks /\ t.calls \in 0 .. MaxCalls /\ t.left \in 0 .. MaxBatch
  BY DEF Shape, Tasks
<1>2. CASE t.pc = "response_calls"
  <2>1. t.left # 0
    BY <1>2 DEF Shape
  <2>2. t.calls + 1 .. t.calls + t.left \subseteq 1 .. MaxCalls + MaxBatch
    BY <1>1, LimitsAssumption
  <2>3. t.calls + 1 \in t.calls + 1 .. t.calls + t.left
    BY <1>1, <2>1, LimitsAssumption
  <2>4. RoleOf(t) = "calls"
    BY <1>2 DEF RoleOf
  <2>5. QED
    BY <2>2, <2>3, <2>4, ExecutionsAssumption DEF CallsIn, CallsOf
<1>3. CASE t.pc = "tool_reply"
  <2>1. t.calls # 0
    BY <1>3 DEF Shape
  <2>2. t.calls \in 1 .. MaxCalls + MaxBatch
    BY <1>1, <2>1, LimitsAssumption
  <2>3. RoleOf(t) = "tool"
    BY <1>3 DEF RoleOf
  <2>4. QED BY <2>2, <2>3, ExecutionsAssumption DEF CallsIn, CallsOf
<1>4. CASE t.pc \notin {"response_calls", "tool_reply"}
  <2>1. RoleOf(t) \in {"none", "final"}
    BY <1>4 DEF RoleOf
  <2>2. QED BY <2>1 DEF CallsIn, CallsOf
<1>5. QED BY <1>2, <1>3, <1>4

\* An event of a task is one that any client may report.
LEMMA RecordedReport ==
  ASSUME TypeOK, Control, UsageOK, NEW r \in Runs,
         task[r].pc \in Reports, Recorded(r)
  PROVE  Report(r, KindOf(task[r]))
<1> DEFINE t == task[r]
           kind == KindOf(t)
           role == RoleOf(t)
           calls == CallsIn(t, role)
<1>1. Shape(t) /\ t \in Tasks
  BY DEF Control, Shape
<1>2. /\ kind \in ReportKinds
      /\ kind \in TerminalKinds <=> t.pc \in {"ending", "forced_record"}
  BY <1>1, KindsReported
<1>3. /\ OwnRun(t) = [usage |-> OwnRun(t).usage, output |-> OwnRun(t).output]
      /\ OwnRun(t).output \in BOOLEAN
      /\ OwnRun(t).usage = Taken(t)
  BY DEF OwnRun, Taken
<1>4. ASSUME status[r] \in Active, kind \in TerminalKinds
      PROVE  Taken(t) \in {usage[r], NoUsage}
  <2>1. CASE t.pc = "ending"
    <3>1. usage[r] = Counted(t)
      BY <1>4, <2>1 DEF UsageOK, RowMatches, InHarness, Recording
    <3>2. QED BY <2>1, <3>1 DEF Counted, Taken
  <2>2. CASE t.pc = "forced_record"
    BY <1>4, <2>2 DEF UsageOK, RowMatches, Forced
  <2>3. QED BY <1>2, <1>4, <2>1, <2>2
<1>5. RecordEvent(r, Logical(kind), role, calls, OwnRun(t))
  BY DEF Recorded
<1>6. PICK mine \in OwnRuns(r) :
        RecordEvent(r, Logical(kind), role, calls, mine)
  BY <1>2, <1>3, <1>4, <1>5, OwnReadAtEnd
<1>7. role \in RolesOf(kind)
  BY DEF RoleOf, KindOf, RolesOf
<1>8. calls \in CallsOf(role)
  BY <1>1, CallsRecorded
<1>9. "logical" \in TypesOf(kind)
  BY DEF TypesOf
<1> HIDE DEF kind, role, calls
<1>10. Report(r, kind)
  BY <1>6, <1>7, <1>8, <1>9 DEF Report, Logical
<1>11. QED BY <1>10 DEF kind

\* The transactions of the tasks are operations of the store.
LEMMA CommitsOperation ==
  ASSUME TypeOK, Control, UsageOK, NEW r \in Runs, Commits(r)
  PROVE  \/ UNCHANGED <<dbVars, snapshot>>
         \/ ~broken /\ Operation
<1> DEFINE t == task[r]
<1>1. Shape(t) /\ t \in Tasks
  BY DEF Control, Shape
<1>2. ASSUME t.pc \in Reports, Recorded(r) PROVE Operation
  BY <1>1, <1>2, RecordedReport, KindsReported DEF Operation
<1>3. ASSUME t.pc = "begin_attempt", Begun(r) PROVE Operation
  <2>1. t.calls # 0 /\ t.number # 0
    BY <1>1, <1>3 DEF Shape, InCall
  <2>2. t.calls \in Executions
    BY <1>1, <2>1, ExecutionsAssumption, LimitsAssumption DEF Tasks
  <2>3. t.number \in 1 .. MaxAttempts
    BY <1>1, <2>1, AttemptsAssumption DEF Tasks
  <2>4. t.call.key \in CallKeys /\ t.call.retry_safe \in BOOLEAN
    BY <1>1, CallsAssumption DEF Tasks
  <2>5. Begin(r)
    BY <1>3, <2>2, <2>3, <2>4 DEF Begun, Begin
  <2>6. QED BY <2>5 DEF Operation
<1>4. ASSUME t.pc = "end_attempt", EndAttempt(t.row, t.code, t.unknown)
      PROVE  Operation
  <2>1. t.row \in DOMAIN attempts
    BY <1>4 DEF EndAttempt
  <2>2. /\ t.code \in ResultCodes /\ t.unknown \in BOOLEAN
        /\ t.code = "none" => ~t.unknown
    BY <1>1, <1>4 DEF Shape, Tasks
  <2>3. Finish(t.row)
    BY <1>4, <2>2 DEF Finish
  <2>4. QED BY <2>1, <2>3 DEF Operation
<1>5. ASSUME CancelRun(r) PROVE Operation
  BY <1>5 DEF Operation
<1>6. t.pc \in Reports \cup {"begin_attempt", "end_attempt", "forced_cancel"}
        => t.pc \in StoreCalls
  BY DEF Reports, StoreCalls, Recording, Forced
<1>7. QED BY <1>2, <1>3, <1>4, <1>5, <1>6 DEF Commits

\* A step that changes no table, or runs one operation of the store.
LEMMA StoreSteps ==
  ASSUME TypeOK, broken' \in BOOLEAN,
         \/ UNCHANGED <<dbVars, snapshot>> /\ broken' \in {broken, TRUE}
         \/ ~broken /\ Operation
  PROVE  [StoreNext]_storeVars
<1>1. CASE UNCHANGED <<dbVars, snapshot>> /\ broken' = broken
  BY <1>1 DEF dbVars, storeVars
<1>2. CASE UNCHANGED <<dbVars, snapshot>> /\ broken' = TRUE
  <2>1. CASE broken
    BY <1>2, <2>1 DEF dbVars, storeVars, TypeOK
  <2>2. CASE ~broken
    BY <1>2, <2>2 DEF StoreNext, Quarantine
  <2>3. QED BY <2>1, <2>2
<1>3. CASE ~broken /\ Operation
  BY <1>3 DEF StoreNext, Commit
<1>4. QED BY <1>1, <1>2, <1>3

\* A step of a task is a step of the store, or leaves it alone.
LEMMA TaskStoreStep ==
  ASSUME TypeOK, Control, Control', UsageOK, NEW r \in Runs, TaskStep(r)
  PROVE  [StoreNext]_storeVars
<1>1. broken' \in BOOLEAN
  BY DEF Control
<1>2. ASSUME NEW u, Advances(r, u) PROVE [StoreNext]_storeVars
  BY <1>1, <1>2, CommitsOperation, StoreSteps DEF Advances
<1>3. ASSUME Raises(r) PROVE [StoreNext]_storeVars
  BY <1>1, <1>3, CommitsOperation, StoreSteps DEF Raises
<1>4. ASSUME Interrupts(r) PROVE [StoreNext]_storeVars
  BY <1>1, <1>4, CommitsOperation, StoreSteps DEF Interrupts
<1>5. ASSUME Observe(r) PROVE [StoreNext]_storeVars
  BY <1>5 DEF Observe
<1>6. QED BY <1>2, <1>3, <1>4, <1>5 DEF TaskStep

\* The other steps of the service.
LEMMA ServiceStoreStep ==
  ASSUME TypeOK, Control, Control', Down,
         \/ \E s \in Sessions : Submit(s)
         \/ Submission
         \/ \E r \in Runs : RequestCancel(r) \/ CancelAnswered(r)
         \/ ShutdownBegins \/ Shutdown
         \/ ProcessEnds \/ Start
         \/ \E a \in DOMAIN attempts : Reconcile(a)
  PROVE  [StoreNext]_storeVars
<1>1. broken' \in BOOLEAN
  BY DEF Control
<1>2. ASSUME NEW s \in Sessions, Submit(s) PROVE [StoreNext]_storeVars
  BY <1>2 DEF Submit
<1>3. ASSUME SubmitGetSession \/ SubmitConflict \/ SubmitFails
      PROVE  [StoreNext]_storeVars
  BY <1>1, <1>3, StoreSteps
  DEF SubmitGetSession, SubmitConflict, SubmitFails, SubmitTo
<1>4. ASSUME SubmitGetTaskState PROVE [StoreNext]_storeVars
  <2>1. sub.session \in Sessions /\ GetTaskState(sub.session) /\ ~broken
    BY <1>4 DEF SubmitGetTaskState, SubmitTurn, SubmitTo, Control
  <2>2. QED BY <1>1, <2>1, StoreSteps DEF Operation
<1>5. ASSUME NEW r \in Runs, SubmitCreate(r) PROVE [StoreNext]_storeVars
  <2>1. sub.session \in Sessions /\ CreateRun(r, sub.session) /\ ~broken
    BY <1>5 DEF SubmitCreate, SubmitTurn, Control
  <2>2. QED BY <1>1, <2>1, StoreSteps DEF Operation
<1>6. ASSUME NEW r \in Runs, CancelCommits(r) \/ CancelFails
      PROVE  [StoreNext]_storeVars
  BY <1>1, <1>6, StoreSteps DEF CancelCommits, CancelFails, Operation
<1>7. ASSUME NEW r \in Runs, RequestCancel(r) \/ CancelAnswered(r)
      PROVE  [StoreNext]_storeVars
  BY <1>6, <1>7 DEF RequestCancel, CancelAnswered
<1>8. ASSUME ShutdownCancels PROVE [StoreNext]_storeVars
  BY <1>6, <1>8 DEF ShutdownCancels, Control
<1>9. ASSUME ShutdownBegins \/ ShutdownForces PROVE [StoreNext]_storeVars
  BY <1>9 DEF ShutdownBegins, ShutdownForces
<1>10. ASSUME ShutdownEnds PROVE [StoreNext]_storeVars
  BY <1>1, <1>10, StoreSteps DEF ShutdownEnds
<1>11. ASSUME ProcessEnds PROVE [StoreNext]_storeVars
  <2>1. UNCHANGED <<dbVars, snapshot>> /\ broken' = FALSE
    BY <1>11 DEF ProcessEnds
  <2>2. CASE broken
    BY <2>1, <2>2 DEF StoreNext, Open
  <2>3. CASE ~broken
    BY <1>1, <2>1, <2>3, StoreSteps DEF TypeOK
  <2>4. QED BY <2>2, <2>3
<1>12. ASSUME Start PROVE [StoreNext]_storeVars
  BY <1>1, <1>12, StoreSteps DEF Start, Down, Operation
<1>13. ASSUME NEW a \in DOMAIN attempts, Reconcile(a)
       PROVE  [StoreNext]_storeVars
  BY <1>1, <1>13, StoreSteps DEF Reconcile, Down, Operation
<1>14. QED
  BY <1>2, <1>3, <1>4, <1>5, <1>7, <1>8, <1>9, <1>10, <1>11, <1>12, <1>13
  DEF Submission, Shutdown

-----------------------------------------------------------------------------
(* The base of every other invariant *)

Base == TypeOK /\ Control /\ Down /\ UsageOK

\* So is every step of the runtime.
LEMMA BaseStoreStep ==
  ASSUME Base, [Next]_vars
  PROVE  [StoreNext]_storeVars
<1>1. Control'
  BY StepControl DEF Base
<1>2. ASSUME NEW r \in Runs, RunTask(r) PROVE [StoreNext]_storeVars
  BY <1>1, <1>2, RunTaskStep, TaskStoreStep DEF Base
<1>3. CASE UNCHANGED vars
  BY <1>3 DEF vars
<1>4. QED BY <1>1, <1>2, <1>3, ServiceStoreStep DEF Base, Next

\* The tables, the control state, a process that is down and the counters, in
\* every reachable state.
THEOREM BaseHolds == Spec => []Base
<1>1. Init => Base
  BY InitTypeOK, InitControl, InitUsage DEF Init, Base
<1>2. Base /\ [Next]_vars => Base'
  BY BaseStoreStep, StepTypeOK, StepControl, StepDown, StepUsage DEF Base
<1>3. QED BY <1>1, <1>2, PTL DEF Spec

\* Service, harness, loop and executor use the store as the store allows any
\* client to: every invariant of StoreSpec is one of the whole runtime.
THEOREM RuntimeUsesStore == Spec => StoreSpec
<1>1. Init => StoreInit
  BY DEF Init
<1>2. QED BY <1>1, BaseStoreStep, BaseHolds, PTL DEF Spec, StoreSpec

-----------------------------------------------------------------------------
(* The answer of a completed run *)

\* The accepted final answers of a run.
Finals(r) == {m \in DOMAIN messages :
  /\ messages[m].run = r
  /\ messages[m].role = "final"
  /\ messages[m].accepted}
HasAnswer(r) == \E m : Finals(r) = {m}

\* A run that goes on has no answer before its task ends it as completed, and
\* one when it does; the row of the run has the output only then.
AnswerOf(r) ==
  /\ status[r] = "absent" => Finals(r) = {}
  /\ status[r] = "completed" => HasAnswer(r)
  /\ status[r] \in {"queued", "running"} =>
       /\ task[r].pc \in (Reading \cup InHarness) \ {"cancel_event", "ending"}
            => Finals(r) = {}
       /\ task[r].pc = "ending" /\ task[r].ending = "run_completed"
            => HasAnswer(r)
  /\ output[r] <=> status[r] = "completed"
AnswersOK == \A r \in Runs : AnswerOf(r)

\* The final messages of a run change only with the transcript.
LEMMA FinalsKept ==
  ASSUME NEW r, messages' = messages
  PROVE  Finals(r)' = Finals(r) /\ HasAnswer(r)' = HasAnswer(r)
BY DEF Finals, HasAnswer

\* A message that is appended adds a final message to its run, or none.
LEMMA FinalsAppended ==
  ASSUME TypeOK, NEW m \in MessageRows, messages' = Append(messages, m), NEW r
  PROVE  IF m.run = r /\ m.role = "final" /\ m.accepted
         THEN Finals(r)' = Finals(r) \cup {Len(messages) + 1}
         ELSE Finals(r)' = Finals(r)
<1>1. /\ DOMAIN messages = 1 .. Len(messages) /\ Len(messages) \in Nat
      /\ messages \in Seq(MessageRows)
  BY LenProperties DEF TypeOK
<1>2. /\ DOMAIN messages' = 1 .. Len(messages) + 1
      /\ \A i \in 1 .. Len(messages) : messages'[i] = messages[i]
      /\ messages'[Len(messages) + 1] = m
  BY <1>1, AppendFacts
<1>3. 1 .. Len(messages) + 1 = (1 .. Len(messages)) \cup {Len(messages) + 1}
  BY <1>1
<1>4. Finals(r)' = {i \in (1 .. Len(messages)) \cup {Len(messages) + 1} :
                      /\ messages'[i].run = r
                      /\ messages'[i].role = "final"
                      /\ messages'[i].accepted}
  BY <1>2, <1>3 DEF Finals
<1>5. Len(messages) + 1 \notin 1 .. Len(messages)
  BY <1>1
<1>6. CASE m.run = r /\ m.role = "final" /\ m.accepted
  BY <1>1, <1>2, <1>4, <1>5, <1>6 DEF Finals
<1>7. CASE ~(m.run = r /\ m.role = "final" /\ m.accepted)
  BY <1>1, <1>2, <1>4, <1>5, <1>7 DEF Finals
<1>8. QED BY <1>6, <1>7

\* The message and the output of a recorded event.
LEMMA RecordedAnswer ==
  ASSUME TypeOK, Control, NEW r \in Runs, task[r].pc \in Reports, Recorded(r)
  PROVE  LET t == task[r]
             final == t.pc = "response_final"
                      /\ status'[r] \in {"queued", "running"} IN
         /\ \A q \in Runs \ {r} : /\ Finals(q)' = Finals(q)
                                  /\ output'[q] = output[q]
                                  /\ status'[q] = status[q]
         /\ status[r] # "absent" /\ status'[r] # "absent"
         /\ ~final => Finals(r)' = Finals(r)
         /\ final /\ Finals(r) = {} => HasAnswer(r)'
         /\ status'[r] \in {"queued", "running"} =>
              status[r] \in {"queued", "running"}
         /\ status[r] \notin Active =>
              status'[r] = status[r] /\ output'[r] = output[r]
         /\ status'[r] \in Active => output'[r] = output[r]
         /\ status[r] \in Active /\ status'[r] \in Ended =>
              /\ status'[r] = "completed" =>
                   /\ t.pc = "ending" /\ t.ending = "run_completed"
                   /\ status[r] \in {"queued", "running"}
              /\ output'[r] <=>
                   status'[r] # "cancelled" /\ t.ending = "run_completed"
              /\ t.ending = "run_completed" /\ t.pc = "ending" =>
                   status'[r] \in {"completed", "cancelled"}
              /\ t.pc \in {"ending", "forced_record"}
              /\ t.pc = "forced_record" => status'[r] = "cancelled"
<1> DEFINE t == task[r]
           kind == KindOf(t)
           role == RoleOf(t)
           calls == CallsIn(t, role)
           next == StatusAfter(r, kind)
           ends == status[r] \in Active /\ next \in Ended
<1>1. Shape(t) /\ t \in Tasks
  BY DEF Control, Shape
<1>2. /\ kind \in ReportKinds
      /\ kind \in TerminalKinds <=> t.pc \in {"ending", "forced_record"}
      /\ t.pc = "ending" => kind = t.ending
      /\ t.pc = "forced_record" => kind = "run_cancelled"
      /\ kind = "run_cancel_requested" <=> t.pc = "cancel_event"
  BY <1>1, KindsReported DEF KindOf
<1>3. RecordEvent(r, Logical(kind), role, calls, OwnRun(t))
  BY DEF Recorded
<1>4. Logical(kind).kind = kind
  BY DEF Logical, Event
<1> HIDE DEF kind, role, calls
<1>5. /\ status[r] # "absent" /\ status' = [status EXCEPT ![r] = next]
      /\ output' = [output EXCEPT ![r] =
           IF ends THEN next # "cancelled" /\ OwnRun(t).output ELSE @]
  BY <1>3, <1>4 DEF RecordEvent
<1>6. /\ status'[r] = next
      /\ \A q \in Runs \ {r} : status'[q] = status[q] /\ output'[q] = output[q]
      /\ output'[r] = IF ends THEN next # "cancelled" /\ OwnRun(t).output
                      ELSE output[r]
  BY <1>5 DEF TypeOK
<1>7. OwnRun(t).output <=> t.ending = "run_completed"
  BY DEF OwnRun
<1>8. status[r] \in Statuses /\ status[r] # "absent"
  BY <1>5 DEF TypeOK
<1>9. /\ next # "absent"
      /\ next \in {"queued", "running"} => status[r] \in {"queued", "running"}
      /\ status[r] \notin Active => next = status[r]
      /\ status[r] \in Active /\ next \in Ended => kind \in TerminalKinds
      /\ next = "completed" /\ status[r] \in Active =>
           kind = "run_completed" /\ status[r] \in {"queued", "running"}
      /\ status[r] \in Active /\ kind = "run_completed" =>
           next \in {"completed", "cancelled"}
      /\ status[r] \in Active /\ kind = "run_cancelled" => next = "cancelled"
  BY <1>8 DEF StatusAfter, TargetStatus, TerminalKinds, Active, Ended, Statuses
<1>10. Active \cap Ended = {}
  BY DEF Active, Ended
<1>11. CASE role = "none"
  <2>1. messages' = messages
    BY <1>3, <1>11 DEF RecordEvent
  <2>2. t.pc # "response_final"
    BY <1>11 DEF RoleOf, role
  <2>3. \A q : Finals(q)' = Finals(q)
    BY <2>1, FinalsKept
  <2>4. QED BY <1>2, <1>6, <1>7, <1>8, <1>9, <1>10, <2>2, <2>3
<1>12. CASE role # "none"
  <2>1. PICK m : /\ messages' = Append(messages, m)
                 /\ m = [run |-> r, role |-> role, calls |-> calls,
                         observed |-> m.observed, accepted |-> Accepts(next)]
                 /\ m.observed \in BOOLEAN
    <3> DEFINE seen == Accepts(next)
                       /\ KindWritten(r, kind) = "tool_execution_completed"
               m == [run |-> r, role |-> role, calls |-> calls,
                     observed |-> seen, accepted |-> Accepts(next)]
    <3>1. messages' = Append(messages, m)
      BY <1>3, <1>4, <1>12 DEF RecordEvent
    <3>2. m.observed = seen /\ seen \in BOOLEAN
      OBVIOUS
    <3>3. m = [run |-> r, role |-> role, calls |-> calls,
               observed |-> m.observed, accepted |-> Accepts(next)]
      OBVIOUS
    <3> HIDE DEF m, seen
    <3>4. QED BY <3>1, <3>2, <3>3
  <2>2. m \in MessageRows
    <3>1. role \in Roles
      BY <1>12 DEF role, RoleOf, Roles
    <3>2. calls \in SUBSET Executions
      BY <1>1, CallsRecorded DEF calls, role, CallsOf, RoleOf
    <3>3. Accepts(next) \in BOOLEAN
      BY DEF Accepts
    <3>4. QED BY <2>1, <3>1, <3>2, <3>3 DEF MessageRows
  <2>3. \A q \in Runs \ {r} : Finals(q)' = Finals(q)
    BY <2>1, <2>2, FinalsAppended
  <2>4. role = "final" <=> t.pc = "response_final"
    BY DEF role, RoleOf
  <2>5. Accepts(next) <=> next \in {"queued", "running"}
    BY DEF Accepts, Active
  <2>6. IF t.pc = "response_final" /\ next \in {"queued", "running"}
        THEN Finals(r)' = Finals(r) \cup {Len(messages) + 1}
        ELSE Finals(r)' = Finals(r)
    BY <2>1, <2>2, <2>4, <2>5, FinalsAppended
  <2>7. t.pc = "response_final" /\ next \in {"queued", "running"} =>
          (Finals(r) = {} => HasAnswer(r)')
    BY <2>6 DEF HasAnswer
  <2>8. QED BY <1>2, <1>6, <1>7, <1>8, <1>9, <1>10, <2>3, <2>6, <2>7
<1>13. QED BY <1>11, <1>12

\* The other transactions of a task write no message.
LEMMA CommittedAnswer ==
  ASSUME TypeOK, Control, AnswersOK, NEW r \in Runs, Commits(r),
         ~(task[r].pc \in Reports /\ Recorded(r))
  PROVE  /\ \A q : Finals(q)' = Finals(q)
         /\ UNCHANGED output
         /\ \A q \in Runs \ {r} : status'[q] = status[q]
         /\ status'[r] = status[r] \/ status'[r] \in {"cancelled",
                                                      "cancel_requested"}
         /\ status'[r] # status[r] => status[r] \in Active
<1>1. /\ messages' = messages /\ UNCHANGED output
      /\ \A q \in Runs \ {r} : status'[q] = status[q]
      /\ status'[r] = status[r] \/ status'[r] \in {"cancelled",
                                                   "cancel_requested"}
      /\ status'[r] # status[r] => status[r] \in Active
  <2>1. CASE UNCHANGED <<dbVars, snapshot>> \/ Begun(r)
             \/ EndAttempt(task[r].row, task[r].code, task[r].unknown)
    BY <2>1 DEF dbVars, Begun, BeginAttempt, EndAttempt
  <2>2. CASE CancelRun(r)
    BY <2>2 DEF CancelRun, TypeOK, Active
  <2>3. QED BY <2>1, <2>2 DEF Commits
<1>2. QED BY <1>1, FinalsKept

\* Rows change only as a cancellation or a recovery changes them.
LEMMA RowsAnswers ==
  ASSUME AnswersOK, messages' = messages,
         \A q \in Runs :
           /\ task'[q] = task[q]
              \/ task'[q].pc \notin Reading \cup InHarness
           /\ output'[q] => output[q]
           /\ status'[q] = status[q] => (output'[q] <=> output[q])
           /\ \/ status'[q] = status[q]
              \/ /\ status[q] \in Active
                 /\ status'[q] \in {"cancelled", "cancel_requested",
                                    "interrupted"}
  PROVE  AnswersOK'
<1> SUFFICES ASSUME NEW q \in Runs PROVE AnswerOf(q)'
  BY DEF AnswersOK
<1>1. Finals(q)' = Finals(q) /\ HasAnswer(q)' = HasAnswer(q) /\ AnswerOf(q)
  BY FinalsKept DEF AnswersOK
<1>2. CASE status'[q] # status[q]
  <2>1. /\ status[q] \in Active
        /\ status'[q] \in {"cancelled", "cancel_requested", "interrupted"}
    BY <1>2
  <2>2. ~output[q]
    BY <1>1, <2>1 DEF AnswerOf, Active
  <2>3. QED BY <2>1, <2>2 DEF AnswerOf
<1>3. CASE status'[q] = status[q]
  <2>1. output'[q] <=> output[q]
    BY <1>3
  <2>2. task'[q] = task[q] \/ task'[q].pc \notin Reading \cup InHarness
    OBVIOUS
  <2>3. "ending" \in InHarness
    BY DEF InHarness, Recording
  <2>4. QED BY <1>1, <1>3, <2>1, <2>2, <2>3 DEF AnswerOf
<1>4. QED BY <1>2, <1>3

\* A task that goes on.
LEMMA AdvancesAnswer ==
  ASSUME TypeOK, TypeOK', Control, AnswersOK, NEW r \in Runs, NEW u,
         Advances(r, u)
  PROVE  AnswersOK'
<1> DEFINE pc == task[r].pc
           early == (Reading \cup InHarness) \ {"cancel_event", "ending"}
<1>1. /\ task'[r] = u /\ \A q \in Runs \ {r} : task'[q] = task[q]
      /\ NextPoint(r, task[r], u) /\ Commits(r)
  BY DEF Advances, Leads, Becomes, Control
<1>2. pc \in Reading \cup Recording \cup Waiting \cup Forced
  BY <1>1 DEF Commits, Reports, Recording, Forced
\* Where it may come from.
<1>3. u.pc \in early => pc \in early /\ pc # "response_final"
  BY <1>1, <1>2
  DEF NextPoint, Reading, InHarness, InLoop, Recording, Waiting, Forced
<1>4. u.pc = "ending" /\ u.ending = "run_completed" => pc = "response_final"
  BY <1>1 DEF NextPoint
<1>5. "response_final" \in early /\ "ending" \notin early
  BY DEF InHarness, Recording
<1> HIDE DEF early
<1>6. AnswerOf(r)
  BY DEF AnswersOK
<1>7. CASE pc \in Reports /\ Recorded(r)
  <2> DEFINE final == pc = "response_final"
                      /\ status'[r] \in {"queued", "running"}
  <2>1. /\ \A q \in Runs \ {r} : /\ Finals(q)' = Finals(q)
                                 /\ output'[q] = output[q]
                                 /\ status'[q] = status[q]
        /\ status[r] # "absent" /\ status'[r] # "absent"
        /\ ~final => Finals(r)' = Finals(r)
        /\ final /\ Finals(r) = {} => HasAnswer(r)'
        /\ status'[r] \in {"queued", "running"} =>
             status[r] \in {"queued", "running"}
        /\ status[r] \notin Active =>
             status'[r] = status[r] /\ output'[r] = output[r]
        /\ status'[r] \in Active => output'[r] = output[r]
        /\ status[r] \in Active /\ status'[r] \in Ended =>
             /\ status'[r] = "completed" =>
                  /\ pc = "ending" /\ task[r].ending = "run_completed"
                  /\ status[r] \in {"queued", "running"}
             /\ output'[r] <=>
                  status'[r] # "cancelled" /\ task[r].ending = "run_completed"
             /\ task[r].ending = "run_completed" /\ pc = "ending" =>
                  status'[r] \in {"completed", "cancelled"}
             /\ pc \in {"ending", "forced_record"}
             /\ pc = "forced_record" => status'[r] = "cancelled"
    BY <1>7, RecordedAnswer
  <2>2. ~final => HasAnswer(r)' = HasAnswer(r)
    BY <2>1 DEF HasAnswer
  <2>3. ASSUME NEW q \in Runs \ {r} PROVE AnswerOf(q)'
    <3>1. AnswerOf(q) /\ HasAnswer(q)' = HasAnswer(q)
      BY <2>1 DEF AnswersOK, HasAnswer
    <3>2. QED BY <1>1, <2>1, <3>1 DEF AnswerOf
  <2>4. status'[r] = "completed" => HasAnswer(r)'
    <3>1. CASE status[r] \notin Active
      <4>1. status'[r] = "completed" => ~final
        OBVIOUS
      <4>2. QED BY <1>6, <2>1, <2>2, <3>1, <4>1 DEF AnswerOf
    <3>2. CASE status[r] \in Active
      <4>1. status'[r] = "completed" =>
              /\ pc = "ending" /\ task[r].ending = "run_completed"
              /\ status[r] \in {"queued", "running"} /\ ~final
        BY <2>1, <3>2 DEF Ended
      <4>2. QED BY <1>6, <2>2, <4>1 DEF AnswerOf
    <3>3. QED BY <3>1, <3>2
  <2>5. output'[r] <=> status'[r] = "completed"
    <3>1. CASE status[r] \notin Active
      BY <1>6, <2>1, <3>1 DEF AnswerOf
    <3>2. CASE status[r] \in Active /\ status'[r] \in Active
      BY <1>6, <2>1, <3>2 DEF AnswerOf, Active
    <3>3. CASE status[r] \in Active /\ status'[r] \in Ended
      BY <2>1, <3>3
    <3>4. status'[r] \in Active \cup Ended
      <4>1. status'[r] \in Statuses
        BY DEF TypeOK
      <4>2. QED BY <2>1, <4>1 DEF Statuses
    <3>5. QED BY <3>1, <3>2, <3>3, <3>4
  <2>6. ASSUME status'[r] \in {"queued", "running"}
        PROVE  /\ u.pc \in early => Finals(r)' = {}
               /\ u.pc = "ending" /\ u.ending = "run_completed"
                    => HasAnswer(r)'
    <3>1. status[r] \in {"queued", "running"}
      BY <2>1, <2>6
    <3>2. pc \in early => Finals(r) = {}
      BY <1>6, <3>1 DEF AnswerOf, early
    <3>3. u.pc \in early => Finals(r)' = {}
      BY <1>3, <2>1, <3>2
    <3>4. u.pc = "ending" /\ u.ending = "run_completed" => HasAnswer(r)'
      BY <1>4, <1>5, <2>1, <2>6, <3>2
    <3>5. QED BY <3>3, <3>4
  <2>7. AnswerOf(r)'
    BY <1>1, <2>1, <2>4, <2>5, <2>6 DEF AnswerOf, early
  <2>8. QED BY <2>3, <2>7 DEF AnswersOK
<1>8. CASE ~(pc \in Reports /\ Recorded(r))
  <2>1. /\ \A q : Finals(q)' = Finals(q)
        /\ UNCHANGED output
        /\ \A q \in Runs \ {r} : status'[q] = status[q]
        /\ status'[r] = status[r] \/ status'[r] \in {"cancelled",
                                                     "cancel_requested"}
        /\ status'[r] # status[r] => status[r] \in Active
    BY <1>1, <1>8, CommittedAnswer
  <2>2. \A q : HasAnswer(q)' = HasAnswer(q)
    BY <2>1 DEF HasAnswer
  <2>3. ASSUME NEW q \in Runs \ {r} PROVE AnswerOf(q)'
    BY <1>1, <2>1, <2>2 DEF AnswersOK, AnswerOf
  <2>4. u.pc # "ending" \/ u.ending # "run_completed"
    <3>1. pc = "response_final" => pc \in Reports /\ Recorded(r)
      BY <1>1 DEF Commits, Reports, Recording, Reading, Waiting
    <3>2. QED BY <1>4, <1>8, <3>1
  <2>5. AnswerOf(r)'
    <3>1. CASE status'[r] = status[r]
      BY <1>1, <1>3, <1>6, <2>1, <2>2, <2>4, <3>1 DEF AnswerOf, early
    <3>2. CASE status'[r] # status[r]
      <4>1. status[r] \in Active
            /\ status'[r] \in {"cancelled", "cancel_requested"}
        BY <2>1, <3>2
      <4>2. ~output[r]
        BY <1>6, <4>1 DEF AnswerOf, Active
      <4>3. QED BY <2>1, <4>1, <4>2 DEF AnswerOf
    <3>3. QED BY <3>1, <3>2
  <2>6. QED BY <2>3, <2>5 DEF AnswersOK
<1>9. QED BY <1>7, <1>8

\* A step of a task.
LEMMA TaskAnswers ==
  ASSUME TypeOK, TypeOK', Control, AnswersOK, NEW r \in Runs, TaskStep(r)
  PROVE  AnswersOK'
<1>1. ASSUME NEW u, Advances(r, u) PROVE AnswersOK'
  BY <1>1, AdvancesAnswer
\* A task that fails or is cancelled leaves the harness as it commits.
<1>2. ASSUME Raises(r) \/ Interrupts(r), Commits(r) PROVE AnswersOK'
  <2>1. /\ \A q \in Runs \ {r} : task'[q] = task[q]
        /\ task'[r].pc \notin Reading \cup InHarness
    <3>1. PICK u : /\ Becomes(r, u)
                   /\ u = Unwound(task[r]) \/ u = At(task[r], "raised")
      BY <1>2 DEF Raises, Interrupts
    <3>2. u.pc \notin Reading \cup InHarness
      <4>1. At(task[r], "raised").pc = "raised"
        BY GoesTo DEF Control
      <4>2. "raised" \notin Reading \cup InHarness
        BY DEF Reading, InHarness, Recording, Waiting
      <4>3. QED BY <3>1, <4>1, <4>2, UnwoundFields DEF Control
    <3>3. QED BY <3>1, <3>2 DEF Becomes, Control
  <2>2. "ending" \in InHarness
    BY DEF InHarness, Recording
  <2>3. AnswerOf(r)
    BY DEF AnswersOK
  <2>4. CASE task[r].pc \in Reports /\ Recorded(r)
    <3> DEFINE t == task[r]
               final == t.pc = "response_final"
                        /\ status'[r] \in {"queued", "running"}
    <3>1. /\ \A q \in Runs \ {r} : /\ Finals(q)' = Finals(q)
                                   /\ output'[q] = output[q]
                                   /\ status'[q] = status[q]
          /\ status[r] # "absent" /\ status'[r] # "absent"
          /\ ~final => Finals(r)' = Finals(r)
          /\ status[r] \notin Active =>
               status'[r] = status[r] /\ output'[r] = output[r]
          /\ status'[r] \in Active => output'[r] = output[r]
          /\ status[r] \in Active /\ status'[r] \in Ended =>
               /\ status'[r] = "completed" =>
                    /\ t.pc = "ending" /\ t.ending = "run_completed"
                    /\ status[r] \in {"queued", "running"}
               /\ output'[r] <=>
                    status'[r] # "cancelled" /\ t.ending = "run_completed"
               /\ t.ending = "run_completed" /\ t.pc = "ending" =>
                    status'[r] \in {"completed", "cancelled"}
               /\ t.pc \in {"ending", "forced_record"}
               /\ t.pc = "forced_record" => status'[r] = "cancelled"
      BY <2>4, RecordedAnswer
    <3>2. ASSUME NEW q \in Runs \ {r} PROVE AnswerOf(q)'
      <4>1. AnswerOf(q) /\ HasAnswer(q)' = HasAnswer(q)
        BY <3>1 DEF AnswersOK, HasAnswer
      <4>2. QED BY <2>1, <3>1, <4>1 DEF AnswerOf
    <3>3. status'[r] = "completed" => HasAnswer(r)'
      <4>1. status'[r] = "completed" =>
              /\ ~final
              /\ \/ status[r] = "completed"
                 \/ /\ t.pc = "ending" /\ t.ending = "run_completed"
                    /\ status[r] \in {"queued", "running"}
        BY <3>1 DEF Ended
      <4>2. ~final => HasAnswer(r)' = HasAnswer(r)
        BY <3>1 DEF HasAnswer
      <4>3. QED BY <2>3, <4>1, <4>2 DEF AnswerOf
    <3>4. output'[r] <=> status'[r] = "completed"
      <4>1. CASE status[r] \notin Active
        BY <2>3, <3>1, <4>1 DEF AnswerOf
      <4>2. CASE status[r] \in Active /\ status'[r] \in Active
        BY <2>3, <3>1, <4>2 DEF AnswerOf, Active
      <4>3. CASE status[r] \in Active /\ status'[r] \in Ended
        BY <3>1, <4>3
      <4>4. status'[r] \in Active \cup Ended
        BY <3>1 DEF TypeOK, Statuses
      <4>5. QED BY <4>1, <4>2, <4>3, <4>4
    <3>5. AnswerOf(r)'
      BY <2>1, <2>2, <3>1, <3>3, <3>4 DEF AnswerOf
    <3>6. QED BY <3>2, <3>5 DEF AnswersOK
  <2>5. CASE ~(task[r].pc \in Reports /\ Recorded(r))
    <3>1. /\ \A q : Finals(q)' = Finals(q)
          /\ UNCHANGED output
          /\ \A q \in Runs \ {r} : status'[q] = status[q]
          /\ status'[r] = status[r] \/ status'[r] \in {"cancelled",
                                                       "cancel_requested"}
          /\ status'[r] # status[r] => status[r] \in Active
      BY <1>2, <2>5, CommittedAnswer
    <3>2. ASSUME NEW q \in Runs \ {r} PROVE AnswerOf(q)'
      <4>1. AnswerOf(q) /\ HasAnswer(q)' = HasAnswer(q)
        BY <3>1 DEF AnswersOK, HasAnswer
      <4>2. QED BY <2>1, <3>1, <4>1 DEF AnswerOf
    <3>3. HasAnswer(r)' = HasAnswer(r)
      BY <3>1 DEF HasAnswer
    <3>4. AnswerOf(r)'
      BY <2>1, <2>2, <2>3, <3>1, <3>3 DEF AnswerOf, Active
    <3>5. QED BY <3>2, <3>4 DEF AnswersOK
  <2>6. QED BY <2>4, <2>5
<1>3. ASSUME Raises(r) \/ Interrupts(r), UNCHANGED <<dbVars, snapshot>>
      PROVE  AnswersOK'
  <2>1. \A q \in Runs : \/ task'[q] = task[q]
                        \/ task'[q].pc \notin Reading \cup InHarness
    <3>1. PICK u : /\ Becomes(r, u)
                   /\ u = Unwound(task[r]) \/ u = At(task[r], "raised")
      BY <1>3 DEF Raises, Interrupts
    <3>2. u.pc \notin Reading \cup InHarness
      <4>1. At(task[r], "raised").pc = "raised"
        BY GoesTo DEF Control
      <4>2. "raised" \notin Reading \cup InHarness
        BY DEF Reading, InHarness, Recording, Waiting
      <4>3. QED BY <3>1, <4>1, <4>2, UnwoundFields DEF Control
    <3>3. QED BY <3>1, <3>2 DEF Becomes, Control
  <2>2. UNCHANGED <<messages, status, output>>
    BY <1>3 DEF dbVars
  <2>3. QED BY <2>1, <2>2, RowsAnswers
<1>4. ASSUME Observe(r) PROVE AnswersOK'
  <2>1. \A q \in Runs : \/ task'[q] = task[q]
                        \/ task'[q].pc \notin Reading \cup InHarness
    BY <1>4, DoneFields
    DEF Observe, Control, Reading, InHarness, Recording, Waiting
  <2>2. UNCHANGED <<messages, status, output>>
    BY <1>4 DEF Observe, storeVars
  <2>3. QED BY <2>1, <2>2, RowsAnswers
<1>5. QED BY <1>1, <1>2, <1>3, <1>4 DEF TaskStep, Raises, Interrupts

\* A run that is created has no answer yet.
LEMMA CreateAnswers ==
  ASSUME TypeOK, Control, UsageOK, AnswersOK, NEW r \in Runs, SubmitCreate(r)
  PROVE  AnswersOK'
<1>1. /\ status[r] = "absent" /\ status' = [status EXCEPT ![r] = "queued"]
      /\ UNCHANGED output
      /\ messages' = Append(messages,
           [run |-> r, role |-> "user", calls |-> {}, observed |-> FALSE,
            accepted |-> TRUE])
      /\ task' = [task EXCEPT ![r] = NewTask] \/ task' = task
  BY DEF SubmitCreate, CreateRun
<1>2. [run |-> r, role |-> "user", calls |-> {}, observed |-> FALSE,
       accepted |-> TRUE] \in MessageRows
  BY DEF MessageRows, Roles
<1>3. \A q : Finals(q)' = Finals(q)
  BY <1>1, <1>2, FinalsAppended
<1>4. \A q : HasAnswer(q)' = HasAnswer(q)
  BY <1>3 DEF HasAnswer
<1>5. ASSUME NEW q \in Runs \ {r} PROVE AnswerOf(q)'
  BY <1>1, <1>3, <1>4 DEF AnswersOK, AnswerOf, TypeOK, Control
<1>6. AnswerOf(r)'
  <2>1. Finals(r) = {} /\ ~output[r] /\ status'[r] = "queued"
    BY <1>1 DEF AnswersOK, AnswerOf, TypeOK
  <2>2. task[r].pc = "absent"
    BY <1>1 DEF UsageOK, RowMatches
  <2>3. task'[r].pc # "ending"
    BY <1>1, <2>2, DoneFields DEF Control
  <2>4. QED BY <1>1, <1>3, <2>1, <2>3 DEF AnswerOf
<1>7. QED BY <1>5, <1>6 DEF AnswersOK

\* Every step keeps answers and outcomes in line.
LEMMA StepAnswers == Base /\ AnswersOK /\ [Next]_vars => AnswersOK'
<1> SUFFICES ASSUME Base, AnswersOK, [Next]_vars PROVE AnswersOK'
  OBVIOUS
<1> USE DEF Base
<1>1. ASSUME NEW r \in Runs, RunTask(r) PROVE AnswersOK'
  <2>1. TypeOK'
    BY BaseStoreStep, StepTypeOK
  <2>2. QED BY <1>1, <2>1, RunTaskStep, TaskAnswers
<1>2. ASSUME UNCHANGED <<messages, status, output, task>> PROVE AnswersOK'
  BY <1>2, RowsAnswers
<1>3. ASSUME \/ \E s \in Sessions : Submit(s)
             \/ SubmitGetSession \/ SubmitGetTaskState \/ SubmitConflict
             \/ SubmitFails
             \/ \E r \in Runs : RequestCancel(r)
             \/ ShutdownBegins \/ ShutdownForces \/ ShutdownEnds
             \/ \E a \in DOMAIN attempts : Reconcile(a)
             \/ UNCHANGED vars
      PROVE  AnswersOK'
  <2>1. UNCHANGED <<messages, status, output, task>>
    BY <1>3
    DEF Submit, SubmitGetSession, SubmitGetTaskState, GetTaskState,
        SubmitConflict, SubmitFails, RequestCancel, ShutdownBegins,
        ShutdownForces, ShutdownEnds, Reconcile, ResolveAttempt, vars,
        storeVars, dbVars, taskVars
  <2>2. QED BY <1>2, <2>1
<1>4. ASSUME NEW r \in Runs, SubmitCreate(r) PROVE AnswersOK'
  BY <1>4, CreateAnswers
<1>5. ASSUME NEW r \in Runs, CancelCommits(r) \/ CancelFails, task' = task
      PROVE  AnswersOK'
  <2>1. messages' = messages /\ output' = output
    BY <1>5 DEF CancelCommits, CancelRun, CancelFails, dbVars
  <2>2. \A q \in Runs :
          \/ status'[q] = status[q]
          \/ /\ status[q] \in Active
             /\ status'[q] \in {"cancelled", "cancel_requested", "interrupted"}
    BY <1>5 DEF CancelCommits, CancelRun, CancelFails, dbVars, TypeOK, Active
  <2>3. QED BY <1>5, <2>1, <2>2, RowsAnswers
<1>6. ASSUME NEW r \in Runs, CancelAnswered(r) PROVE AnswersOK'
  BY <1>5, <1>6 DEF CancelAnswered
<1>7. ASSUME ShutdownCancels PROVE AnswersOK'
  BY <1>5, <1>7 DEF ShutdownCancels, Control
<1>8. ASSUME ProcessEnds PROVE AnswersOK'
  <2>1. /\ UNCHANGED <<messages, status, output>>
        /\ \A q \in Runs : task'[q].pc \notin Reading \cup InHarness
    BY <1>8, DoneFields
    DEF ProcessEnds, dbVars, Reading, InHarness, Recording, Waiting
  <2>2. QED BY <2>1, RowsAnswers
<1>9. ASSUME Start PROVE AnswersOK'
  <2>1. /\ messages' = messages /\ task' = task
        /\ \A q \in Runs : /\ output'[q] <=> output[q] /\ status[q] \notin Active
                           /\ status'[q] = IF status[q] \in Active
                                           THEN RecoveredStatus(status[q])
                                           ELSE status[q]
    BY <1>9 DEF Start, Recover, taskVars
  <2>2. \A q \in Runs : status[q] \in Active =>
          /\ status'[q] \in {"cancelled", "interrupted"}
          /\ status'[q] # status[q]
    BY <2>1 DEF RecoveredStatus, Active
  <2>3. QED BY <2>1, <2>2, RowsAnswers
<1>10. QED
  BY <1>1, <1>3, <1>4, <1>6, <1>7, <1>8, <1>9 DEF Next, Submission, Shutdown

\* A run has an accepted final message exactly when it has an answer to give or
\* gave one, in every reachable state.
THEOREM AnswersHold == Spec => []AnswersOK
<1>1. Init => AnswersOK
  <2> SUFFICES ASSUME Init PROVE AnswersOK
    OBVIOUS
  <2>1. \A r \in Runs : Finals(r) = {}
    BY DEF Init, StoreInit, Finals
  <2>2. \A r \in Runs : status[r] = "absent" /\ output[r] = FALSE
    BY DEF Init, StoreInit
  <2>3. QED BY <2>1, <2>2 DEF AnswersOK, AnswerOf
<1>2. QED BY <1>1, StepAnswers, BaseHolds, PTL DEF Spec

\* A run is completed with exactly one accepted final answer, and only then has
\* an output.
THEOREM CompletedRunsAnswered == Spec => []CompletedWithAnswer
<1>1. AnswersOK => CompletedWithAnswer
  <2> SUFFICES ASSUME AnswersOK, NEW r \in Runs
               PROVE  /\ output[r] <=> status[r] = "completed"
                      /\ status[r] = "completed" => Cardinality(Finals(r)) = 1
    BY DEF CompletedWithAnswer, Finals
  <2>1. AnswerOf(r)
    BY DEF AnswersOK
  <2>2. HasAnswer(r) => Cardinality(Finals(r)) = 1
    BY FS_Singleton DEF HasAnswer
  <2>3. QED BY <2>1, <2>2 DEF AnswerOf
<1>2. QED BY <1>1, AnswersHold, PTL

-----------------------------------------------------------------------------
(* The usage of a run is what its log says *)

\* How often x stands in a log.
Occurs(log, x) == Cardinality({i \in DOMAIN log : log[i] = x})

\* One more event counts once, or not at all.
LEMMA OneMore ==
  ASSUME NEW log \in Seq(EventRows), NEW e \in EventRows, NEW x
  PROVE  /\ Occurs(log, x) \in Nat
         /\ Occurs(Append(log, e), x) =
              Occurs(log, x) + (IF e = x THEN 1 ELSE 0)
<1> DEFINE n == Len(log)
           old == {i \in DOMAIN log : log[i] = x}
           new == {i \in DOMAIN Append(log, e) : Append(log, e)[i] = x}
<1>1. /\ n \in Nat /\ DOMAIN log = 1 .. n
      /\ DOMAIN Append(log, e) = 1 .. n + 1
      /\ \A i \in 1 .. n : Append(log, e)[i] = log[i]
      /\ Append(log, e)[n + 1] = e
  BY AppendFacts, LenProperties
<1>2. IsFiniteSet(old)
  <2>1. IsFiniteSet(1 .. n) /\ old \in SUBSET (1 .. n)
    BY <1>1, FS_Interval
  <2>2. QED BY <2>1, FS_Subset
<1>3. n + 1 \notin old
  BY <1>1
<1>4. /\ Cardinality(old) \in Nat
      /\ Cardinality(old \cup {n + 1}) = Cardinality(old) + 1
  BY <1>2, <1>3, FS_AddElement, FS_CardinalityType
<1>5. new = IF e = x THEN old \cup {n + 1} ELSE old
  BY <1>1
<1> HIDE DEF old, new
<1>6. Cardinality(new) = Cardinality(old) + (IF e = x THEN 1 ELSE 0)
  BY <1>4, <1>5
<1>7. QED BY <1>4, <1>6 DEF Occurs, old, new

\* A queued run that is cancelled gets two events at once.
LEMMA TwoMore ==
  ASSUME NEW log \in Seq(EventRows), NEW d \in EventRows, NEW e \in EventRows,
         NEW x, x \notin {d, e}
  PROVE  Occurs(log \o <<d, e>>, x) = Occurs(log, x)
<1> DEFINE n == Len(log)
<1>1. /\ n \in Nat /\ DOMAIN log = 1 .. n
      /\ DOMAIN (log \o <<d, e>>) = 1 .. n + 2
      /\ \A i \in 1 .. n : (log \o <<d, e>>)[i] = log[i]
      /\ (log \o <<d, e>>)[n + 1] = d
      /\ (log \o <<d, e>>)[n + 2] = e
  BY AppendTwoFacts, LenProperties
<1>2. {i \in DOMAIN (log \o <<d, e>>) : (log \o <<d, e>>)[i] = x}
        = {i \in DOMAIN log : log[i] = x}
  BY <1>1
<1>3. QED BY <1>2 DEF Occurs

\* The events that count, and a usage with such an event on top.
Counting == {Logical("model_request_started"), Logical("tool_call_requested")}
Plus(used, e) ==
  [steps |-> used.steps +
     (IF e = Logical("model_request_started") THEN 1 ELSE 0),
   calls |-> used.calls +
     (IF e = Logical("tool_call_requested") THEN 1 ELSE 0)]

\* What a step of the store does to the usage and the log of run q.  When the
\* run ends the usage is the one of the caller.
CountStep(q) ==
  \/ events'[q] = events[q] /\ usage'[q] = usage[q]
  \/ CancelsQueued(q) /\ usage'[q] = usage[q]
  \/ \E e \in EventRows :
       /\ events'[q] = Append(events[q], e)
       /\ \/ usage'[q] = Plus(usage[q], e)
          \/ /\ e \notin Counting
             /\ status[q] \in Active /\ status'[q] \in Ended

\* An event of another kind leaves the count.
LEMMA PlusNothing ==
  ASSUME TypeOK, NEW q \in Runs, NEW e, e \notin Counting
  PROVE  Plus(usage[q], e) = usage[q]
<1>1. /\ usage[q].steps \in Nat /\ usage[q].calls \in Nat
      /\ usage[q] = [steps |-> usage[q].steps, calls |-> usage[q].calls]
  BY DEF TypeOK, Usages
<1>2. QED BY <1>1 DEF Plus, Counting

\* record_event counts the event it writes.
LEMMA ReportCounts ==
  ASSUME TypeOK, NEW r \in Runs, NEW kind \in ReportKinds, Report(r, kind),
         NEW q \in Runs
  PROVE  CountStep(q)
<1>0. PICK type \in TypesOf(kind), role \in RolesOf(kind), own \in OwnRuns(r) :
        \E calls \in CallsOf(role) :
          RecordEvent(r, Event(kind, type), role, calls, own)
  BY DEF Report
<1>1. PICK calls \in CallsOf(role) :
        RecordEvent(r, Event(kind, type), role, calls, own)
  BY <1>0
<1> DEFINE next == StatusAfter(r, kind)
           written == KindWritten(r, kind)
           e == Event(written, type)
           ends == status[r] \in Active /\ next \in Ended
           counted == IF ends THEN own.usage ELSE usage[r]
<1>2. CASE q # r
  BY <1>1, <1>2 DEF RecordEvent, AppendEvent, TypeOK, CountStep
<1>3. CASE q = r
  <2>1. e \in EventRows
    BY RecordedKinds DEF Event, EventRows, TypesOf, RecordTypes
  <2>2. Event(kind, type).kind = kind /\ Event(kind, type).type = type
    BY DEF Event
  <2>3. /\ status'[r] = next /\ events'[r] = Append(events[r], e)
        /\ usage'[r] =
             [steps |-> counted.steps +
                (IF written = "model_request_started"
                    /\ type # "provider_attempt" THEN 1 ELSE 0),
              calls |-> counted.calls +
                (IF written = "tool_call_requested" THEN 1 ELSE 0)]
    BY <1>1, <2>2 DEF RecordEvent, AppendEvent, TypeOK
  <2>4. /\ e = Logical("model_request_started") <=>
             written = "model_request_started" /\ type # "provider_attempt"
        /\ e = Logical("tool_call_requested") <=>
             written = "tool_call_requested"
    <3>1. written = "tool_call_requested" => kind = "tool_call_requested"
      BY DEF KindWritten, EndKind
    <3>2. type \in {"logical", "provider_attempt"}
      BY DEF TypesOf
    <3>3. kind = "tool_call_requested" => type = "logical"
      BY DEF TypesOf
    <3>4. QED BY <3>1, <3>2, <3>3 DEF Logical, Event
  <2> HIDE DEF e
  <2>5. CASE ends
    <3>1. written \in EndKinds
      BY <2>5, RecordedKinds
      DEF KindWritten, StatusAfter, EndKind, EndKinds, TerminalKinds, Active,
          Ended, ProgressKinds
    <3>2. e \notin Counting
      BY <2>4, <3>1 DEF Counting, EndKinds, TerminalKinds
    <3>3. QED BY <1>3, <2>1, <2>3, <2>5, <3>2 DEF CountStep
  <2>6. CASE ~ends
    <3>1. usage'[r] = Plus(usage[r], e)
      BY <2>3, <2>4, <2>6 DEF Plus
    <3>2. QED BY <1>3, <2>1, <2>3, <3>1 DEF CountStep
  <2>7. QED BY <2>5, <2>6
<1>4. QED BY <1>2, <1>3

\* Every other operation leaves the usage and writes nothing that counts.
LEMMA StoreCounts ==
  ASSUME TypeOK, [StoreNext]_storeVars, NEW q \in Runs
  PROVE  CountStep(q)
<1>1. ASSUME NEW d, d.kind \notin {"model_request_started",
                                   "tool_call_requested"},
             d \in EventRows, events'[q] \in {events[q], Append(events[q], d)},
             usage' = usage
      PROVE  CountStep(q)
  <2>1. d \notin Counting
    BY <1>1 DEF Counting, Logical, Event
  <2>2. QED BY <1>1, <2>1, PlusNothing DEF CountStep
<1>2. CASE UNCHANGED storeVars \/ Quarantine \/ Open
  BY <1>2 DEF storeVars, dbVars, Quarantine, Open, CountStep
<1>3. CASE Commit
  <2>1. ASSUME NEW s \in Sessions, GetTaskState(s) PROVE CountStep(q)
    BY <2>1 DEF GetTaskState, dbVars, CountStep
  <2>2. ASSUME NEW r \in Runs, NEW s \in Sessions, CreateRun(r, s)
        PROVE  CountStep(q)
    <3>1. PICK d \in EventRows : d = Logical("run_queued")
      BY DEF Logical, Event, EventRows, EventKinds, RecordTypes
    <3>2. /\ usage' = usage
          /\ events' = [events EXCEPT ![r] = Append(@, d)]
      BY <2>2, <3>1 DEF CreateRun, AppendEvent
    <3>3. d.kind = "run_queued"
      BY <3>1 DEF Logical, Event
    <3>4. QED BY <1>1, <3>2, <3>3 DEF TypeOK
  <2>3. ASSUME NEW r \in Runs, NEW kind \in ReportKinds, Report(r, kind)
        PROVE  CountStep(q)
    BY <2>3, ReportCounts
  <2>4. ASSUME NEW r \in Runs, CancelRun(r) PROVE CountStep(q)
    <3>1. PICK d \in EventRows : d = Logical("run_cancel_requested")
      BY DEF Logical, Event, EventRows, EventKinds, ProgressKinds, RecordTypes
    <3>2. d.kind = "run_cancel_requested"
      BY <3>1 DEF Logical, Event
    <3>3. CASE q # r \/ status[r] # "queued"
      <4>1. /\ usage' = usage
            /\ events'[q] \in {events[q], Append(events[q], d)}
        BY <2>4, <3>1, <3>3 DEF CancelRun, AppendEvent, TypeOK
      <4>2. QED BY <1>1, <3>2, <4>1
    <3>4. CASE q = r /\ status[r] = "queued"
      BY <2>4, <3>4 DEF CancelRun, CancelsQueued, CountStep, TypeOK, Ended
    <3>5. QED BY <3>3, <3>4
  <2>5. ASSUME NEW r \in Runs, Begin(r) PROVE CountStep(q)
    <3>1. PICK d \in EventRows :
            d = Event("tool_execution_started", "attempt_intent")
      BY DEF Event, EventRows, EventKinds, ProgressKinds, RecordTypes
    <3>2. d.kind = "tool_execution_started"
      BY <3>1 DEF Event
    <3>3. /\ usage' = usage
          /\ events' = [events EXCEPT ![r] = Append(@, d)]
      BY <2>5, <3>1 DEF Begin, BeginAttempt, AppendEvent
    <3>4. QED BY <1>1, <3>2, <3>3 DEF TypeOK
  <2>6. ASSUME NEW a \in DOMAIN attempts, Finish(a) PROVE CountStep(q)
    <3>1. PICK d \in [kind : {"tool_execution_completed", "tool_execution_failed"},
                      type : {"attempt_result"}] :
            events' = [events EXCEPT ![attempts[a].run] = Append(@, d)]
      BY <2>6 DEF Finish, EndAttempt, AppendEvent, Event
    <3>2. usage' = usage
      BY <2>6 DEF Finish, EndAttempt
    <3>3. d \in EventRows
      BY DEF EventRows, EventKinds, ProgressKinds, RecordTypes
    <3>4. QED BY <1>1, <3>1, <3>2, <3>3 DEF TypeOK
  <2>7. ASSUME NEW a \in DOMAIN attempts, ResolveAttempt(a) PROVE CountStep(q)
    <3>1. PICK d \in EventRows : d = Logical("tool_outcome_reconciled")
      BY DEF Logical, Event, EventRows, EventKinds, RecordTypes
    <3>2. d.kind = "tool_outcome_reconciled"
      BY <3>1 DEF Logical, Event
    <3>3. /\ usage' = usage
          /\ events' = [events EXCEPT ![attempts[a].run] = Append(@, d)]
      BY <2>7, <3>1 DEF ResolveAttempt, AppendEvent
    <3>4. QED BY <1>1, <3>2, <3>3 DEF TypeOK
  <2>8. ASSUME Recover PROVE CountStep(q)
    <3>1. PICK d \in EventRows :
            d = Logical(EndKind(RecoveredStatus(status[q])))
      <4>1. RecoveredStatus(status[q]) \in {"cancelled", "interrupted"}
        BY DEF RecoveredStatus
      <4>2. EndKind(RecoveredStatus(status[q])) \in EventKinds
        BY <4>1 DEF EndKind, EventKinds, EndKinds, TerminalKinds
      <4>3. QED BY <4>2 DEF Logical, Event, EventRows, RecordTypes
    <3>2. d.kind \notin {"model_request_started", "tool_call_requested"}
      BY <3>1 DEF Logical, Event, EndKind
    <3>3. usage' = usage /\ events'[q] \in {events[q], Append(events[q], d)}
      BY <2>8, <3>1 DEF Recover
    <3>4. QED BY <1>1, <3>2, <3>3
  <2>9. QED
    BY <1>3, <2>1, <2>2, <2>3, <2>4, <2>5, <2>6, <2>7, <2>8
    DEF Commit, Operation
<1>4. QED BY <1>2, <1>3 DEF StoreNext

\* No task was cancelled natively, and none unwinds from such a cancellation.
Unforced == interrupted = {} /\ \A r \in Runs : task[r].pc \notin Forced

\* Only the end of the grace period cancels a task natively.
LEMMA StepUnforced ==
  ASSUME Base, Unforced, "force" \notin Disturbances, [Next]_vars
  PROVE  Unforced'
<1>1. \A pc \in {"absent", "done", "raised", "get_run"} : pc \notin Forced
  BY DEF Forced
<1>2. ASSUME interrupted' = interrupted, UNCHANGED task PROVE Unforced'
  BY <1>2 DEF Unforced
<1>3. ASSUME NEW r \in Runs, NEW u, task' = [task EXCEPT ![r] = u],
             u.pc \notin Forced, interrupted' = interrupted
      PROVE  Unforced'
  BY <1>3 DEF Unforced, Base, Control
<1>4. ASSUME NEW r \in Runs, TaskStep(r) PROVE Unforced'
  <2> DEFINE t == task[r]
  <2>1. Shape(t) /\ t.pc \notin Forced /\ r \notin interrupted
    BY DEF Unforced, Base, Control
  <2>2. ASSUME NEW u, Advances(r, u) PROVE Unforced'
    <3>1. /\ task' = [task EXCEPT ![r] = u] /\ NextPoint(r, t, u)
          /\ interrupted' = interrupted /\ Commits(r)
      BY <2>2 DEF Advances, Becomes, Leads
    <3>2. t.pc \in Live
      BY <3>1 DEF Commits, Live, Reports, Forced, Recording
    <3>3. u.pc \notin Forced
      BY <2>1, <3>1, <3>2
      DEF NextPoint, Live, InLoop, InHarness, Reading, Recording, Waiting,
          Forced
    <3>4. QED BY <1>3, <3>1, <3>3
  <2>3. ASSUME Raises(r) PROVE Unforced'
    <3>1. /\ task' = [task EXCEPT ![r] = At(t, "raised")]
          /\ At(t, "raised").pc = "raised" /\ interrupted' = interrupted
      BY <2>1, <2>3, GoesTo DEF Raises, Becomes
    <3>2. QED BY <1>1, <1>3, <3>1
  <2>4. ASSUME Observe(r) PROVE Unforced'
    <3>1. /\ task' = [task EXCEPT ![r] = At(NoTask, "done")]
          /\ At(NoTask, "done").pc = "done" /\ interrupted' = interrupted
      BY <2>4, DoneFields DEF Observe
    <3>2. QED BY <1>1, <1>3, <3>1
  <2>5. QED BY <1>4, <2>1, <2>2, <2>3, <2>4 DEF TaskStep, Interrupts
<1>5. ASSUME NEW r \in Runs, RunTask(r) PROVE Unforced'
  BY <1>4, <1>5, RunTaskStep DEF Base
<1>6. ASSUME NEW s \in Sessions, Submit(s) PROVE Unforced'
  BY <1>2, <1>6 DEF Submit, taskVars
<1>7. ASSUME SubmitGetSession \/ SubmitConflict \/ SubmitFails
             \/ SubmitGetTaskState
      PROVE  Unforced'
  <2>1. SubmitGetSession \/ SubmitConflict \/ SubmitGetTaskState
          => UNCHANGED <<task, interrupted>>
    BY DEF SubmitGetSession, SubmitConflict, SubmitGetTaskState, SubmitTo, taskVars
  <2>2. SubmitFails => UNCHANGED <<task, interrupted>>
    BY DEF SubmitFails, taskVars
  <2>3. QED BY <1>2, <1>7, <2>1, <2>2
<1>8. ASSUME NEW r \in Runs, SubmitCreate(r) PROVE Unforced'
  <2>1. interrupted' = interrupted
    BY <1>8 DEF SubmitCreate
  <2>2. NewTask.pc = "get_run"
    BY DoneFields
  <2>3. QED BY <1>1, <1>2, <1>3, <1>8, <2>1, <2>2 DEF SubmitCreate
<1>9. ASSUME NEW r \in Runs, RequestCancel(r) \/ CancelAnswered(r)
      PROVE  Unforced'
  BY <1>2, <1>9 DEF RequestCancel, CancelAnswered, taskVars
<1>10. ASSUME ShutdownBegins \/ ShutdownCancels \/ ShutdownForces
              \/ ShutdownEnds
       PROVE  Unforced'
  BY <1>2, <1>10
  DEF ShutdownBegins, ShutdownCancels, ShutdownForces, ShutdownEnds, taskVars
<1>11. ASSUME ProcessEnds PROVE Unforced'
  <2>1. interrupted' = {} /\ \A r \in Runs : task'[r].pc = "absent"
    BY <1>11, DoneFields DEF ProcessEnds
  <2>2. QED BY <1>1, <2>1 DEF Unforced
<1>12. ASSUME Start PROVE Unforced'
  BY <1>2, <1>12 DEF Start, taskVars
<1>13. ASSUME NEW a \in DOMAIN attempts, Reconcile(a) PROVE Unforced'
  BY <1>2, <1>13 DEF Reconcile, taskVars
<1>14. ASSUME UNCHANGED vars PROVE Unforced'
  BY <1>2, <1>14 DEF vars, taskVars
<1>15. QED
  BY <1>5, <1>6, <1>7, <1>8, <1>9, <1>10, <1>11, <1>12, <1>13, <1>14
  DEF Next, Submission, Shutdown

\* When a task ends its run the Run object has the usage of the row.
LEMMA TaskEndUsage ==
  ASSUME Base, Unforced, NEW r \in Runs, Commits(r),
         status[r] \in Active, status'[r] \in Ended
  PROVE  usage'[r] = usage[r]
<1> DEFINE t == task[r]
<1>1. Shape(t) /\ t \in Tasks /\ t.pc \notin Forced
  BY DEF Base, Control, Shape, Unforced
<1>2. ASSUME ~(t.pc \in Reports /\ Recorded(r)) PROVE usage' = usage
  BY <1>2
  DEF Commits, dbVars, Begun, BeginAttempt, EndAttempt, CancelRun
<1>3. CASE t.pc \in Reports /\ Recorded(r)
  <2> DEFINE kind == KindOf(t)
             own == OwnRun(t)
  <2>1. /\ kind \in ReportKinds
        /\ kind \in TerminalKinds <=> t.pc = "ending"
    BY <1>1, <1>3, KindsReported DEF Forced
  <2>2. RecordEvent(r, Logical(kind), RoleOf(t), CallsIn(t, RoleOf(t)), own)
    BY <1>3 DEF Recorded
  <2>3. Logical(kind).kind = kind
    BY DEF Logical, Event
  <2>4. status'[r] = StatusAfter(r, kind)
    BY <2>2, <2>3 DEF RecordEvent, Base, TypeOK
  <2>5. kind \in TerminalKinds
    BY <2>4 DEF StatusAfter, Active, Ended
  <2>6. KindWritten(r, kind) \in EndKinds
    BY <2>4, <2>5 DEF KindWritten, EndKind, EndKinds, TerminalKinds
  <2>7. usage'[r] = [steps |-> own.usage.steps + 0,
                     calls |-> own.usage.calls + 0]
    <3>1. /\ KindWritten(r, kind) # "model_request_started"
          /\ KindWritten(r, kind) # "tool_call_requested"
      BY <2>6 DEF EndKinds, TerminalKinds
    <3>2. QED BY <2>2, <2>3, <2>4, <3>1 DEF RecordEvent, Base, TypeOK
  <2>8. own.usage.steps = t.steps /\ own.usage.calls = t.calls
    BY DEF OwnRun
  <2>9. t.steps \in Int /\ t.calls \in Int
    BY <1>1, LimitsAssumption DEF Tasks
  <2>10. usage[r] = [steps |-> t.steps, calls |-> t.calls]
    <3>1. t.pc = "ending"
      BY <2>1, <2>5
    <3>2. usage[r] = Counted(t)
      BY <3>1 DEF Base, UsageOK, RowMatches, InHarness, Recording
    <3>3. QED BY <3>1, <3>2 DEF Counted
  <2>11. usage'[r] = [steps |-> t.steps, calls |-> t.calls]
    BY <2>7, <2>8, <2>9
  <2>12. QED BY <2>10, <2>11
<1>4. QED BY <1>2, <1>3

\* So when a run ends its usage is the one the store counted.
LEMMA EndUsage ==
  ASSUME Base, Unforced, [Next]_vars, NEW q \in Runs,
         status[q] \in Active, status'[q] \in Ended
  PROVE  usage'[q] = usage[q]
<1>1. ASSUME NEW r \in Runs, RunTask(r) PROVE usage'[q] = usage[q]
  <2>1. TaskStep(r)
    BY <1>1, RunTaskStep DEF Base
  <2>2. Commits(r) \/ status'[q] = status[q]
    BY <2>1
    DEF TaskStep, Advances, Raises, Interrupts, Observe, dbVars, storeVars
  <2>3. Commits(r)
    BY <2>2 DEF Active, Ended
  <2>4. CASE q # r
    BY <2>3, <2>4, CommittedRow DEF Base
  <2>5. CASE q = r
    BY <2>3, <2>5, TaskEndUsage
  <2>6. QED BY <2>4, <2>5
<1>2. CASE \/ \E s \in Sessions : Submit(s)
           \/ Submission
           \/ \E r \in Runs : RequestCancel(r) \/ CancelAnswered(r)
           \/ ShutdownBegins \/ Shutdown
           \/ ProcessEnds \/ Start
           \/ \E a \in DOMAIN attempts : Reconcile(a)
           \/ UNCHANGED vars
  <2>1. ASSUME NEW s \in Sessions, Submit(s) PROVE usage' = usage
    BY <2>1 DEF Submit, storeVars
  <2>2. ASSUME SubmitGetSession \/ SubmitConflict \/ SubmitFails
               \/ SubmitGetTaskState
        PROVE  usage' = usage
    BY <2>2 DEF SubmitGetSession, SubmitConflict, SubmitFails,
                SubmitGetTaskState, GetTaskState, dbVars
  <2>3. ASSUME NEW r \in Runs, SubmitCreate(r) PROVE usage' = usage
    BY <2>3 DEF SubmitCreate, CreateRun
  <2>4. ASSUME NEW r, CancelCommits(r) \/ CancelFails PROVE usage' = usage
    BY <2>4 DEF CancelCommits, CancelRun, CancelFails, dbVars
  <2>5. ASSUME NEW r \in Runs, RequestCancel(r) \/ CancelAnswered(r)
        PROVE  usage' = usage
    BY <2>4, <2>5 DEF RequestCancel, CancelAnswered, storeVars
  <2>6. ASSUME ShutdownCancels PROVE usage' = usage
    BY <2>4, <2>6 DEF ShutdownCancels
  <2>7. ASSUME ShutdownBegins \/ ShutdownForces \/ ShutdownEnds \/ ProcessEnds
        PROVE  usage' = usage
    BY <2>7 DEF ShutdownBegins, ShutdownForces, ShutdownEnds, ProcessEnds,
                storeVars, dbVars
  <2>8. ASSUME Start PROVE usage' = usage
    BY <2>8 DEF Start, Recover
  <2>9. ASSUME NEW a \in DOMAIN attempts, Reconcile(a) PROVE usage' = usage
    BY <2>9 DEF Reconcile, ResolveAttempt
  <2>10. UNCHANGED vars => usage' = usage
    BY DEF vars, storeVars
  <2>11. QED
    BY <1>2, <2>1, <2>2, <2>3, <2>5, <2>6, <2>7, <2>8, <2>9, <2>10
    DEF Submission, Shutdown
<1>3. QED BY <1>1, <1>2 DEF Next

\* A step keeps usage and log alike.
LEMMA StepLogged ==
  ASSUME Base, Unforced, UsageMatchesLog, [Next]_vars
  PROVE  UsageMatchesLog'
<1> SUFFICES ASSUME NEW q \in Runs
             PROVE  /\ usage'[q].steps =
                         Occurs(events'[q], Logical("model_request_started"))
                    /\ usage'[q].calls =
                         Occurs(events'[q], Logical("tool_call_requested"))
  BY DEF UsageMatchesLog, Logged, Occurs
<1>1. /\ usage[q].steps = Occurs(events[q], Logical("model_request_started"))
      /\ usage[q].calls = Occurs(events[q], Logical("tool_call_requested"))
  BY DEF UsageMatchesLog, Logged, Occurs
<1>2. TypeOK /\ CountStep(q) /\ events[q] \in Seq(EventRows)
  BY BaseStoreStep, StoreCounts DEF Base, TypeOK
<1>3. CASE events'[q] = events[q] /\ usage'[q] = usage[q]
  BY <1>1, <1>3
<1>4. CASE CancelsQueued(q) /\ usage'[q] = usage[q]
  <2>1. /\ Logical("run_cancel_requested") \in EventRows
        /\ Logical("run_cancelled") \in EventRows
    BY DEF Logical, Event, EventRows, EventKinds, ProgressKinds, EndKinds,
           TerminalKinds, RecordTypes
  <2>2. \A x \in Counting : /\ x # Logical("run_cancel_requested")
                            /\ x # Logical("run_cancelled")
    BY DEF Counting, Logical, Event
  <2>3. \A x \in Counting : Occurs(events'[q], x) = Occurs(events[q], x)
    BY <1>2, <1>4, <2>1, <2>2, TwoMore DEF CancelsQueued
  <2>4. QED BY <1>1, <1>4, <2>3 DEF Counting
<1>5. ASSUME NEW e \in EventRows, events'[q] = Append(events[q], e),
             usage'[q] = Plus(usage[q], e)
      PROVE  /\ usage'[q].steps =
                  Occurs(events'[q], Logical("model_request_started"))
             /\ usage'[q].calls =
                  Occurs(events'[q], Logical("tool_call_requested"))
  BY <1>1, <1>2, <1>5, OneMore DEF Plus
<1>6. ASSUME NEW e \in EventRows, e \notin Counting,
             status[q] \in Active, status'[q] \in Ended
      PROVE  usage'[q] = Plus(usage[q], e)
  BY <1>2, <1>6, EndUsage, PlusNothing
<1>7. QED BY <1>2, <1>3, <1>4, <1>5, <1>6 DEF CountStep

\* The usage of a run is the number of requests and calls in its log, wherever
\* the run ends, as long as the service does not cut its tasks off.
THEOREM UsageIsLogged ==
  "force" \notin Disturbances => (Spec => []UsageMatchesLog)
<1>1. Init => Unforced /\ UsageMatchesLog
  <2> SUFFICES ASSUME Init PROVE Unforced /\ UsageMatchesLog
    OBVIOUS
  <2>1. Unforced
    BY DoneFields DEF Init, Unforced, Forced
  <2>2. ASSUME NEW r \in Runs
        PROVE  usage[r] = NoUsage /\ events[r] = <<>>
    BY DEF Init, StoreInit
  <2>3. \A x : Cardinality({i \in DOMAIN <<>> : <<>>[i] = x}) = 0
    <3>1. \A x : {i \in DOMAIN <<>> : <<>>[i] = x} = {}
      OBVIOUS
    <3>2. QED BY <3>1, FS_EmptySet
  <2>4. \A r \in Runs, kind \in {"model_request_started", "tool_call_requested"} :
          Logged(r, kind) = 0
    BY <2>2, <2>3 DEF Logged
  <2>5. \A r \in Runs : usage[r].steps = 0 /\ usage[r].calls = 0
    BY <2>2 DEF NoUsage
  <2>6. QED BY <2>1, <2>4, <2>5 DEF UsageMatchesLog
<1>2. ASSUME "force" \notin Disturbances
      PROVE  Base /\ Unforced /\ UsageMatchesLog /\ [Next]_vars
               => Unforced' /\ UsageMatchesLog'
  BY <1>2, StepUnforced, StepLogged
<1> SUFFICES ASSUME "force" \notin Disturbances
             PROVE  Spec => []UsageMatchesLog
  OBVIOUS
<1>3. Base /\ Unforced /\ UsageMatchesLog /\ [Next]_vars
        => Unforced' /\ UsageMatchesLog'
  BY <1>2
<1>4. QED BY <1>1, <1>3, BaseHolds, PTL DEF Spec

-----------------------------------------------------------------------------
(* The row of a task *)

\* Task t of run r works on the row of attempt n of its call.
Placed(r, t, n) ==
  /\ t.row \in DOMAIN attempts
  /\ attempts[t.row].run = r
  /\ attempts[t.row].exec = t.calls
  /\ attempts[t.row].number = n

\* What the row of a task is, at each of its points.
InRow(r, t) ==
  /\ t.pc \in {"call_tool", "tool", "end_attempt"} =>
       /\ Placed(r, t, t.number)
       /\ attempts[t.row].state = "pending"
       /\ attempts[t.row].retry_safe = t.call.retry_safe
  /\ t.pc \in {"retry_failed", "retry_wait"} =>
       /\ Placed(r, t, t.number)
       /\ attempts[t.row].state = "failed" /\ attempts[t.row].retry_safe
  /\ t.pc \in {"retry_started", "begin_attempt"} /\ t.number # 1 =>
       /\ Placed(r, t, t.number - 1)
       /\ attempts[t.row].state = "failed" /\ attempts[t.row].retry_safe
  /\ t.pc \in {"tool_call_requested", "tool_execution_started",
               "discover_tools"} => t.number = 1

\* The attempts are attempts of calls the model made.
CallOf(a) ==
  [key |-> attempts[a].key, retry_safe |-> attempts[a].retry_safe]

\* The inductive invariant.
Attempted ==
  /\ dispatched \subseteq DOMAIN attempts
  /\ \A a \in DOMAIN attempts : CallOf(a) \in Calls
  /\ \A r \in Runs : InRow(r, task[r])
  /\ RetryFollowsFailure

\* Settling rows leaves what they are attempts of, and never takes a failure
\* back.
Settles ==
  /\ DOMAIN attempts' = DOMAIN attempts
  /\ \A a \in DOMAIN attempts :
       /\ attempts'[a].run = attempts[a].run
       /\ attempts'[a].exec = attempts[a].exec
       /\ attempts'[a].number = attempts[a].number
       /\ attempts'[a].key = attempts[a].key
       /\ attempts'[a].retry_safe = attempts[a].retry_safe
       /\ attempts[a].state \in {"failed", "reconciled"} =>
            attempts'[a].state \in {"failed", "reconciled"}

\* The rows that stay as they are.
KeepsRow(a) == a \in DOMAIN attempts' /\ attempts'[a] = attempts[a]

\* Settling a row keeps what Attempted says of the rows.
LEMMA SettledRows ==
  ASSUME TypeOK, Attempted, Settles, dispatched' \subseteq DOMAIN attempts
  PROVE  /\ dispatched' \subseteq DOMAIN attempts'
         /\ \A a \in DOMAIN attempts' : CallOf(a)' \in Calls
         /\ RetryFollowsFailure'
<1>1. \A a \in DOMAIN attempts' : CallOf(a)' \in Calls
  BY DEF Attempted, Settles, CallOf
<1>2. RetryFollowsFailure'
  <2> SUFFICES ASSUME NEW a \in DOMAIN attempts, attempts'[a].number > 1
               PROVE  \E b \in 1 .. a - 1 :
                        /\ attempts'[b].run = attempts'[a].run
                        /\ attempts'[b].exec = attempts'[a].exec
                        /\ attempts'[b].number = attempts'[a].number - 1
                        /\ attempts'[b].state \in {"failed", "reconciled"}
                        /\ attempts'[b].retry_safe
    BY DEF RetryFollowsFailure, Settles
  <2>1. attempts[a].number > 1
    BY DEF Settles
  <2>2. PICK b \in 1 .. a - 1 :
          /\ attempts[b].run = attempts[a].run
          /\ attempts[b].exec = attempts[a].exec
          /\ attempts[b].number = attempts[a].number - 1
          /\ attempts[b].state \in {"failed", "reconciled"}
          /\ attempts[b].retry_safe
    BY <2>1 DEF Attempted, RetryFollowsFailure
  <2>3. b \in DOMAIN attempts
    BY LenProperties DEF TypeOK
  <2>4. QED BY <2>2, <2>3 DEF Settles
<1>3. QED BY <1>1, <1>2 DEF Settles

\* A task whose row is left alone stays in it.
LEMMA InRowKept ==
  ASSUME NEW r, NEW t, InRow(r, t),
         t.row \in DOMAIN attempts /\ attempts[t.row].run = r =>
           KeepsRow(t.row)
  PROVE  InRow(r, t)'
BY DEF InRow, Placed, KeepsRow

\* The row that end_attempt or resolve_attempt writes.
LEMMA SettledRow ==
  ASSUME TypeOK, NEW a \in DOMAIN attempts, NEW state, NEW code, NEW unknown,
         attempts' = [attempts EXCEPT ![a].state = state, ![a].code = code,
                                      ![a].outcome_unknown = unknown],
         attempts[a].state = "pending" \/ state \in {"failed", "reconciled"}
  PROVE  /\ Settles
         /\ \A b \in DOMAIN attempts : b # a => KeepsRow(b)
         /\ attempts'[a].state = state
<1> DEFINE row == [attempts[a] EXCEPT !.state = state, !.code = code,
                                      !.outcome_unknown = unknown]
<1>1. attempts[a] \in AttemptRows
  BY ElementOfSeq, LenProperties DEF TypeOK
<1>2. /\ row.run = attempts[a].run /\ row.exec = attempts[a].exec
      /\ row.number = attempts[a].number /\ row.key = attempts[a].key
      /\ row.retry_safe = attempts[a].retry_safe /\ row.state = state
  BY <1>1 DEF AttemptRows
<1>3. attempts' = [attempts EXCEPT ![a] = row]
  OBVIOUS
<1> HIDE DEF row
<1>4. /\ DOMAIN attempts' = DOMAIN attempts
      /\ attempts'[a] = row
      /\ \A b \in DOMAIN attempts : b # a => attempts'[b] = attempts[b]
  BY <1>3 DEF TypeOK
<1>5. QED BY <1>2, <1>4 DEF Settles, KeepsRow

\* The row that begin_attempt appends.
LEMMA BegunRow ==
  ASSUME TypeOK, Control, NEW r \in Runs, Begun(r),
         task[r].pc = "begin_attempt"
  PROVE  LET t == task[r]
             n == Len(attempts) + 1
         IN  /\ DOMAIN attempts' = DOMAIN attempts \cup {n}
             /\ n \notin DOMAIN attempts
             /\ \A a \in DOMAIN attempts : a < n /\ a \in 1 .. n - 1
             /\ \A a \in DOMAIN attempts : KeepsRow(a)
             /\ attempts'[n].run = r /\ attempts'[n].exec = t.calls
             /\ attempts'[n].number = t.number
             /\ attempts'[n].key = t.call.key
             /\ attempts'[n].retry_safe = t.call.retry_safe
             /\ attempts'[n].state = "pending"
<1> DEFINE t == task[r]
           new == [run |-> r, exec |-> t.calls, number |-> t.number,
                   key |-> t.call.key, retry_safe |-> t.call.retry_safe,
                   state |-> "pending", outcome_unknown |-> TRUE,
                   code |-> "none"]
           m == Len(attempts)
<1>1. Shape(t) /\ t \in Tasks
  BY DEF Control, Shape
<1>2. t.calls # 0 /\ t.number # 0
  BY <1>1 DEF Shape, InCall
<1>3. t.calls \in Executions
  BY <1>1, <1>2, ExecutionsAssumption, LimitsAssumption DEF Tasks
<1>4. t.number \in 1 .. MaxAttempts
  BY <1>1, <1>2, AttemptsAssumption DEF Tasks
<1>5. t.call.key \in CallKeys /\ t.call.retry_safe \in BOOLEAN
  BY <1>1, CallsAssumption DEF Tasks
<1>6. new \in AttemptRows
  BY <1>3, <1>4, <1>5 DEF AttemptRows, ResultCodes
<1>7. /\ new.run = r /\ new.exec = t.calls /\ new.number = t.number
      /\ new.key = t.call.key /\ new.retry_safe = t.call.retry_safe
      /\ new.state = "pending"
  OBVIOUS
<1>8. attempts' = Append(attempts, new)
  BY DEF Begun, BeginAttempt
<1> HIDE DEF new
<1>9. attempts \in Seq(AttemptRows)
  BY DEF TypeOK
<1>10. /\ DOMAIN attempts = 1 .. m /\ m \in Nat
       /\ DOMAIN attempts' = 1 .. m + 1
       /\ \A a \in 1 .. m : attempts'[a] = attempts[a]
       /\ attempts'[m + 1] = new
  BY <1>6, <1>8, <1>9, AppendFacts, LenProperties
<1> HIDE DEF m
<1>11. /\ DOMAIN attempts' = DOMAIN attempts \cup {m + 1}
       /\ m + 1 \notin DOMAIN attempts
       /\ \A a \in DOMAIN attempts : a < m + 1 /\ a \in 1 .. (m + 1) - 1
       /\ \A a \in DOMAIN attempts : KeepsRow(a)
  BY <1>10 DEF KeepsRow
<1>12. QED BY <1>7, <1>10, <1>11 DEF m

-----------------------------------------------------------------------------
(* What the steps do to the attempts *)

\* The three things a transaction of task r may do to the attempts.
AttemptsStep(r) ==
  LET t == task[r] IN
  \/ attempts' = attempts
  \/ t.pc = "begin_attempt" /\ Begun(r)
  \/ t.pc = "end_attempt" /\ EndAttempt(t.row, t.code, t.unknown)

\* A transaction begins or ends an attempt only for the task that is at it.
LEMMA CommitsAttempts ==
  ASSUME NEW r, Commits(r)
  PROVE  /\ AttemptsStep(r)
         /\ task[r].pc = "end_attempt" =>
              EndAttempt(task[r].row, task[r].code, task[r].unknown)
<1>1. ASSUME Recorded(r) PROVE attempts' = attempts
  BY <1>1 DEF Recorded, RecordEvent
<1>2. ASSUME CancelRun(r) PROVE attempts' = attempts
  BY <1>2 DEF CancelRun
<1>3. QED
  BY <1>1, <1>2
  DEF Commits, AttemptsStep, dbVars, Reading, Waiting, Reports, Recording

\* end_attempt settles the row of the task and no other.
LEMMA EndedRow ==
  ASSUME TypeOK, Attempted, NEW r \in Runs,
         task[r].pc = "end_attempt",
         EndAttempt(task[r].row, task[r].code, task[r].unknown)
  PROVE  LET t == task[r] IN
         /\ t.row \in DOMAIN attempts
         /\ Settles
         /\ \A b \in DOMAIN attempts : b # t.row => KeepsRow(b)
         /\ attempts'[t.row].state =
              IF t.code = "none" THEN "succeeded" ELSE "failed"
<1> DEFINE t == task[r]
           state == IF t.code = "none" THEN "succeeded" ELSE "failed"
<1>1. /\ t.row \in DOMAIN attempts /\ attempts[t.row].state = "pending"
      /\ attempts' = [attempts EXCEPT ![t.row].state = state,
                        ![t.row].code = t.code,
                        ![t.row].outcome_unknown = t.unknown]
  BY DEF EndAttempt
<1> HIDE DEF state
<1>2. /\ Settles
      /\ \A b \in DOMAIN attempts : b # t.row => KeepsRow(b)
      /\ attempts'[t.row].state = state
  BY <1>1, SettledRow
<1>3. QED BY <1>1, <1>2 DEF state

\* A transaction of task r keeps what Attempted says of everything but r: an
\* attempt after the first is begun on the failed one before it.
LEMMA TaskRows ==
  ASSUME TypeOK, Control, Attempted, NEW r \in Runs, AttemptsStep(r),
         \A q \in Runs \ {r} : task'[q] = task[q],
         dispatched' \subseteq DOMAIN attempts
  PROVE  /\ dispatched' \subseteq DOMAIN attempts'
         /\ \A a \in DOMAIN attempts' : CallOf(a)' \in Calls
         /\ RetryFollowsFailure'
         /\ \A q \in Runs \ {r} : InRow(q, task[q])'
<1> DEFINE t == task[r]
<1>1. ASSUME \A q \in Runs \ {r} :
               task[q].row \in DOMAIN attempts
               /\ attempts[task[q].row].run = q => KeepsRow(task[q].row)
      PROVE  \A q \in Runs \ {r} : InRow(q, task[q])'
  <2> TAKE q \in Runs \ {r}
  <2>1. InRow(q, task[q])
    BY DEF Attempted
  <2>2. task'[q] = task[q]
    OBVIOUS
  <2>3. QED BY <1>1, <2>1, <2>2, InRowKept DEF InRow, Placed
<1>2. CASE attempts' = attempts
  <2>1. \A a \in DOMAIN attempts : KeepsRow(a)
    BY <1>2 DEF KeepsRow
  <2>2. \A q \in Runs \ {r} : InRow(q, task[q])'
    BY <1>1, <2>1
  <2>3. QED BY <1>2, <2>2 DEF Attempted, CallOf, RetryFollowsFailure
<1>3. CASE t.pc = "end_attempt" /\ EndAttempt(t.row, t.code, t.unknown)
  <2>1. /\ t.row \in DOMAIN attempts /\ Settles
        /\ \A b \in DOMAIN attempts : b # t.row => KeepsRow(b)
    BY <1>3, EndedRow
  <2>2. attempts[t.row].run = r
    BY <1>3 DEF Attempted, InRow, Placed
  <2>3. \A q \in Runs \ {r} : InRow(q, task[q])'
    BY <1>1, <2>1, <2>2
  <2>4. QED BY <2>1, <2>3, SettledRows
<1>4. CASE t.pc = "begin_attempt" /\ Begun(r)
  <2>0. PICK n : n = Len(attempts) + 1
    OBVIOUS
  <2>1. /\ DOMAIN attempts' = DOMAIN attempts \cup {n}
        /\ n \notin DOMAIN attempts
        /\ \A a \in DOMAIN attempts : a < n /\ a \in 1 .. n - 1
        /\ \A a \in DOMAIN attempts : KeepsRow(a)
        /\ attempts'[n].run = r /\ attempts'[n].exec = t.calls
        /\ attempts'[n].number = t.number
        /\ attempts'[n].key = t.call.key
        /\ attempts'[n].retry_safe = t.call.retry_safe
    BY <1>4, <2>0, BegunRow
  <2>2. \A q \in Runs \ {r} : InRow(q, task[q])'
    BY <1>1, <2>1
  <2>3. \A a \in DOMAIN attempts' : CallOf(a)' \in Calls
    <3>1. \A a \in DOMAIN attempts : CallOf(a)' = CallOf(a)
      BY <2>1 DEF KeepsRow, CallOf
    <3>2. t.call \in Calls
      BY DEF Control, Tasks
    <3>3. CallOf(n)' = t.call
      BY <2>1, <3>2, CallsAssumption DEF CallOf
    <3>4. QED BY <2>1, <3>1, <3>2, <3>3 DEF Attempted
  <2>4. ASSUME NEW a \in DOMAIN attempts', attempts'[a].number > 1
        PROVE  \E b \in 1 .. a - 1 :
                 /\ attempts'[b].run = attempts'[a].run
                 /\ attempts'[b].exec = attempts'[a].exec
                 /\ attempts'[b].number = attempts'[a].number - 1
                 /\ attempts'[b].state \in {"failed", "reconciled"}
                 /\ attempts'[b].retry_safe
    <3>1. CASE a = n
      <4>1. t.number # 1
        BY <2>1, <2>4, <3>1
      <4>2. /\ Placed(r, t, t.number - 1)
            /\ attempts[t.row].state = "failed" /\ attempts[t.row].retry_safe
        BY <1>4, <4>1 DEF Attempted, InRow
      <4>3. t.row \in 1 .. n - 1 /\ attempts'[t.row] = attempts[t.row]
        BY <2>1, <4>2 DEF Placed, KeepsRow
      <4>4. QED BY <2>1, <3>1, <4>2, <4>3 DEF Placed
    <3>2. CASE a \in DOMAIN attempts
      <4>1. attempts'[a] = attempts[a]
        BY <2>1, <3>2 DEF KeepsRow
      <4>2. PICK b \in 1 .. a - 1 :
              /\ attempts[b].run = attempts[a].run
              /\ attempts[b].exec = attempts[a].exec
              /\ attempts[b].number = attempts[a].number - 1
              /\ attempts[b].state \in {"failed", "reconciled"}
              /\ attempts[b].retry_safe
        BY <2>4, <3>2, <4>1 DEF Attempted, RetryFollowsFailure
      <4>3. b \in DOMAIN attempts
        BY <3>2, LenProperties DEF TypeOK
      <4>4. attempts'[b] = attempts[b]
        BY <2>1, <4>3 DEF KeepsRow
      <4>5. QED BY <4>1, <4>2, <4>4
    <3>3. QED BY <2>1, <3>1, <3>2
  <2>5. RetryFollowsFailure'
    BY <2>4 DEF RetryFollowsFailure
  <2>6. QED BY <2>1, <2>2, <2>3, <2>5
<1>5. QED BY <1>2, <1>3, <1>4 DEF AttemptsStep

\* A task that goes on is in its row again.
LEMMA AdvancesInRow ==
  ASSUME TypeOK, Control, Attempted, NEW r \in Runs, NEW u, Advances(r, u)
  PROVE  InRow(r, u)'
<1> DEFINE t == task[r]
<1>1. Shape(t) /\ t \in Tasks /\ InRow(r, t) /\ NextAttempt(t, u)
  BY DEF Control, Shape, Attempted, Advances, Leads
<1>2. AttemptsStep(r)
      /\ (t.pc = "end_attempt" => EndAttempt(t.row, t.code, t.unknown))
  BY CommitsAttempts DEF Advances
<1>3. ASSUME u.pc \in {"call_tool", "tool", "end_attempt"}
      PROVE  InRow(r, u)'
  <2>1. /\ t.pc \in {"begin_attempt", "call_tool", "tool"}
        /\ u.number = t.number /\ u.call = t.call /\ u.calls = t.calls
        /\ u.row = IF t.pc = "begin_attempt" THEN Len(attempts) + 1 ELSE t.row
    BY <1>1, <1>3 DEF NextAttempt
  <2>2. CASE t.pc = "begin_attempt"
    <3>1. Begun(r)
      BY <1>3, <2>2 DEF Advances, RefusedOrBegun
    <3>2. QED BY <1>3, <2>1, <2>2, <3>1, BegunRow DEF InRow, Placed
  <2>3. CASE t.pc # "begin_attempt"
    <3>1. attempts' = attempts
      BY <1>2, <2>1, <2>3 DEF AttemptsStep
    <3>2. QED BY <1>1, <1>3, <2>1, <2>3, <3>1 DEF InRow, Placed
  <2>4. QED BY <2>2, <2>3
<1>4. ASSUME u.pc = "retry_failed"
      PROVE  InRow(r, u)'
  <2>1. /\ t.pc = "end_attempt" /\ t.call.retry_safe /\ t.code # "none"
        /\ u.number = t.number /\ u.row = t.row /\ u.calls = t.calls
    BY <1>1, <1>4 DEF NextAttempt
  <2>2. Settles /\ attempts'[t.row].state = "failed"
    BY <1>2, <2>1, EndedRow
  <2>3. Placed(r, t, t.number) /\ attempts[t.row].retry_safe
    BY <1>1, <2>1 DEF InRow
  <2>4. Placed(r, u, u.number)' /\ attempts'[u.row].retry_safe
    BY <2>1, <2>2, <2>3 DEF Placed, Settles
  <2>5. QED BY <1>4, <2>1, <2>2, <2>4 DEF InRow
<1>5. ASSUME u.pc \in {"tool_call_requested", "tool_execution_started",
                       "discover_tools", "begin_attempt", "retry_wait",
                       "retry_started"}
      PROVE  InRow(r, u)'
  <2>1. t.pc \notin {"begin_attempt", "end_attempt"} => attempts' = attempts
    BY <1>2 DEF AttemptsStep
  <2>2. CASE u.pc \in {"tool_call_requested", "tool_execution_started",
                     "discover_tools"}
    BY <1>1, <2>2 DEF InRow, NextAttempt
  <2>3. CASE u.pc = "begin_attempt"
    BY <1>1, <2>1, <2>3 DEF InRow, Placed, NextAttempt
  <2>4. CASE u.pc = "retry_wait"
    BY <1>1, <2>1, <2>4 DEF InRow, Placed, NextAttempt
  <2>5. CASE u.pc = "retry_started"
    <3>1. /\ t.pc = "retry_wait"
          /\ u.number = t.number + 1 /\ u.row = t.row /\ u.calls = t.calls
      BY <1>1, <2>5 DEF NextAttempt
    <3>2. t.number \in Nat
      BY <1>1, AttemptsAssumption DEF Tasks
    <3>3. u.number - 1 = t.number
      BY <3>1, <3>2
    <3>4. QED BY <1>1, <2>1, <2>5, <3>1, <3>3 DEF InRow, Placed
  <2>6. QED BY <1>5, <2>2, <2>3, <2>4, <2>5
<1>6. CASE u.pc \notin {"tool_call_requested", "tool_execution_started",
         "discover_tools", "begin_attempt", "call_tool", "tool",
         "end_attempt", "retry_failed", "retry_wait", "retry_started"}
  BY <1>6 DEF InRow
<1>7. QED BY <1>3, <1>4, <1>5, <1>6

\* A step of a task keeps the invariant.
LEMMA TaskAttempted ==
  ASSUME TypeOK, Control, Attempted, NEW r \in Runs, TaskStep(r)
  PROVE  Attempted'
<1> DEFINE t == task[r]
<1>1. ASSUME NEW u, task' = [task EXCEPT ![r] = u], InRow(r, u)',
             AttemptsStep(r), dispatched' \subseteq DOMAIN attempts
      PROVE  Attempted'
  <2>1. task'[r] = u /\ \A q \in Runs \ {r} : task'[q] = task[q]
    BY <1>1 DEF Control
  <2>2. /\ dispatched' \subseteq DOMAIN attempts'
        /\ \A a \in DOMAIN attempts' : CallOf(a)' \in Calls
        /\ RetryFollowsFailure'
        /\ \A q \in Runs \ {r} : InRow(q, task[q])'
    BY <1>1, <2>1, TaskRows
  <2>3. InRow(r, task[r])'
    BY <1>1, <2>1 DEF InRow, Placed
  <2>4. QED BY <2>2, <2>3 DEF Attempted
<1>2. \A u : u.pc \in {"raised", "cancelled", "forced_cancel", "done"} =>
               InRow(r, u)'
  BY DEF InRow
<1>3. Shape(t)
  BY DEF Control
<1>4. ASSUME NEW u, Advances(r, u) PROVE Attempted'
  <2>1. dispatched' \subseteq DOMAIN attempts
    <3>1. u.pc = "tool" => t.pc = "call_tool"
      BY <1>4 DEF Advances, Leads, NextAttempt
    <3>2. ASSUME u.pc = "tool"
          PROVE  t.row \in DOMAIN attempts
      BY <3>1, <3>2 DEF Attempted, InRow, Placed
    <3>3. QED BY <1>4, <3>2 DEF Advances, Attempted
  <2>2. AttemptsStep(r)
    BY <1>4, CommitsAttempts DEF Advances
  <2>3. QED BY <1>1, <1>4, <2>1, <2>2, AdvancesInRow DEF Advances, Becomes
<1>5. ASSUME Raises(r) PROVE Attempted'
  <2>1. AttemptsStep(r)
    BY <1>5, CommitsAttempts DEF Raises, AttemptsStep, dbVars
  <2>2. PICK u : u = At(t, "raised")
    OBVIOUS
  <2>3. u.pc = "raised"
    BY <1>3, <2>2, GoesTo
  <2>4. task' = [task EXCEPT ![r] = u] /\ dispatched' \subseteq DOMAIN attempts
    BY <1>5, <2>2 DEF Raises, Becomes, Attempted
  <2>5. InRow(r, u)'
    BY <1>2, <2>3
  <2>6. QED BY <1>1, <2>1, <2>4, <2>5
<1>6. ASSUME Interrupts(r) PROVE Attempted'
  <2>1. AttemptsStep(r)
    BY <1>6, CommitsAttempts DEF Interrupts, AttemptsStep, dbVars
  <2>2. PICK u : u = Unwound(t)
    OBVIOUS
  <2>3. u.pc \in {"cancelled", "forced_cancel"}
    BY <1>3, <2>2, UnwoundFields
  <2>4. task' = [task EXCEPT ![r] = u] /\ dispatched' \subseteq DOMAIN attempts
    BY <1>6, <2>2 DEF Interrupts, Becomes, Attempted
  <2>5. InRow(r, u)'
    BY <1>2, <2>3
  <2>6. QED BY <1>1, <2>1, <2>4, <2>5
<1>7. ASSUME Observe(r) PROVE Attempted'
  <2>1. AttemptsStep(r)
    BY <1>7 DEF Observe, AttemptsStep, storeVars
  <2>2. PICK u : u = At(NoTask, "done")
    OBVIOUS
  <2>3. u.pc = "done"
    BY <2>2, DoneFields
  <2>4. task' = [task EXCEPT ![r] = u] /\ dispatched' \subseteq DOMAIN attempts
    BY <1>7, <2>2 DEF Observe, Attempted
  <2>5. InRow(r, u)'
    BY <1>2, <2>3
  <2>6. QED BY <1>1, <2>1, <2>4, <2>5
<1>8. QED BY <1>4, <1>5, <1>6, <1>7 DEF TaskStep

\* A step that leaves the attempts alone, and every task or where it was or
\* outside any call.
LEMMA IdleAttempted ==
  ASSUME Attempted, attempts' = attempts, dispatched' = dispatched,
         \A r \in Runs : \/ task'[r] = task[r]
                         \/ task'[r].pc \in {"get_run", "absent"}
  PROVE  Attempted'
<1>1. \A r \in Runs : InRow(r, task[r])'
  BY DEF Attempted, InRow, Placed
<1>2. QED BY <1>1 DEF Attempted, CallOf, RetryFollowsFailure

\* Every step keeps the rows of the attempts in line with the tasks that make
\* them.
LEMMA StepAttempted == Base /\ Attempted /\ [Next]_vars => Attempted'
<1> SUFFICES ASSUME Base, Attempted, [Next]_vars PROVE Attempted'
  OBVIOUS
<1> USE DEF Base
<1>1. ASSUME NEW r \in Runs, RunTask(r) PROVE Attempted'
  BY <1>1, RunTaskStep, TaskAttempted
<1>2. ASSUME NEW s \in Sessions, Submit(s) PROVE Attempted'
  BY <1>2, IdleAttempted DEF Submit, storeVars, taskVars
<1>3. ASSUME SubmitGetSession \/ SubmitConflict \/ SubmitFails PROVE Attempted'
  BY <1>3, IdleAttempted
  DEF SubmitGetSession, SubmitConflict, SubmitFails, dbVars, taskVars
<1>4. ASSUME SubmitGetTaskState PROVE Attempted'
  BY <1>4, IdleAttempted DEF SubmitGetTaskState, GetTaskState, dbVars, taskVars
<1>5. ASSUME NEW r \in Runs, SubmitCreate(r) PROVE Attempted'
  <2>1. \A q \in Runs : task'[q] = task[q] \/ task'[q].pc = "get_run"
    BY <1>5, DoneFields DEF SubmitCreate, Control
  <2>2. QED BY <1>5, <2>1, IdleAttempted DEF SubmitCreate, CreateRun
<1>6. ASSUME NEW r \in Runs, CancelCommits(r) \/ CancelFails, task' = task,
             dispatched' = dispatched
      PROVE  Attempted'
  BY <1>6, IdleAttempted DEF CancelCommits, CancelRun, CancelFails, dbVars
<1>7. ASSUME NEW r \in Runs, RequestCancel(r) PROVE Attempted'
  BY <1>7, IdleAttempted DEF RequestCancel, storeVars, taskVars
<1>8. ASSUME NEW r \in Runs, CancelAnswered(r) PROVE Attempted'
  BY <1>6, <1>8 DEF CancelAnswered
<1>9. ASSUME ShutdownCancels PROVE Attempted'
  BY <1>6, <1>9 DEF ShutdownCancels, Control
<1>10. ASSUME ShutdownBegins \/ ShutdownForces \/ ShutdownEnds PROVE Attempted'
  BY <1>10, IdleAttempted
  DEF ShutdownBegins, ShutdownForces, ShutdownEnds, storeVars, dbVars, taskVars
<1>11. ASSUME ProcessEnds PROVE Attempted'
  <2>1. \A r \in Runs : task'[r].pc = "absent"
    BY <1>11, DoneFields DEF ProcessEnds
  <2>2. QED BY <1>11, <2>1, IdleAttempted DEF ProcessEnds, dbVars
<1>12. ASSUME Start PROVE Attempted'
  BY <1>12, IdleAttempted DEF Start, Recover, taskVars
<1>13. ASSUME NEW a \in DOMAIN attempts, Reconcile(a) PROVE Attempted'
  <2>1. attempts[a] \in AttemptRows
    BY ElementOfSeq, LenProperties DEF TypeOK
  <2>2. attempts' = [attempts EXCEPT ![a].state = "reconciled",
                       ![a].code = attempts[a].code,
                       ![a].outcome_unknown = FALSE]
    BY <1>13, <2>1 DEF Reconcile, ResolveAttempt, TypeOK, AttemptRows
  <2>3. Settles
    BY <2>2, SettledRow
  <2>4. \A r \in Runs : InRow(r, task[r])'
    BY <1>13 DEF Reconcile, Down, taskVars, InRow
  <2>5. dispatched' = dispatched
    BY <1>13 DEF Reconcile, taskVars
  <2>6. QED BY <2>3, <2>4, <2>5, SettledRows DEF Attempted
<1>14. ASSUME UNCHANGED vars PROVE Attempted'
  BY <1>14, IdleAttempted DEF vars, storeVars, taskVars
<1>15. QED
  BY <1>1, <1>2, <1>3, <1>4, <1>5, <1>7, <1>8, <1>9, <1>10, <1>11, <1>12,
     <1>13, <1>14
  DEF Next, Submission, Shutdown

-----------------------------------------------------------------------------
(* The intents of a run *)

\* The points at which the attempt of a task is open, and the ends a run
\* decides on itself.
AtCall == {"call_tool", "tool", "end_attempt"}
Decided == {"completed", "failed", "limit_exceeded"}

\* An attempt is of a run that began; while it is pending, and the run in the
\* harness, the task is at it.
IntentOf(a) ==
  LET r == attempts[a].run IN
  /\ status[r] # "absent"
  /\ task[r].pc \notin Reading
  /\ attempts[a].state = "pending" =>
       /\ task[r].pc \in InHarness => task[r].row = a /\ task[r].pc \in AtCall
       /\ status[r] \notin Decided
Intended == \A a \in DOMAIN attempts : IntentOf(a)

\* Only at its end does a task decide on the end of its run.
LEMMA DecidedAtEnd ==
  ASSUME TypeOK, Control, NEW r \in Runs, Commits(r),
         status'[r] \in Decided, status[r] \notin Decided
  PROVE  task[r].pc = "ending"
<1> DEFINE t == task[r]
<1>1. Shape(t)
  BY DEF Control
<1>2. CASE t.pc \in Reports /\ Recorded(r)
  <2>1. /\ KindOf(t) \in ReportKinds
        /\ KindOf(t) \in TerminalKinds <=> t.pc \in {"ending", "forced_record"}
        /\ t.pc = "forced_record" => KindOf(t) = "run_cancelled"
    BY <1>1, <1>2, KindsReported DEF KindOf
  <2>2. status' = [status EXCEPT ![r] = StatusAfter(r, KindOf(t))]
    BY <1>2, <2>1, RecordedRow DEF Recorded
  <2>3. StatusAfter(r, KindOf(t)) \in Decided
    BY <2>2 DEF TypeOK
  <2>4. KindOf(t) \in TerminalKinds /\ KindOf(t) # "run_cancelled"
    BY <2>3 DEF StatusAfter, TargetStatus, Decided
  <2>5. QED BY <2>1, <2>4
<1>3. CASE ~(t.pc \in Reports /\ Recorded(r))
  <2>1. ASSUME CancelRun(r) PROVE FALSE
    BY <2>1 DEF CancelRun, TypeOK, Decided
  <2>2. UNCHANGED <<dbVars, snapshot>> \/ Begun(r)
          \/ EndAttempt(t.row, t.code, t.unknown) => status' = status
    BY DEF dbVars, Begun, BeginAttempt, EndAttempt
  <2>3. QED BY <1>3, <2>1, <2>2 DEF Commits
<1>4. QED BY <1>2, <1>3

\* What a transaction of task r makes of the attempts, by their run.
LEMMA OwnRows ==
  ASSUME TypeOK, Control, Attempted, NEW r \in Runs, AttemptsStep(r),
         NEW a \in DOMAIN attempts'
  PROVE  /\ attempts'[a].run # r => a \in DOMAIN attempts /\ KeepsRow(a)
         /\ a \in DOMAIN attempts =>
              /\ attempts'[a].run = attempts[a].run
              /\ attempts'[a].state = "pending" => attempts[a].state = "pending"
         /\ a \notin DOMAIN attempts =>
              /\ task[r].pc = "begin_attempt" /\ Begun(r)
              /\ a = Len(attempts) + 1 /\ attempts'[a].run = r
<1> DEFINE t == task[r]
<1>1. CASE attempts' = attempts
  BY <1>1 DEF KeepsRow
<1>2. CASE t.pc = "end_attempt" /\ EndAttempt(t.row, t.code, t.unknown)
  <2>1. /\ t.row \in DOMAIN attempts /\ Settles
        /\ \A b \in DOMAIN attempts : b # t.row => KeepsRow(b)
        /\ attempts'[t.row].state # "pending"
    BY <1>2, EndedRow
  <2>2. attempts[t.row].run = r
    BY <1>2 DEF Attempted, InRow, Placed
  <2>3. QED BY <2>1, <2>2 DEF Settles, KeepsRow
<1>3. CASE t.pc = "begin_attempt" /\ Begun(r)
  <2>1. PICK n : n = Len(attempts) + 1
    OBVIOUS
  <2>2. /\ DOMAIN attempts' = DOMAIN attempts \cup {n}
        /\ n \notin DOMAIN attempts
        /\ \A b \in DOMAIN attempts : KeepsRow(b)
        /\ attempts'[n].run = r
    BY <1>3, <2>1, BegunRow
  <2>3. QED BY <1>3, <2>1, <2>2 DEF KeepsRow
<1>4. QED BY <1>1, <1>2, <1>3 DEF AttemptsStep

\* Task r goes on as u, or leaves the harness.
LEMMA TaskIntents ==
  ASSUME TypeOK, Control, Attempted, Intended, NEW r \in Runs, NEW u,
         task' = [task EXCEPT ![r] = u], AttemptsStep(r),
         Commits(r) \/ UNCHANGED <<status, attempts>>,
         u.pc \in Reading => task[r].pc \in Reading,
         u.pc \in InHarness => Advances(r, u)
  PROVE  Intended'
<1> DEFINE t == task[r]
<1>1. task'[r] = u /\ \A q \in Runs \ {r} : task'[q] = task[q]
  BY DEF Control
<1>2. /\ \A q \in Runs \ {r} : status'[q] = status[q]
      /\ status'[r] = "absent" <=> status[r] = "absent"
  BY CommittedRow
<1>3. status'[r] \in Decided => status[r] \in Decided \/ t.pc = "ending"
  BY DecidedAtEnd
<1>4. SUFFICES ASSUME NEW a \in DOMAIN attempts' PROVE IntentOf(a)'
  BY DEF Intended
<1>5. attempts'[a].run \in Runs
  <2>1. a \in DOMAIN attempts => attempts[a] \in AttemptRows
    BY ElementOfSeq, LenProperties DEF TypeOK
  <2>2. QED BY <2>1, OwnRows DEF AttemptRows
<1>6. CASE attempts'[a].run # r
  <2>1. a \in DOMAIN attempts /\ attempts'[a] = attempts[a]
    BY <1>6, OwnRows DEF KeepsRow
  <2>2. IntentOf(a)
    BY <2>1 DEF Intended
  <2>3. QED BY <1>1, <1>2, <1>5, <1>6, <2>1, <2>2 DEF IntentOf
<1>7. CASE attempts'[a].run = r /\ a \in DOMAIN attempts
  <2>1. /\ attempts[a].run = r
        /\ attempts'[a].state = "pending" => attempts[a].state = "pending"
    BY <1>7, OwnRows
  <2>2. IntentOf(a)
    BY <1>7 DEF Intended
  <2>3. status'[r] # "absent" /\ u.pc \notin Reading
    BY <1>2, <2>1, <2>2 DEF IntentOf
  <2>4. ASSUME attempts'[a].state = "pending"
        PROVE  status'[r] \notin Decided
    <3>1. t.pc \in InHarness => t.pc \in AtCall
      BY <2>1, <2>2, <2>4 DEF IntentOf
    <3>2. t.pc # "ending"
      BY <3>1 DEF InHarness, Recording, AtCall
    <3>3. QED BY <1>3, <2>1, <2>2, <2>4, <3>2 DEF IntentOf
  <2>5. ASSUME attempts'[a].state = "pending", u.pc \in InHarness
        PROVE  u.row = a /\ u.pc \in AtCall
    <3>1. /\ Commits(r) /\ NextPoint(r, t, u) /\ NextAttempt(t, u)
      BY <2>5 DEF Advances, Leads
    <3>2. t.pc \in InHarness
      <4>1. t.pc \in Reading \cup Recording \cup Waiting \cup Forced
        BY <3>1 DEF Commits, Reports, Recording, Forced
      <4>2. t.pc \notin Reading
        BY <2>1, <2>2 DEF IntentOf
      <4>3. t.pc \notin Forced
        BY <2>5, <3>1
        DEF NextPoint, Forced, InLoop, InHarness, Recording, Waiting
      <4>4. QED BY <4>1, <4>2, <4>3 DEF InHarness
    <3>3. t.row = a /\ t.pc \in AtCall
      BY <2>1, <2>2, <2>5, <3>2 DEF IntentOf
    <3>4. t.pc # "end_attempt"
      <4>1. t.pc = "end_attempt" =>
              EndAttempt(t.row, t.code, t.unknown)
        BY <3>1, CommitsAttempts
      <4>2. t.pc = "end_attempt" => attempts'[t.row].state # "pending"
        BY <4>1, EndedRow
      <4>3. QED BY <2>5, <3>3, <4>2
    <3>5. u.pc \in {"tool", "end_attempt"} /\ u.row = t.row
      BY <3>1, <3>3, <3>4 DEF NextAttempt, AtCall
    <3>6. QED BY <3>3, <3>5 DEF AtCall
  <2>6. QED BY <1>1, <1>7, <2>3, <2>4, <2>5 DEF IntentOf
<1>8. CASE a \notin DOMAIN attempts
  <2>1. /\ t.pc = "begin_attempt" /\ Begun(r)
        /\ a = Len(attempts) + 1 /\ attempts'[a].run = r
    BY <1>8, OwnRows
  <2>2. status'[r] = "running"
    BY <2>1 DEF Begun, BeginAttempt
  <2>3. u.pc \notin Reading
    BY <2>1 DEF Reading
  <2>4. ASSUME u.pc \in InHarness PROVE u.row = a /\ u.pc \in AtCall
    <3>1. /\ NextAttempt(t, u) /\ RefusedOrBegun(r, u)
      BY <2>1, <2>4 DEF Advances, Leads
    <3>2. u.pc \in {"call_tool", "end_attempt"}
      BY <1>8, <3>1 DEF RefusedOrBegun
    <3>3. QED BY <2>1, <3>1, <3>2 DEF NextAttempt, AtCall
  <2>5. QED BY <1>1, <2>1, <2>2, <2>3, <2>4 DEF IntentOf, Decided
<1>9. QED BY <1>6, <1>7, <1>8

\* A step of a task keeps the intents.
LEMMA TaskStepIntents ==
  ASSUME TypeOK, Control, Attempted, Intended, NEW r \in Runs, TaskStep(r)
  PROVE  Intended'
<1> DEFINE t == task[r]
<1>1. Shape(t)
  BY DEF Control
<1>2. ASSUME NEW u, Advances(r, u) PROVE Intended'
  <2>1. /\ task' = [task EXCEPT ![r] = u] /\ Commits(r)
        /\ NextPoint(r, t, u) /\ AttemptsStep(r)
    BY <1>2, CommitsAttempts DEF Advances, Becomes, Leads
  <2>2. t.pc \in Reading \cup Recording \cup Waiting \cup Forced
    BY <2>1 DEF Commits, Reports, Recording, Forced
  <2>3. u.pc \in Reading => t.pc \in Reading
    BY <2>1, <2>2
    DEF NextPoint, Reading, InLoop, InHarness, Recording, Waiting, Forced
  <2>4. QED BY <1>2, <2>1, <2>3, TaskIntents
<1>3. \A pc \in {"raised", "cancelled", "forced_cancel", "done"} :
        pc \notin Reading \cup InHarness
  BY DEF Reading, InHarness, Recording, Waiting
<1>4. ASSUME Raises(r) PROVE Intended'
  <2>1. PICK u : u = At(t, "raised")
    OBVIOUS
  <2>2. u.pc = "raised" /\ task' = [task EXCEPT ![r] = u]
    BY <1>1, <1>4, <2>1, GoesTo DEF Raises, Becomes
  <2>3. AttemptsStep(r)
    BY <1>4, CommitsAttempts DEF Raises, AttemptsStep, dbVars
  <2>4. Commits(r) \/ UNCHANGED <<status, attempts>>
    BY <1>4 DEF Raises, dbVars
  <2>5. QED BY <1>3, <2>2, <2>3, <2>4, TaskIntents
<1>5. ASSUME Interrupts(r) PROVE Intended'
  <2>1. PICK u : u = Unwound(t)
    OBVIOUS
  <2>2. u.pc \in {"cancelled", "forced_cancel"}
    BY <1>1, <2>1, UnwoundFields
  <2>3. task' = [task EXCEPT ![r] = u]
    BY <1>5, <2>1 DEF Interrupts, Becomes
  <2>4. AttemptsStep(r)
    BY <1>5, CommitsAttempts DEF Interrupts, AttemptsStep, dbVars
  <2>5. Commits(r) \/ UNCHANGED <<status, attempts>>
    BY <1>5 DEF Interrupts, dbVars
  <2>6. QED BY <1>3, <2>2, <2>3, <2>4, <2>5, TaskIntents
<1>6. ASSUME Observe(r) PROVE Intended'
  <2>1. PICK u : u = At(NoTask, "done")
    OBVIOUS
  <2>2. u.pc = "done"
    BY <2>1, DoneFields
  <2>3. task' = [task EXCEPT ![r] = u] /\ UNCHANGED <<status, attempts>>
    BY <1>6, <2>1 DEF Observe, storeVars, dbVars
  <2>4. AttemptsStep(r)
    BY <2>3 DEF AttemptsStep
  <2>5. QED BY <1>3, <2>2, <2>3, <2>4, TaskIntents
<1>7. QED BY <1>2, <1>4, <1>5, <1>6 DEF TaskStep

\* Attempts stay, and the runs that have any go on, are cancelled, interrupted
\* or lose their task.
LEMMA IdleIntents ==
  ASSUME TypeOK, Intended, attempts' = attempts,
         \A r \in Runs : status[r] # "absent" =>
           /\ \/ status'[r] = status[r]
              \/ status'[r] \in {"cancelled", "cancel_requested", "interrupted"}
           /\ task'[r] = task[r] \/ task'[r].pc = "absent"
  PROVE  Intended'
<1> SUFFICES ASSUME NEW a \in DOMAIN attempts PROVE IntentOf(a)'
  BY DEF Intended
<1>1. attempts[a].run \in Runs
  <2>1. attempts[a] \in AttemptRows
    BY ElementOfSeq, LenProperties DEF TypeOK
  <2>2. QED BY <2>1 DEF AttemptRows
<1>2. IntentOf(a)
  BY DEF Intended
<1>3. "absent" \notin Reading \cup InHarness
  BY DEF Reading, InHarness, Recording, Waiting
<1>4. QED BY <1>1, <1>2, <1>3 DEF IntentOf, Decided

\* Every step keeps the intents.
LEMMA StepIntents ==
  Base /\ Attempted /\ Intended /\ [Next]_vars => Intended'
<1> SUFFICES ASSUME Base, Attempted, Intended, [Next]_vars PROVE Intended'
  OBVIOUS
<1> USE DEF Base
<1>1. ASSUME NEW r \in Runs, RunTask(r) PROVE Intended'
  BY <1>1, RunTaskStep, TaskStepIntents
<1>2. ASSUME UNCHANGED <<task, status, attempts>> PROVE Intended'
  BY <1>2, IdleIntents
<1>3. ASSUME \/ \E s \in Sessions : Submit(s)
             \/ SubmitGetSession \/ SubmitGetTaskState \/ SubmitConflict
             \/ SubmitFails
             \/ \E r \in Runs : RequestCancel(r)
             \/ ShutdownBegins \/ ShutdownForces \/ ShutdownEnds
             \/ UNCHANGED vars
      PROVE  Intended'
  <2>1. UNCHANGED <<task, status, attempts>>
    BY <1>3
    DEF Submit, SubmitGetSession, SubmitGetTaskState, GetTaskState,
        SubmitConflict, SubmitFails, RequestCancel, ShutdownBegins,
        ShutdownForces, ShutdownEnds, vars, storeVars, dbVars, taskVars
  <2>2. QED BY <1>2, <2>1
<1>4. ASSUME NEW r \in Runs, SubmitCreate(r) PROVE Intended'
  <2>1. /\ status[r] = "absent" /\ attempts' = attempts
        /\ \A q \in Runs \ {r} : status'[q] = status[q]
        /\ \A q \in Runs \ {r} : task'[q] = task[q]
    BY <1>4 DEF SubmitCreate, CreateRun, TypeOK, Control
  <2>2. QED BY <2>1, IdleIntents
<1>5. ASSUME NEW r \in Runs, CancelCommits(r) \/ CancelFails, task' = task
      PROVE  Intended'
  <2>1. attempts' = attempts
    BY <1>5 DEF CancelCommits, CancelRun, CancelFails, dbVars
  <2>2. \A q \in Runs : \/ status'[q] = status[q]
                        \/ status'[q] \in {"cancelled", "cancel_requested"}
    BY <1>5 DEF CancelCommits, CancelRun, CancelFails, dbVars, TypeOK
  <2>3. QED BY <1>5, <2>1, <2>2, IdleIntents
<1>6. ASSUME NEW r \in Runs, CancelAnswered(r) PROVE Intended'
  BY <1>5, <1>6 DEF CancelAnswered
<1>7. ASSUME ShutdownCancels PROVE Intended'
  BY <1>5, <1>7 DEF ShutdownCancels, Control
<1>8. ASSUME ProcessEnds PROVE Intended'
  <2>1. \A r \in Runs : task'[r].pc = "absent"
    BY <1>8, DoneFields DEF ProcessEnds
  <2>2. QED BY <1>8, <2>1, IdleIntents DEF ProcessEnds, dbVars
<1>9. ASSUME Start PROVE Intended'
  <2>1. \A r \in Runs : \/ status'[r] = status[r]
                        \/ status'[r] \in {"cancelled", "interrupted"}
    BY <1>9 DEF Start, Recover, RecoveredStatus
  <2>2. QED BY <1>9, <2>1, IdleIntents DEF Start, Recover, taskVars
<1>10. ASSUME NEW a \in DOMAIN attempts, Reconcile(a) PROVE Intended'
  <2>1. attempts[a] \in AttemptRows
    BY ElementOfSeq, LenProperties DEF TypeOK
  <2>2. attempts' = [attempts EXCEPT ![a].state = "reconciled",
                       ![a].code = attempts[a].code,
                       ![a].outcome_unknown = FALSE]
    BY <1>10, <2>1 DEF Reconcile, ResolveAttempt, TypeOK, AttemptRows
  <2>3. /\ Settles
        /\ \A b \in DOMAIN attempts : b # a => KeepsRow(b)
        /\ attempts'[a].state # "pending"
    BY <2>2, SettledRow
  <2>4. UNCHANGED <<task, status>>
    BY <1>10 DEF Reconcile, ResolveAttempt, taskVars
  <2>5. QED BY <2>3, <2>4 DEF Intended, IntentOf, Settles, KeepsRow
<1>11. QED
  BY <1>1, <1>3, <1>4, <1>6, <1>7, <1>8, <1>9, <1>10
  DEF Next, Submission, Shutdown

-----------------------------------------------------------------------------
(* The theorems *)

\* The attempts of every reachable state.
THEOREM AttemptsHold == Spec => []Attempted
<1>1. Init => Attempted
  <2> SUFFICES ASSUME Init PROVE Attempted
    OBVIOUS
  <2>1. attempts = <<>> /\ dispatched = {}
    BY DEF Init, StoreInit
  <2>2. \A r \in Runs : task[r].pc = "absent"
    BY DoneFields DEF Init
  <2>3. QED BY <2>1, <2>2 DEF Attempted, InRow, RetryFollowsFailure
<1>2. QED BY <1>1, StepAttempted, BaseHolds, PTL DEF Spec

\* The type invariant of the runtime.
THEOREM RuntimeTypeCorrect == Spec => []RuntimeTypeOK
<1>1. Base /\ Attempted => RuntimeTypeOK
  BY DEF Base, Control, Attempted, RuntimeTypeOK, LiveTasks
<1>2. QED BY <1>1, BaseHolds, AttemptsHold, PTL

\* The executor tries a call again only on top of an attempt of the same call
\* that failed and was safe to repeat, for every limit, batch and order.
THEOREM RetriesFollowFailures == Spec => []RetryFollowsFailure
<1>1. Attempted => RetryFollowsFailure
  BY DEF Attempted
<1>2. QED BY <1>1, AttemptsHold, PTL

\* No intent is forgotten, wherever a call is cut short: an attempt that is
\* pending is the one its task is at, or its run was cancelled or interrupted.
THEOREM IntentsAreSettled == Spec => []IntentsSettled
<1>1. Init => Intended
  BY DEF Init, StoreInit, Intended
<1>2. Spec => []Intended
  BY <1>1, StepIntents, BaseHolds, AttemptsHold, PTL DEF Spec
<1>3. Intended => IntentsSettled
  BY DEF Intended, IntentOf, IntentsSettled, Decided
<1>4. QED BY <1>2, <1>3, PTL

\* A request that leaves for the server is of an attempt still in doubt.
LEMMA DispatchesInDoubt ==
  ASSUME Base, Attempted, OneUnresolved, [Next]_vars,
         NEW a \in dispatched' \ dispatched
  PROVE  a \in DOMAIN attempts /\ attempts[a].outcome_unknown
<1>1. PICK r \in Runs : RunTask(r)
  <2>1. \/ UNCHANGED vars
        \/ \E s \in Sessions : Submit(s)
        \/ Submission
        \/ \E r \in Runs : RequestCancel(r) \/ CancelAnswered(r)
        \/ ShutdownBegins \/ Shutdown
        \/ ProcessEnds \/ Start
        \/ \E b \in DOMAIN attempts : Reconcile(b)
        => dispatched' = dispatched
    BY DEF vars, taskVars, Submit, Submission, SubmitGetSession,
       SubmitGetTaskState, SubmitConflict, SubmitFails, SubmitCreate,
       RequestCancel, CancelAnswered, ShutdownBegins, Shutdown,
       ShutdownCancels, ShutdownForces, ShutdownEnds, ProcessEnds, Start,
       Reconcile
  <2>2. QED BY <2>1 DEF Next
<1> DEFINE t == task[r]
<1>2. PICK u : Advances(r, u)
  <2>1. TaskStep(r)
    BY <1>1, RunTaskStep DEF Base
  <2>2. QED BY <2>1 DEF TaskStep, Observe, Raises, Interrupts
<1>3. u.pc = "tool" /\ a = t.row
  BY <1>2 DEF Advances
<1>4. t.pc = "call_tool"
  BY <1>2, <1>3 DEF Advances, Leads, NextAttempt
<1>5. t.row \in DOMAIN attempts /\ attempts[t.row].state = "pending"
  BY <1>4 DEF Attempted, InRow, Placed
<1>6. QED BY <1>3, <1>5 DEF OneUnresolved

\* No unsafe request leaves while an earlier one with the same key is in
\* doubt, over retries, runs, sessions and crashes.
THEOREM NoRequestRepeatedBlindly == Spec => NoBlindReplay
<1>1. ASSUME Base, Attempted, OneUnresolved, [Next]_vars,
             NEW a \in dispatched' \ dispatched, NEW b \in dispatched,
             attempts[a].key = attempts[b].key, ~attempts[b].retry_safe
      PROVE  ~attempts[b].outcome_unknown
  <2>1. a \in DOMAIN attempts /\ attempts[a].outcome_unknown
    BY <1>1, DispatchesInDoubt
  <2>2. b \in DOMAIN attempts /\ a # b
    BY <1>1 DEF Attempted
  <2>3. CallOf(a) \in Calls /\ CallOf(b) \in Calls
    BY <1>1, <2>1, <2>2 DEF Attempted
  <2>4. CallOf(a).key = CallOf(b).key
    BY <1>1 DEF CallOf
  <2>5. CallOf(a) = CallOf(b)
    BY <2>3, <2>4, CallsAssumption
  <2>6. attempts[a].retry_safe = attempts[b].retry_safe
    BY <2>5 DEF CallOf
  <2>7. QED BY <1>1, <2>1, <2>2, <2>6 DEF OneUnresolved
<1>2. Base /\ Attempted /\ OneUnresolved /\ [Next]_vars =>
        [\A a \in dispatched' \ dispatched, b \in dispatched :
           /\ attempts[a].key = attempts[b].key
           /\ ~attempts[b].retry_safe
           => ~attempts[b].outcome_unknown]_vars
  BY <1>1
<1>3. QED
  BY <1>2, BaseHolds, AttemptsHold, RuntimeUsesStore, OneInDoubt, PTL
  DEF Spec, NoBlindReplay
=============================================================================
