------------------------ MODULE ExecutionStoreProofs ------------------------
(***************************************************************************)
(* Proofs of the properties of ExecutionStore, for every set of runs,      *)
(* sessions and call keys and every length of the tables.                  *)
(***************************************************************************)
EXTENDS ExecutionStore, SequenceTheorems, TLAPS

-----------------------------------------------------------------------------
(* What the helpers return *)

\* Appending to a sequence: its length, its new element and the old ones.
LEMMA AppendFacts ==
  ASSUME NEW S, NEW seq \in Seq(S), NEW e \in S
  PROVE  /\ Append(seq, e) \in Seq(S)
         /\ Len(Append(seq, e)) = Len(seq) + 1
         /\ DOMAIN Append(seq, e) = 1 .. Len(seq) + 1
         /\ \A i \in 1 .. Len(seq) : Append(seq, e)[i] = seq[i]
         /\ Append(seq, e)[Len(seq) + 1] = e
  OBVIOUS

\* Appending two elements at once.
LEMMA AppendTwoFacts ==
  ASSUME NEW S, NEW seq \in Seq(S), NEW d \in S, NEW e \in S
  PROVE  /\ DOMAIN (seq \o <<d, e>>) = 1 .. Len(seq) + 2
         /\ \A i \in 1 .. Len(seq) : (seq \o <<d, e>>)[i] = seq[i]
         /\ (seq \o <<d, e>>)[Len(seq) + 1] = d
         /\ (seq \o <<d, e>>)[Len(seq) + 2] = e
<1>1. <<d, e>> \in Seq(S) /\ Len(<<d, e>>) = 2
  OBVIOUS
<1>2. seq \o <<d, e>> \in Seq(S) /\ Len(seq \o <<d, e>>) = Len(seq) + 2
  BY <1>1, ConcatProperties
<1>3. \A i \in 1 .. Len(seq) + 2 :
        (seq \o <<d, e>>)[i] = IF i <= Len(seq) THEN seq[i]
                               ELSE <<d, e>>[i - Len(seq)]
  BY <1>1, ConcatProperties
<1>4. Len(seq) \in Nat
  BY LenProperties
<1>5. QED BY <1>2, <1>3, <1>4, LenProperties

\* A part of a sequence of numbers, within its bounds, is one again.
LEMMA PartType ==
  ASSUME NEW seq \in Seq(Nat), NEW m \in 1 .. Len(seq) + 1
  PROVE  SubSeq(seq, m, Len(seq)) \in Seq(Nat)
<1>1. \A i \in m .. Len(seq) : seq[i] \in Nat
  BY ElementOfSeq
<1>2. m \in Int /\ Len(seq) \in Int
  BY LenProperties
<1>3. QED BY <1>1, <1>2, SubSeqProperties

\* LastN keeps a part of the sequence.
LEMMA LastNType ==
  ASSUME NEW seq \in Seq(Nat), NEW n \in Nat
  PROVE  LastN(seq, n) \in Seq(Nat)
<1> DEFINE m == IF Len(seq) > n THEN Len(seq) - n + 1 ELSE 1
<1>1. m \in 1 .. Len(seq) + 1
  BY LenProperties
<1> HIDE DEF m
<1>2. SubSeq(seq, m, Len(seq)) \in Seq(Nat)
  BY <1>1, PartType
<1>3. QED BY <1>2 DEF LastN, m

\* Recording an observation leaves a task state.
LEMMA ObservedType ==
  ASSUME NEW ts \in TaskStates, NEW m \in Nat, NEW next \in Observed(ts, m)
  PROVE  next \in TaskStates
<1> DEFINE kept == LastN(Append(ts.observations, m), MaxObservations)
<1>1. /\ ts.revision + 1 \in Nat
      /\ Append(ts.observations, m) \in Seq(Nat)
  BY AppendFacts DEF TaskStates
<1>2. kept \in Seq(Nat)
  BY <1>1, LastNType, ObservationsAssumption
<1> HIDE DEF kept
<1>3. PICK first \in 1 .. Len(kept) + 1 :
        next = [revision |-> ts.revision + 1,
                observations |-> SubSeq(kept, first, Len(kept))]
  BY DEF Observed, kept
<1>4. SubSeq(kept, first, Len(kept)) \in Seq(Nat)
  BY <1>2, <1>3, PartType
<1>5. QED BY <1>1, <1>3, <1>4 DEF TaskStates

\* The status an event leaves and the kind it is written with are known ones.
LEMMA RecordedKinds ==
  ASSUME TypeOK, NEW r \in Runs, NEW kind \in ReportKinds
  PROVE  /\ StatusAfter(r, kind) \in Statuses
         /\ KindWritten(r, kind) \in EventKinds
  BY ReportKindsAssumption
  DEF TypeOK, StatusAfter, KindWritten, Statuses, Active, Ended, TargetStatus,
      EndKind, EventKinds, ProgressKinds, EndKinds, TerminalKinds

-----------------------------------------------------------------------------
(* Type correctness *)

\* The tables are well formed in the empty database.
LEMMA InitTypeOK == StoreInit => TypeOK
<1> SUFFICES ASSUME StoreInit PROVE TypeOK
  OBVIOUS
<1>1. /\ <<>> \in Seq(EventRows) /\ <<>> \in Seq(MessageRows)
      /\ <<>> \in Seq(AttemptRows) /\ <<>> \in Seq(Nat)
  BY EmptySeq
<1>2. NoTaskState \in TaskStates
  BY <1>1 DEF NoTaskState, TaskStates
<1>3. NoUsage \in Usages
  BY DEF NoUsage, Usages
<1>4. "absent" \in Statuses
  BY DEF Statuses
<1>5. QED BY <1>1, <1>2, <1>3, <1>4 DEF StoreInit, TypeOK

\* record_event keeps the tables well formed.
LEMMA ReportTypeOK ==
  ASSUME TypeOK, NEW r \in Runs, NEW kind \in ReportKinds, Report(r, kind),
         broken' \in BOOLEAN
  PROVE  TypeOK'
<1>0. PICK type \in TypesOf(kind), role \in RolesOf(kind), own \in OwnRuns(r) :
        \E calls \in CallsOf(role) :
          RecordEvent(r, Event(kind, type), role, calls, own)
  BY DEF Report
<1>1. PICK calls \in CallsOf(role) :
        RecordEvent(r, Event(kind, type), role, calls, own)
  BY <1>0
<1> DEFINE next == StatusAfter(r, kind)
           written == KindWritten(r, kind)
<1>2. next \in Statuses /\ written \in EventKinds
  BY RecordedKinds
<1>3. /\ type \in RecordTypes
      /\ role \in Roles \cup {"none"}
      /\ calls \in SUBSET Executions
  BY DEF TypesOf, RolesOf, CallsOf, RecordTypes, Roles
<1>4. own.usage \in Usages /\ own.output \in BOOLEAN
  BY DEF OwnRuns, TypeOK, NoUsage, Usages
<1>5. status' \in [Runs -> Statuses] /\ session' \in [Runs -> Sessions \cup {NoSession}]
  BY <1>1, <1>2 DEF RecordEvent, TypeOK, Event
<1>6. usage' \in [Runs -> Usages]
  BY <1>1, <1>4 DEF RecordEvent, TypeOK, Event, Usages
<1>7. output' \in [Runs -> BOOLEAN]
  BY <1>1, <1>4 DEF RecordEvent, TypeOK, Event
<1>8. events' \in [Runs -> Seq(EventRows)]
  <2>1. Event(written, type) \in EventRows
    BY <1>2, <1>3 DEF Event, EventRows
  <2>2. events' = [events EXCEPT ![r] = Append(@, Event(written, type))]
    BY <1>1 DEF RecordEvent, AppendEvent, Event
  <2>3. QED BY <2>1, <2>2, AppendFacts DEF TypeOK
<1>9. messages' \in Seq(MessageRows) /\ taskState' \in [Sessions -> TaskStates]
  <2>1. CASE role = "none"
    BY <1>1, <2>1 DEF RecordEvent, TypeOK
  <2>2. CASE role # "none"
    <3> DEFINE accepted == Accepts(next)
               observed == accepted /\ written = "tool_execution_completed"
               m == [run |-> r, role |-> role, calls |-> calls,
                     observed |-> observed,
                     accepted |-> accepted]
    <3>1. m \in MessageRows
      BY <1>3, <2>2 DEF MessageRows, Accepts
    <3>2. messages' = Append(messages, m)
      BY <1>1, <2>2 DEF RecordEvent, Event
    <3>3. messages' \in Seq(MessageRows)
      BY <3>1, <3>2, AppendFacts DEF TypeOK
    <3>4. taskState' \in [Sessions -> TaskStates]
      <4>1. CASE ~observed
        BY <1>1, <2>2, <4>1 DEF RecordEvent, Event, TypeOK
      <4>2. CASE observed
        <5>1. PICK ts \in Observed(taskState[session[r]], Len(messages) + 1) :
                taskState' = [taskState EXCEPT ![session[r]] = ts]
          BY <1>1, <2>2, <4>2 DEF RecordEvent, Event
        <5>2. Len(messages) + 1 \in Nat
          BY LenProperties DEF TypeOK
        <5>3. CASE session[r] \in Sessions
          <6>1. ts \in TaskStates
            BY <5>1, <5>2, <5>3, ObservedType DEF TypeOK
          <6>2. QED BY <5>1, <6>1 DEF TypeOK
        <5>4. CASE session[r] \notin Sessions
          BY <5>1, <5>4 DEF TypeOK
        <5>5. QED BY <5>3, <5>4
      <4>3. QED BY <4>1, <4>2
    <3>5. QED BY <3>3, <3>4
  <2>3. QED BY <2>1, <2>2
<1>10. attempts' \in Seq(AttemptRows) /\ snapshot' \in TaskStates
  BY <1>1 DEF RecordEvent, TypeOK
<1>11. QED BY <1>5, <1>6, <1>7, <1>8, <1>9, <1>10 DEF TypeOK

\* Every step of the store keeps the tables well formed.
LEMMA StepTypeOK == TypeOK /\ [StoreNext]_storeVars => TypeOK'
<1> SUFFICES ASSUME TypeOK, [StoreNext]_storeVars PROVE TypeOK'
  OBVIOUS
<1>1. CASE UNCHANGED storeVars
  BY <1>1 DEF storeVars, TypeOK
<1>2. CASE Quarantine \/ Open
  BY <1>2 DEF Quarantine, Open, dbVars, TypeOK
<1>3. CASE Commit
  <2>1. broken' \in BOOLEAN
    BY <1>3 DEF Commit
  <2>2. ASSUME NEW s \in Sessions, GetTaskState(s) PROVE TypeOK'
    <3> DEFINE read == taskState[s].observations
    <3>1. read \in Seq(Nat) /\ taskState[s].revision + 1 \in Nat
      BY DEF TypeOK, TaskStates
    <3>2. PICK first \in 1 .. Len(read) + 1 :
            snapshot' = [revision |-> taskState[s].revision + 1,
                         observations |-> SubSeq(read, first, Len(read))]
      BY <2>2 DEF GetTaskState
    <3>3. snapshot' \in TaskStates
      BY <3>1, <3>2, PartType DEF TaskStates
    <3>4. QED BY <2>1, <2>2, <3>3 DEF GetTaskState, dbVars, TypeOK
  <2>3. ASSUME NEW r \in Runs, NEW s \in Sessions, CreateRun(r, s) PROVE TypeOK'
    <3> DEFINE m == [run |-> r, role |-> "user", calls |-> {}, observed |-> FALSE,
                     accepted |-> TRUE]
    <3>1. m \in MessageRows /\ Logical("run_queued") \in EventRows
      BY DEF MessageRows, Roles, Logical, Event, EventRows, EventKinds,
             RecordTypes
    <3>2. messages' \in Seq(MessageRows) /\ events' \in [Runs -> Seq(EventRows)]
      BY <2>3, <3>1, AppendFacts DEF CreateRun, AppendEvent, TypeOK
    <3>3. QED BY <2>1, <2>3, <3>2 DEF CreateRun, TypeOK, Statuses, Active
  <2>4. ASSUME NEW r \in Runs, NEW kind \in ReportKinds, Report(r, kind)
        PROVE  TypeOK'
    BY <2>1, <2>4, ReportTypeOK
  <2>5. ASSUME NEW r \in Runs, CancelRun(r) PROVE TypeOK'
    <3>1. /\ Logical("run_cancel_requested") \in EventRows
          /\ Logical("run_cancelled") \in EventRows
      BY DEF Logical, Event, EventRows, EventKinds, ProgressKinds, EndKinds,
             TerminalKinds, RecordTypes
    <3>2. status' \in [Runs -> Statuses]
      BY <2>5 DEF CancelRun, TypeOK, Statuses, Active, Ended
    <3>3. <<Logical("run_cancel_requested"), Logical("run_cancelled")>>
            \in Seq(EventRows)
      BY <3>1
    <3>4. events' \in [Runs -> Seq(EventRows)]
      <4>1. events[r] \in Seq(EventRows)
        BY DEF TypeOK
      <4>2. events[r] \o <<Logical("run_cancel_requested"),
                           Logical("run_cancelled")>> \in Seq(EventRows)
        BY <3>3, <4>1, ConcatProperties
      <4>3. Append(events[r], Logical("run_cancel_requested")) \in Seq(EventRows)
        BY <3>1, <4>1, AppendFacts
      <4>4. QED BY <2>5, <4>2, <4>3 DEF CancelRun, AppendEvent, TypeOK
    <3>5. QED BY <2>1, <2>5, <3>2, <3>4 DEF CancelRun, TypeOK
  <2>6. ASSUME NEW r \in Runs, Begin(r) PROVE TypeOK'
    <3>1. PICK exec \in Executions, number \in 1 .. MaxAttempts,
               key \in CallKeys, safe \in BOOLEAN :
            BeginAttempt(r, exec, number, key, safe)
      BY <2>6 DEF Begin
    <3>2. [run |-> r, exec |-> exec, number |-> number, key |-> key,
           retry_safe |-> safe, state |-> "pending", outcome_unknown |-> TRUE,
           code |-> "none"] \in AttemptRows
      BY DEF AttemptRows, ResultCodes
    <3>3. Event("tool_execution_started", "attempt_intent") \in EventRows
      BY DEF Event, EventRows, EventKinds, ProgressKinds, RecordTypes
    <3>4. attempts' \in Seq(AttemptRows) /\ events' \in [Runs -> Seq(EventRows)]
      BY <3>1, <3>2, <3>3, AppendFacts DEF BeginAttempt, AppendEvent, TypeOK
    <3>5. QED BY <2>1, <3>1, <3>4 DEF BeginAttempt, TypeOK
  <2>7. ASSUME NEW a \in DOMAIN attempts, Finish(a) PROVE TypeOK'
    <3>1. PICK code \in ResultCodes, unknown \in BOOLEAN :
            EndAttempt(a, code, unknown)
      BY <2>7 DEF Finish
    <3>2. attempts[a] \in AttemptRows /\ attempts \in Seq(AttemptRows)
      BY DEF TypeOK
    <3> DEFINE row == [attempts[a] EXCEPT
                         !.state = IF code = "none" THEN "succeeded" ELSE "failed",
                         !.code = code, !.outcome_unknown = unknown]
    <3>3. row \in AttemptRows
      BY <3>2 DEF AttemptRows
    <3>4. attempts' = [attempts EXCEPT ![a] = row]
      BY <3>1 DEF EndAttempt
    <3>5. attempts' \in Seq(AttemptRows)
      BY <3>2, <3>3, <3>4, ExceptSeq, LenProperties
    <3>6. \A kind \in {"tool_execution_completed", "tool_execution_failed"} :
            Event(kind, "attempt_result") \in EventRows
      BY DEF Event, EventRows, EventKinds, ProgressKinds, RecordTypes
    <3>7. events' \in [Runs -> Seq(EventRows)]
      BY <3>1, <3>6, AppendFacts DEF EndAttempt, AppendEvent, TypeOK
    <3>8. QED BY <2>1, <3>1, <3>5, <3>7 DEF EndAttempt, TypeOK
  <2>8. ASSUME NEW a \in DOMAIN attempts, ResolveAttempt(a) PROVE TypeOK'
    <3>1. attempts[a] \in AttemptRows /\ attempts \in Seq(AttemptRows)
      BY DEF TypeOK
    <3>2. attempts' \in Seq(AttemptRows)
      <4> DEFINE row == [attempts[a] EXCEPT !.state = "reconciled",
                                            !.outcome_unknown = FALSE]
      <4>1. row \in AttemptRows
        BY <3>1 DEF AttemptRows
      <4>2. attempts' = [attempts EXCEPT ![a] = row]
        BY <2>8 DEF ResolveAttempt
      <4> HIDE DEF row
      <4>3. QED BY <2>8, <3>1, <4>1, <4>2, ExceptSeq
    <3>3. Logical("tool_outcome_reconciled") \in EventRows
      BY DEF Logical, Event, EventRows, EventKinds, RecordTypes
    <3>4. events' \in [Runs -> Seq(EventRows)]
      BY <2>8, <3>3, AppendFacts DEF ResolveAttempt, AppendEvent, TypeOK
    <3>5. QED BY <2>1, <2>8, <3>2, <3>4 DEF ResolveAttempt, TypeOK
  <2>9. ASSUME Recover PROVE TypeOK'
    <3>1. status' \in [Runs -> Statuses] /\ output' \in [Runs -> BOOLEAN]
      BY <2>9 DEF Recover, RecoveredStatus, TypeOK, Statuses, Ended
    <3>2. \A st \in Statuses :
            Logical(EndKind(RecoveredStatus(st))) \in EventRows
      BY DEF Logical, Event, EventRows, EventKinds, EndKinds, TerminalKinds,
             EndKind, RecoveredStatus, RecordTypes
    <3>3. events' \in [Runs -> Seq(EventRows)]
      BY <2>9, <3>2, AppendFacts DEF Recover, TypeOK
    <3>4. QED BY <2>1, <2>9, <3>1, <3>3 DEF Recover, TypeOK
  <2>10. QED
    BY <1>3, <2>2, <2>3, <2>4, <2>5, <2>6, <2>7, <2>8, <2>9
    DEF Commit, Operation
<1>4. QED BY <1>1, <1>2, <1>3 DEF StoreNext

\* Whatever the clients do, in whatever order, the rows stay well formed:
\* every handler writes only statuses, kinds and outcomes the others know.
THEOREM TypeCorrect == StoreSpec => []TypeOK
BY InitTypeOK, StepTypeOK, PTL DEF StoreSpec

-----------------------------------------------------------------------------
(* What one step may do to one run *)

\* Event e is appended to the log of run q, and this is all that may happen to
\* its row with it.
Moves(q, e) ==
  /\ status[q] \in Ended =>
       /\ status'[q] = status[q]
       /\ output'[q] = output[q]
       /\ \/ e.kind \in {"late_result_recorded", "tool_outcome_reconciled"}
          \/ e.type = "attempt_result"
  /\ e.kind \in EndKinds =>
       status[q] \in Active /\ status'[q] \in Ended /\ e.kind = EndKind(status'[q])
  /\ e.kind \notin EndKinds /\ status'[q] \in Ended => status[q] \in Ended
  /\ e.kind = "run_cancel_requested" =>
       status[q] \in Active /\ status'[q] = "cancel_requested"
  /\ status[q] = "cancel_requested" =>
       status'[q] \in {"cancel_requested", "cancelled"}
  /\ status[q] \in Active /\ status'[q] = "cancelled" => ~output'[q]
  /\ status'[q] \notin Ended => output'[q] = output[q]

CancelsQueued(q) ==
  /\ status[q] = "queued" /\ status'[q] = "cancelled"
  /\ output'[q] = output[q]
  /\ events'[q] = events[q] \o
       <<Logical("run_cancel_requested"), Logical("run_cancelled")>>

Rests(q) ==
  status'[q] = status[q] /\ output'[q] = output[q] /\ events'[q] = events[q]

RunStep(q) ==
  \/ Rests(q)
  \/ CancelsQueued(q)
  \/ \E e \in EventRows : events'[q] = Append(events[q], e) /\ Moves(q, e)

\* The event record_event writes moves the run it is about.
LEMMA ReportMoves ==
  ASSUME TypeOK, NEW r \in Runs, NEW kind \in ReportKinds, Report(r, kind),
         NEW q \in Runs
  PROVE  RunStep(q)
<1>0. PICK type \in TypesOf(kind), role \in RolesOf(kind), own \in OwnRuns(r) :
        \E calls \in CallsOf(role) :
          RecordEvent(r, Event(kind, type), role, calls, own)
  BY DEF Report
<1>1. PICK calls \in CallsOf(role) :
        RecordEvent(r, Event(kind, type), role, calls, own)
  BY <1>0
<1> DEFINE next == StatusAfter(r, kind)
           written == KindWritten(r, kind)
           e == Event(written, type)
<1>2. CASE q # r
  BY <1>1, <1>2 DEF RecordEvent, AppendEvent, TypeOK, RunStep, Rests
<1>3. CASE q = r
  <2>1. e \in EventRows
    BY RecordedKinds DEF Event, EventRows, TypesOf, RecordTypes
  <2>2. /\ status[r] # "absent"
        /\ status'[r] = next
        /\ events'[r] = Append(events[r], e)
        /\ output'[r] = IF status[r] \in Active /\ next \in Ended
                        THEN next # "cancelled" /\ own.output ELSE output[r]
    BY <1>1 DEF RecordEvent, AppendEvent, TypeOK, Event
  <2>3. e.kind = written
    BY DEF Event
  <2>4. Moves(r, e)
    BY <2>2, <2>3, ReportKindsAssumption
    DEF Moves, StatusAfter, KindWritten, TypeOK, Statuses, Active, Ended,
        EndKind, EndKinds, TerminalKinds, TargetStatus
  <2>5. QED BY <1>3, <2>1, <2>2, <2>4 DEF RunStep
<1>4. QED BY <1>2, <1>3

\* Every step leaves a run alone, cancels it in the queue, or moves it.
LEMMA EveryRunSteps ==
  ASSUME TypeOK, [StoreNext]_storeVars, NEW q \in Runs
  PROVE  RunStep(q)
<1>1. CASE UNCHANGED storeVars \/ Quarantine \/ Open
  BY <1>1 DEF storeVars, dbVars, Quarantine, Open, RunStep, Rests
<1>2. CASE Commit
  <2>1. ASSUME NEW s \in Sessions, GetTaskState(s) PROVE RunStep(q)
    BY <2>1 DEF GetTaskState, dbVars, RunStep, Rests
  <2>2. ASSUME NEW r \in Runs, NEW s \in Sessions, CreateRun(r, s)
        PROVE  RunStep(q)
    <3>1. CASE q # r
      BY <2>2, <3>1 DEF CreateRun, AppendEvent, TypeOK, RunStep, Rests
    <3>2. CASE q = r
      <4> DEFINE e == Logical("run_queued")
      <4>1. e \in EventRows /\ e.kind = "run_queued"
        BY DEF Logical, Event, EventRows, EventKinds, RecordTypes
      <4>2. /\ status[r] = "absent" /\ status'[r] = "queued"
            /\ output'[r] = output[r]
            /\ events'[r] = Append(events[r], e)
        BY <2>2 DEF CreateRun, AppendEvent, TypeOK
      <4>3. Moves(r, e)
        BY <4>1, <4>2 DEF Moves, Active, Ended, EndKinds, TerminalKinds
      <4>4. QED BY <3>2, <4>1, <4>2, <4>3 DEF RunStep
    <3>3. QED BY <3>1, <3>2
  <2>3. ASSUME NEW r \in Runs, NEW kind \in ReportKinds, Report(r, kind)
        PROVE  RunStep(q)
    BY <2>3, ReportMoves
  <2>4. ASSUME NEW r \in Runs, CancelRun(r) PROVE RunStep(q)
    <3>1. CASE q # r
      BY <2>4, <3>1 DEF CancelRun, AppendEvent, TypeOK, RunStep, Rests
    <3>2. CASE q = r /\ status[r] = "running"
      <4> DEFINE e == Logical("run_cancel_requested")
      <4>1. e \in EventRows /\ e.kind = "run_cancel_requested"
        BY DEF Logical, Event, EventRows, EventKinds, ProgressKinds, RecordTypes
      <4>2. /\ status'[r] = "cancel_requested"
            /\ output'[r] = output[r]
            /\ events'[r] = Append(events[r], e)
        BY <2>4, <3>2 DEF CancelRun, AppendEvent, TypeOK, Ended
      <4>3. Moves(r, e)
        BY <3>2, <4>1, <4>2 DEF Moves, Active, Ended, EndKinds, TerminalKinds
      <4>4. QED BY <3>2, <4>1, <4>2, <4>3 DEF RunStep
    <3>3. CASE q = r /\ status[r] # "running"
      BY <2>4, <3>3 DEF CancelRun, TypeOK, RunStep, Rests, CancelsQueued, Ended
    <3>4. QED BY <3>1, <3>2, <3>3
  <2>5. ASSUME NEW r \in Runs, Begin(r) PROVE RunStep(q)
    <3> DEFINE e == Event("tool_execution_started", "attempt_intent")
    <3>1. /\ status[r] = "running" /\ status' = status /\ output' = output
          /\ events' = [events EXCEPT ![r] = Append(@, e)]
      BY <2>5 DEF Begin, BeginAttempt, AppendEvent
    <3>2. e \in EventRows /\ e.kind = "tool_execution_started"
      BY DEF Event, EventRows, EventKinds, ProgressKinds, RecordTypes
    <3>3. Moves(r, e)
      BY <3>1, <3>2 DEF Moves, Active, Ended, EndKinds, TerminalKinds
    <3>4. QED BY <3>1, <3>2, <3>3 DEF TypeOK, RunStep, Rests
  <2>6. ASSUME NEW a \in DOMAIN attempts, Finish(a) PROVE RunStep(q)
    <3>1. PICK e \in [kind : {"tool_execution_completed", "tool_execution_failed"},
                      type : {"attempt_result"}] :
            events' = [events EXCEPT ![attempts[a].run] = Append(@, e)]
      BY <2>6 DEF Finish, EndAttempt, AppendEvent, Event
    <3>2. status' = status /\ output' = output
      BY <2>6 DEF Finish, EndAttempt
    <3>3. e \in EventRows
      BY DEF EventRows, EventKinds, ProgressKinds, RecordTypes
    <3>4. Moves(q, e)
      BY <3>2 DEF Moves, Active, Ended, EndKinds, TerminalKinds
    <3>5. QED BY <3>1, <3>2, <3>3, <3>4 DEF TypeOK, RunStep, Rests
  <2>7. ASSUME NEW a \in DOMAIN attempts, ResolveAttempt(a) PROVE RunStep(q)
    <3> DEFINE e == Logical("tool_outcome_reconciled")
    <3>1. /\ status' = status /\ output' = output
          /\ events' = [events EXCEPT ![attempts[a].run] = Append(@, e)]
      BY <2>7 DEF ResolveAttempt, AppendEvent
    <3>2. e \in EventRows /\ e.kind = "tool_outcome_reconciled"
      BY DEF Logical, Event, EventRows, EventKinds, RecordTypes
    <3>3. Moves(q, e)
      BY <3>1, <3>2 DEF Moves, Active, Ended, EndKinds, TerminalKinds
    <3>4. QED BY <3>1, <3>2, <3>3 DEF TypeOK, RunStep, Rests
  <2>8. ASSUME Recover PROVE RunStep(q)
    <3>1. CASE status[q] \notin Active
      BY <2>8, <3>1 DEF Recover, TypeOK, RunStep, Rests
    <3>2. CASE status[q] \in Active
      <4> DEFINE next == RecoveredStatus(status[q])
                 e == Logical(EndKind(next))
      <4>1. /\ status'[q] = next /\ ~output'[q]
            /\ events'[q] = Append(events[q], e)
        BY <2>8, <3>2 DEF Recover
      <4>2. e \in EventRows /\ e.kind = EndKind(next) /\ e.kind \in EndKinds
        BY DEF Logical, Event, EventRows, EventKinds, EndKinds, TerminalKinds,
               EndKind, RecoveredStatus, RecordTypes
      <4>3. Moves(q, e)
        BY <3>2, <4>1, <4>2
        DEF Moves, RecoveredStatus, Active, Ended, EndKinds, TerminalKinds
      <4>4. QED BY <4>1, <4>2, <4>3 DEF RunStep
    <3>3. QED BY <3>1, <3>2
  <2>9. QED
    BY <1>2, <2>1, <2>2, <2>3, <2>4, <2>5, <2>6, <2>7, <2>8
    DEF Commit, Operation
<1>3. QED BY <1>1, <1>2 DEF StoreNext

\* The log of a run grows at its end only; DOMAIN and elements after a step.
LEMMA LogGrows ==
  ASSUME TypeOK, NEW q \in Runs, NEW e \in EventRows,
         events'[q] = Append(events[q], e)
  PROVE  /\ DOMAIN events[q] = 1 .. Len(events[q]) /\ Len(events[q]) \in Nat
         /\ DOMAIN events'[q] = 1 .. Len(events[q]) + 1
         /\ \A i \in DOMAIN events[q] : events'[q][i] = events[q][i]
         /\ events'[q][Len(events[q]) + 1] = e
<1>1. events[q] \in Seq(EventRows)
  BY DEF TypeOK
<1>2. QED BY <1>1, AppendFacts, LenProperties

\* Cancelling a queued run adds the request and the end to its log.
LEMMA LogOfCancelled ==
  ASSUME TypeOK, NEW q \in Runs, CancelsQueued(q)
  PROVE  /\ DOMAIN events[q] = 1 .. Len(events[q]) /\ Len(events[q]) \in Nat
         /\ DOMAIN events'[q] = 1 .. Len(events[q]) + 2
         /\ \A i \in DOMAIN events[q] : events'[q][i] = events[q][i]
         /\ events'[q][Len(events[q]) + 1].kind = "run_cancel_requested"
         /\ events'[q][Len(events[q]) + 2].kind = "run_cancelled"
<1>1. events[q] \in Seq(EventRows)
  BY DEF TypeOK
<1>2. /\ Logical("run_cancel_requested") \in EventRows
      /\ Logical("run_cancelled") \in EventRows
  BY DEF Logical, Event, EventRows, EventKinds, ProgressKinds, EndKinds,
         TerminalKinds, RecordTypes
<1>3. QED BY <1>1, <1>2, AppendTwoFacts, LenProperties
          DEF CancelsQueued, Logical, Event

-----------------------------------------------------------------------------
(* How runs end *)

\* One step keeps the log and the row of a run in agreement.
LEMMA StepEndedOnce ==
  TypeOK /\ EndedOnce /\ [StoreNext]_storeVars => EndedOnce'
<1> SUFFICES ASSUME TypeOK, EndedOnce, [StoreNext]_storeVars, NEW q \in Runs
             PROVE  IF status'[q] \in Ended
                    THEN \E i \in DOMAIN events'[q] :
                           /\ events'[q][i].kind = EndKind(status'[q])
                           /\ \A j \in DOMAIN events'[q] :
                                events'[q][j].kind \in EndKinds => j = i
                    ELSE \A i \in DOMAIN events'[q] :
                           events'[q][i].kind \notin EndKinds
  BY DEF EndedOnce
<1> DEFINE n == Len(events[q])
<1>1. CASE Rests(q)
  BY <1>1 DEF EndedOnce, Rests
<1>2. CASE CancelsQueued(q)
  <2>1. \A i \in DOMAIN events[q] : events[q][i].kind \notin EndKinds
    BY <1>2 DEF EndedOnce, CancelsQueued, Ended
  <2>2. \A j \in DOMAIN events'[q] :
          events'[q][j].kind \in EndKinds => j = n + 2
    BY <1>2, <2>1, LogOfCancelled DEF EndKinds, TerminalKinds
  <2>3. /\ n + 2 \in DOMAIN events'[q]
        /\ events'[q][n + 2].kind = EndKind(status'[q])
        /\ status'[q] \in Ended
    <3>1. status'[q] = "cancelled"
      BY <1>2 DEF CancelsQueued
    <3>2. EndKind(status'[q]) = "run_cancelled" /\ status'[q] \in Ended
      BY <3>1 DEF EndKind, Ended
    <3>3. /\ DOMAIN events'[q] = 1 .. n + 2 /\ n \in Nat
          /\ events'[q][n + 2].kind = "run_cancelled"
      BY <1>2, LogOfCancelled
    <3>4. QED BY <3>2, <3>3
  <2>4. QED BY <2>2, <2>3
<1>3. ASSUME NEW e \in EventRows, events'[q] = Append(events[q], e), Moves(q, e)
      PROVE  IF status'[q] \in Ended
             THEN \E i \in DOMAIN events'[q] :
                    /\ events'[q][i].kind = EndKind(status'[q])
                    /\ \A j \in DOMAIN events'[q] :
                         events'[q][j].kind \in EndKinds => j = i
             ELSE \A i \in DOMAIN events'[q] :
                    events'[q][i].kind \notin EndKinds
  <2>1. /\ DOMAIN events[q] = 1 .. n /\ n \in Nat
        /\ DOMAIN events'[q] = 1 .. n + 1
        /\ \A i \in DOMAIN events[q] : events'[q][i] = events[q][i]
        /\ events'[q][n + 1] = e
    BY <1>3, LogGrows
  <2> HIDE DEF n
  <2>2. CASE e.kind \in EndKinds
    <3>1. status[q] \notin Ended
      BY <1>3, <2>2 DEF Moves, Active, Ended
    <3>2. \A j \in DOMAIN events'[q] :
            events'[q][j].kind \in EndKinds => j = n + 1
      BY <2>1, <3>1 DEF EndedOnce
    <3>3. /\ n + 1 \in DOMAIN events'[q]
          /\ events'[q][n + 1].kind = EndKind(status'[q])
          /\ status'[q] \in Ended
      BY <1>3, <2>1, <2>2 DEF Moves
    <3>4. QED BY <3>2, <3>3
  <2>3. CASE e.kind \notin EndKinds /\ status[q] \in Ended
    <3>1. status'[q] = status[q]
      BY <1>3, <2>3 DEF Moves
    <3>2. PICK i \in DOMAIN events[q] :
            /\ events[q][i].kind = EndKind(status[q])
            /\ \A j \in DOMAIN events[q] :
                 events[q][j].kind \in EndKinds => j = i
      BY <2>3 DEF EndedOnce
    <3>3. \A j \in DOMAIN events'[q] : events'[q][j].kind \in EndKinds => j = i
      BY <2>1, <2>3, <3>2
    <3>4. i \in DOMAIN events'[q] /\ events'[q][i].kind = EndKind(status'[q])
      BY <2>1, <3>1, <3>2
    <3>5. QED BY <2>3, <3>1, <3>3, <3>4
  <2>4. CASE e.kind \notin EndKinds /\ status[q] \notin Ended
    <3>1. status'[q] \notin Ended
      BY <1>3, <2>4 DEF Moves
    <3>2. QED BY <2>1, <2>4, <3>1 DEF EndedOnce
  <2>5. QED BY <2>2, <2>3, <2>4
<1>4. QED BY <1>1, <1>2, <1>3, EveryRunSteps DEF RunStep

\* However late results, cancellations, ends and recoveries interleave, a run
\* that ended has one terminal event, the one of its status.
THEOREM RunsEndOnce == StoreSpec => []EndedOnce
<1>1. StoreInit => EndedOnce
  BY DEF StoreInit, EndedOnce, Ended
<1>2. QED BY <1>1, StepEndedOnce, TypeCorrect, PTL DEF StoreSpec

\* What follows a terminal event is diagnostic, in every interleaving.
THEOREM EndedLogsAreClosed == StoreSpec => []LogClosed
<1>1. StoreInit => LogClosed
  BY DEF StoreInit, LogClosed
<1>2. TypeOK /\ EndedOnce /\ LogClosed /\ [StoreNext]_storeVars => LogClosed'
  <2> SUFFICES ASSUME TypeOK, EndedOnce, LogClosed, [StoreNext]_storeVars,
                      NEW q \in Runs, NEW i \in DOMAIN events'[q],
                      NEW j \in DOMAIN events'[q], i < j,
                      events'[q][i].kind \in EndKinds
               PROVE  \/ events'[q][j].kind \in {"late_result_recorded",
                                                 "tool_outcome_reconciled"}
                      \/ events'[q][j].type = "attempt_result"
    BY DEF LogClosed
  <2> DEFINE n == Len(events[q])
  <2>1. CASE Rests(q)
    BY <2>1 DEF LogClosed, Rests
  <2>2. CASE CancelsQueued(q)
    <3>1. \A k \in DOMAIN events[q] : events[q][k].kind \notin EndKinds
      BY <2>2 DEF EndedOnce, CancelsQueued, Ended
    <3>2. i = n + 2 /\ j \in 1 .. n + 2 /\ n \in Nat
      BY <2>2, <3>1, LogOfCancelled DEF EndKinds, TerminalKinds
    <3>3. QED BY <3>2
  <2>3. ASSUME NEW e \in EventRows, events'[q] = Append(events[q], e),
               Moves(q, e)
        PROVE  \/ events'[q][j].kind \in {"late_result_recorded",
                                          "tool_outcome_reconciled"}
               \/ events'[q][j].type = "attempt_result"
    <3>1. /\ DOMAIN events[q] = 1 .. n /\ n \in Nat
          /\ DOMAIN events'[q] = 1 .. n + 1
          /\ \A k \in DOMAIN events[q] : events'[q][k] = events[q][k]
          /\ events'[q][n + 1] = e
      BY <2>3, LogGrows
    <3> HIDE DEF n
    <3>2. i \in DOMAIN events[q] /\ events[q][i].kind \in EndKinds
      BY <3>1
    <3>3. CASE j = n + 1
      <4>1. status[q] \in Ended
        BY <3>2 DEF EndedOnce
      <4>2. QED BY <2>3, <3>1, <3>3, <4>1 DEF Moves
    <3>4. CASE j # n + 1
      BY <3>1, <3>2, <3>4 DEF LogClosed
    <3>5. QED BY <3>3, <3>4
  <2>4. QED BY <2>1, <2>2, <2>3, EveryRunSteps DEF RunStep
<1>3. QED BY <1>1, <1>2, RunsEndOnce, TypeCorrect, PTL DEF StoreSpec

\* A run without an end has no output yet: what makes CancelWins inductive.
NoAnswerYet == \A r \in Runs : status[r] \notin Ended => ~output[r]

\* One step keeps a cancelling run from any other end, and from an answer.
LEMMA StepCancelWins ==
  TypeOK /\ NoAnswerYet /\ CancelWins /\ [StoreNext]_storeVars
    => NoAnswerYet' /\ CancelWins'
<1> SUFFICES ASSUME TypeOK, NoAnswerYet, CancelWins, [StoreNext]_storeVars,
                    NEW q \in Runs
             PROVE  /\ status'[q] \notin Ended => ~output'[q]
                    /\ (\E i \in DOMAIN events'[q] :
                          events'[q][i].kind = "run_cancel_requested")
                       => /\ status'[q] \in {"cancel_requested", "cancelled"}
                          /\ ~output'[q]
  BY DEF NoAnswerYet, CancelWins
<1>1. CASE Rests(q)
  BY <1>1 DEF NoAnswerYet, CancelWins, Rests
<1>2. CASE CancelsQueued(q)
  BY <1>2 DEF NoAnswerYet, CancelsQueued, Ended
<1>3. ASSUME NEW e \in EventRows, events'[q] = Append(events[q], e), Moves(q, e)
      PROVE  /\ status'[q] \notin Ended => ~output'[q]
             /\ (\E i \in DOMAIN events'[q] :
                   events'[q][i].kind = "run_cancel_requested")
                => /\ status'[q] \in {"cancel_requested", "cancelled"}
                   /\ ~output'[q]
  <2> DEFINE n == Len(events[q])
  <2>1. /\ DOMAIN events[q] = 1 .. n /\ n \in Nat
        /\ DOMAIN events'[q] = 1 .. n + 1
        /\ \A k \in DOMAIN events[q] : events'[q][k] = events[q][k]
        /\ events'[q][n + 1] = e
    BY <1>3, LogGrows
  <2> HIDE DEF n
  <2>2. status'[q] \notin Ended => ~output'[q]
    BY <1>3 DEF Moves, NoAnswerYet
  <2>3. CASE e.kind = "run_cancel_requested"
    BY <1>3, <2>2, <2>3 DEF Moves, Ended
  <2>4. CASE \E i \in DOMAIN events[q] :
               events[q][i].kind = "run_cancel_requested"
    <3>1. status[q] \in {"cancel_requested", "cancelled"} /\ ~output[q]
      BY <2>4 DEF CancelWins
    <3>2. QED BY <1>3, <2>2, <3>1 DEF Moves, Active, Ended
  <2>5. CASE /\ e.kind # "run_cancel_requested"
             /\ ~\E i \in DOMAIN events[q] :
                   events[q][i].kind = "run_cancel_requested"
    BY <2>1, <2>2, <2>5
  <2>6. QED BY <2>3, <2>4, <2>5
<1>4. QED BY <1>1, <1>2, <1>3, EveryRunSteps DEF RunStep

\* A durable cancellation request decides the end of the run and its answer,
\* whichever completion, failure or recovery races with it.
THEOREM CancellationWins == StoreSpec => []CancelWins
<1>1. StoreInit => NoAnswerYet /\ CancelWins
  BY DEF StoreInit, NoAnswerYet, CancelWins
<1>2. QED BY <1>1, StepCancelWins, TypeCorrect, PTL DEF StoreSpec

\* The row of a run that ended is final, in every step of every client.
THEOREM EndedRowsAreFinal == StoreSpec => EndedRowFrozen
<1>1. ASSUME TypeOK, [StoreNext]_storeVars, NEW r \in Runs, status[r] \in Ended
      PROVE  /\ status'[r] = status[r]
             /\ usage'[r] = usage[r]
             /\ output'[r] = output[r]
             /\ \A m \in DOMAIN messages' :
                  messages'[m].run = r /\ messages'[m].accepted
                  => m \in DOMAIN messages
  <2>1. status'[r] = status[r] /\ output'[r] = output[r]
    <3>1. ASSUME NEW e \in EventRows, Moves(r, e)
          PROVE  status'[r] = status[r] /\ output'[r] = output[r]
      BY <1>1, <3>1 DEF Moves
    <3>2. ~CancelsQueued(r)
      BY <1>1 DEF CancelsQueued, Ended
    <3>3. QED BY <1>1, <3>1, <3>2, EveryRunSteps DEF RunStep, Rests
  <2>2. CASE UNCHANGED <<usage, messages>>
    BY <2>1, <2>2
  <2>3. ASSUME NEW q \in Runs, NEW s \in Sessions, CreateRun(q, s)
        PROVE  /\ usage'[r] = usage[r]
               /\ \A m \in DOMAIN messages' :
                    messages'[m].run = r /\ messages'[m].accepted
                    => m \in DOMAIN messages
    <3> DEFINE new == [run |-> q, role |-> "user", calls |-> {}, observed |-> FALSE,
                       accepted |-> TRUE]
    <3>1. q # r /\ usage' = usage
      BY <1>1, <2>3 DEF CreateRun, Ended
    <3>2. new \in MessageRows /\ messages \in Seq(MessageRows)
      BY <1>1 DEF MessageRows, Roles, TypeOK
    <3>3. messages' = Append(messages, new) /\ new.run = q
      BY <2>3 DEF CreateRun
    <3>4. QED BY <3>1, <3>2, <3>3, AppendFacts, LenProperties
  <2>4. ASSUME NEW q \in Runs, NEW kind \in ReportKinds, Report(q, kind)
        PROVE  /\ usage'[r] = usage[r]
               /\ \A m \in DOMAIN messages' :
                    messages'[m].run = r /\ messages'[m].accepted
                    => m \in DOMAIN messages
    <3>0. PICK type \in TypesOf(kind), role \in RolesOf(kind),
               own \in OwnRuns(q) :
            \E calls \in CallsOf(role) :
              RecordEvent(q, Event(kind, type), role, calls, own)
      BY <2>4 DEF Report
    <3>1. PICK calls \in CallsOf(role) :
            RecordEvent(q, Event(kind, type), role, calls, own)
      BY <3>0
    <3> DEFINE next == StatusAfter(q, kind)
               written == KindWritten(q, kind)
               accepted == Accepts(next)
               observed == accepted /\ written = "tool_execution_completed"
               new == [run |-> q, role |-> role, calls |-> calls,
                       observed |-> observed,
                       accepted |-> accepted]
    <3>2. usage'[r] = usage[r]
      <4>1. CASE q # r
        BY <1>1, <3>1, <4>1 DEF RecordEvent, TypeOK
      <4>2. CASE q = r
        <5>1. written = "late_result_recorded" /\ status[r] \notin Active
          BY <1>1, <4>2 DEF KindWritten, Active, Ended
        <5>2. usage[r] \in [steps : Nat, calls : Nat]
          BY <1>1 DEF TypeOK, Usages
        <5>3. usage'[r] = [steps |-> usage[r].steps + 0,
                           calls |-> usage[r].calls + 0]
          BY <1>1, <3>1, <4>2, <5>1 DEF RecordEvent, TypeOK, Event
        <5>4. QED BY <5>2, <5>3
      <4>3. QED BY <4>1, <4>2
    <3>3. CASE role = "none"
      BY <3>1, <3>2, <3>3 DEF RecordEvent
    <3>4. CASE role # "none"
      <4>1. q = r => ~accepted
        BY <1>1 DEF StatusAfter, Accepts, Active, Ended
      <4>2. new \in MessageRows /\ messages \in Seq(MessageRows)
        BY <1>1, <3>4
        DEF MessageRows, Roles, RolesOf, CallsOf, Accepts, TypeOK
      <4>3. messages' = Append(messages, new)
        BY <3>1, <3>4 DEF RecordEvent, Event
      <4>4. new.run = r => ~new.accepted
        BY <4>1
      <4> HIDE DEF new
      <4>5. /\ DOMAIN messages = 1 .. Len(messages) /\ Len(messages) \in Nat
            /\ DOMAIN messages' = 1 .. Len(messages) + 1
            /\ messages'[Len(messages) + 1] = new
        BY <4>2, <4>3, AppendFacts, LenProperties
      <4>6. QED BY <3>2, <4>4, <4>5
    <3>5. QED BY <3>3, <3>4
  <2>5. QED
    BY <1>1, <2>1, <2>2, <2>3, <2>4
    DEF StoreNext, Commit, Quarantine, Open, Operation, storeVars, dbVars,
        GetTaskState, CancelRun, Begin, BeginAttempt, Finish, EndAttempt,
        ResolveAttempt, Recover
<1>2. TypeOK /\ [StoreNext]_storeVars =>
        [\A r \in Runs : status[r] \in Ended =>
           /\ status'[r] = status[r]
           /\ usage'[r] = usage[r]
           /\ output'[r] = output[r]
           /\ \A m \in DOMAIN messages' :
                messages'[m].run = r /\ messages'[m].accepted
                => m \in DOMAIN messages]_storeVars
  BY <1>1
<1>3. QED BY <1>2, TypeCorrect, PTL DEF StoreSpec, EndedRowFrozen

-----------------------------------------------------------------------------
(* Sessions *)

\* How a step that creates no run may change the statuses: not at all, one
\* run in progress, or, at a restart, all of them.
StatusStep ==
  \/ status' = status
  \/ \E r \in Runs, st \in Active \cup Ended :
       /\ status[r] \in Active
       /\ status[r] = "cancel_requested" =>
            st \in {"cancel_requested", "cancelled"}
       /\ status' = [status EXCEPT ![r] = st]
  \/ status' = [r \in Runs |-> IF status[r] \in Active
                               THEN RecoveredStatus(status[r]) ELSE status[r]]

\* Only create_run makes a run active or gives it a session.
LEMMA OnlyCreationActivates ==
  ASSUME TypeOK, [StoreNext]_storeVars
  PROVE  \/ \E r \in Runs, s \in Sessions : CreateRun(r, s)
         \/ session' = session /\ StatusStep
<1>1. CASE UNCHANGED storeVars \/ Quarantine \/ Open
  BY <1>1 DEF storeVars, dbVars, Quarantine, Open, StatusStep
<1>2. ASSUME NEW r \in Runs, NEW kind \in ReportKinds, Report(r, kind)
      PROVE  session' = session /\ StatusStep
  <2> DEFINE st == StatusAfter(r, kind)
  <2>1. /\ status[r] # "absent" /\ session' = session
        /\ status' = [status EXCEPT ![r] = st]
    BY <1>2 DEF Report, RecordEvent, Event
  <2>2. CASE status[r] \in Active
    <3>1. /\ st \in Active \cup Ended
          /\ status[r] = "cancel_requested" =>
               st \in {"cancel_requested", "cancelled"}
      BY <2>2 DEF StatusAfter, Active, Ended, TargetStatus
    <3>2. QED BY <2>1, <2>2, <3>1 DEF StatusStep
  <2>3. CASE status[r] \notin Active
    <3>1. st = status[r]
      BY <2>3 DEF StatusAfter, Active
    <3>2. QED BY <2>1, <3>1 DEF StatusStep, TypeOK
  <2>4. QED BY <2>2, <2>3
<1>3. ASSUME NEW r \in Runs, CancelRun(r)
      PROVE  session' = session /\ StatusStep
  <2>1. CASE status[r] \in {"queued", "running"}
    <3>1. \E st \in {"cancelled", "cancel_requested"} :
            status' = [status EXCEPT ![r] = st]
      BY <1>3, <2>1 DEF CancelRun, Ended
    <3>2. QED BY <1>3, <2>1, <3>1 DEF CancelRun, StatusStep, Active, Ended
  <2>2. CASE status[r] \notin {"queued", "running"}
    BY <1>3, <2>2 DEF CancelRun, StatusStep
  <2>3. QED BY <2>1, <2>2
<1>4. ASSUME Recover
      PROVE  session' = session /\ StatusStep
  BY <1>4 DEF Recover, StatusStep
<1>5. QED
  BY <1>1, <1>2, <1>3, <1>4
  DEF StoreNext, Commit, Operation, dbVars, GetTaskState, Begin, BeginAttempt,
      Finish, EndAttempt, ResolveAttempt, StatusStep

\* A session never has two runs in progress, in any order of submissions,
\* cancellations, ends and restarts.
THEOREM OneRunPerSession == StoreSpec => []OneActiveRun
<1>1. StoreInit => OneActiveRun
  BY DEF StoreInit, OneActiveRun, Active
<1>2. TypeOK /\ OneActiveRun /\ [StoreNext]_storeVars => OneActiveRun'
  <2> SUFFICES ASSUME TypeOK, OneActiveRun, [StoreNext]_storeVars
               PROVE  OneActiveRun'
    OBVIOUS
  <2>1. ASSUME NEW r \in Runs, NEW s \in Sessions, CreateRun(r, s)
        PROVE  OneActiveRun'
    <3>1. \A q \in Runs : q # r =>
            status'[q] = status[q] /\ session'[q] = session[q]
      BY <2>1 DEF CreateRun, TypeOK
    <3>2. \A q \in Runs : session[q] = s => status[q] \notin Active
      BY <2>1 DEF CreateRun, ActiveIn
    <3>3. session'[r] = s
      BY <2>1 DEF CreateRun, TypeOK
    <3>4. QED BY <3>1, <3>2, <3>3 DEF OneActiveRun
  <2>2. CASE session' = session /\ StatusStep
    <3>1. \A q \in Runs : status'[q] \in Active => status[q] \in Active
      BY <2>2 DEF StatusStep, RecoveredStatus, TypeOK, Active
    <3>2. QED BY <2>2, <3>1 DEF OneActiveRun
  <2>3. QED BY <2>1, <2>2, OnlyCreationActivates
<1>3. QED BY <1>1, <1>2, TypeCorrect, PTL DEF StoreSpec

-----------------------------------------------------------------------------
(* Operations in doubt *)

\* At most one unsafe operation with a key is in doubt, over all runs and
\* restarts: the guard of begin_attempt is enough whatever happened before.
THEOREM OneInDoubt == StoreSpec => []OneUnresolved
<1>1. StoreInit => OneUnresolved
  BY DEF StoreInit, OneUnresolved
<1>2. TypeOK /\ OneUnresolved /\ [StoreNext]_storeVars => OneUnresolved'
  <2> SUFFICES ASSUME TypeOK, OneUnresolved, [StoreNext]_storeVars
               PROVE  OneUnresolved'
    OBVIOUS
  <2>1. CASE attempts' = attempts
    BY <2>1 DEF OneUnresolved
  <2>2. ASSUME NEW r \in Runs, Begin(r) PROVE OneUnresolved'
    <3>1. PICK exec \in Executions, number \in 1 .. MaxAttempts,
               key \in CallKeys, safe \in BOOLEAN :
            BeginAttempt(r, exec, number, key, safe)
      BY <2>2 DEF Begin
    <3> DEFINE new == [run |-> r, exec |-> exec, number |-> number, key |-> key,
                       retry_safe |-> safe, state |-> "pending",
                       outcome_unknown |-> TRUE, code |-> "none"]
               n == Len(attempts)
    <3>2. new \in AttemptRows /\ attempts \in Seq(AttemptRows)
      BY DEF AttemptRows, ResultCodes, TypeOK
    <3>3. attempts' = Append(attempts, new)
      BY <3>1 DEF BeginAttempt
    <3>4. new.key = key /\ new.outcome_unknown
      OBVIOUS
    <3> HIDE DEF new
    <3>5. /\ DOMAIN attempts = 1 .. n /\ n \in Nat
          /\ DOMAIN attempts' = 1 .. n + 1
          /\ \A a \in DOMAIN attempts : attempts'[a] = attempts[a]
          /\ attempts'[n + 1] = new
      BY <3>2, <3>3, AppendFacts, LenProperties
    <3> HIDE DEF n
    <3>6. \A a \in DOMAIN attempts :
            ~(/\ attempts[a].key = new.key
              /\ ~attempts[a].retry_safe /\ attempts[a].outcome_unknown)
      BY <3>1, <3>4 DEF BeginAttempt, Unresolved
    <3>7. QED BY <3>4, <3>5, <3>6 DEF OneUnresolved
  <2>3. ASSUME NEW a \in DOMAIN attempts, NEW row \in AttemptRows,
               attempts' = [attempts EXCEPT ![a] = row],
               row.key = attempts[a].key, row.retry_safe = attempts[a].retry_safe,
               row.outcome_unknown => attempts[a].outcome_unknown,
               row.state # "pending"
        PROVE  OneUnresolved'
    <3>1. /\ DOMAIN attempts' = DOMAIN attempts
          /\ attempts'[a] = row
          /\ \A b \in DOMAIN attempts : b # a => attempts'[b] = attempts[b]
      BY <2>3 DEF TypeOK
    <3>2. QED BY <2>3, <3>1 DEF OneUnresolved
  <2>4. ASSUME NEW a \in DOMAIN attempts, Finish(a) PROVE OneUnresolved'
    <3>1. PICK code \in ResultCodes, unknown \in BOOLEAN :
            EndAttempt(a, code, unknown)
      BY <2>4 DEF Finish
    <3> DEFINE row == [attempts[a] EXCEPT
                         !.state = IF code = "none" THEN "succeeded" ELSE "failed",
                         !.code = code, !.outcome_unknown = unknown]
    <3>2. attempts[a] \in AttemptRows
      BY ElementOfSeq, LenProperties DEF TypeOK
    <3>3. /\ row \in AttemptRows /\ row.state # "pending"
          /\ row.key = attempts[a].key
          /\ row.retry_safe = attempts[a].retry_safe
      BY <3>2 DEF AttemptRows
    <3>4. attempts' = [attempts EXCEPT ![a] = row]
      BY <3>1 DEF EndAttempt
    <3>5. attempts[a].outcome_unknown
      BY <3>1 DEF EndAttempt, OneUnresolved
    <3> HIDE DEF row
    <3>6. QED BY <2>3, <3>3, <3>4, <3>5
  <2>5. ASSUME NEW a \in DOMAIN attempts, ResolveAttempt(a)
        PROVE  OneUnresolved'
    <3> DEFINE row == [attempts[a] EXCEPT !.state = "reconciled",
                                          !.outcome_unknown = FALSE]
    <3>1. attempts[a] \in AttemptRows
      BY ElementOfSeq, LenProperties DEF TypeOK
    <3>2. /\ row \in AttemptRows /\ row.state # "pending"
          /\ row.key = attempts[a].key
          /\ row.retry_safe = attempts[a].retry_safe
          /\ ~row.outcome_unknown
      BY <3>1 DEF AttemptRows
    <3>3. attempts' = [attempts EXCEPT ![a] = row]
      BY <2>5 DEF ResolveAttempt
    <3> HIDE DEF row
    <3>4. QED BY <2>3, <3>2, <3>3
  <2>6. ASSUME \/ UNCHANGED storeVars \/ Quarantine \/ Open
               \/ \E s \in Sessions : GetTaskState(s)
               \/ \E r \in Runs, s \in Sessions : CreateRun(r, s)
               \/ \E r \in Runs, kind \in ReportKinds : Report(r, kind)
               \/ \E r \in Runs : CancelRun(r)
               \/ Recover
        PROVE  attempts' = attempts
    <3>1. ASSUME NEW r \in Runs, NEW kind \in ReportKinds, Report(r, kind)
          PROVE  attempts' = attempts
      BY <3>1 DEF Report, RecordEvent
    <3>2. ASSUME NEW r \in Runs, NEW s \in Sessions, CreateRun(r, s)
          PROVE  attempts' = attempts
      BY <3>2 DEF CreateRun
    <3>3. ASSUME NEW r \in Runs, CancelRun(r)
          PROVE  attempts' = attempts
      BY <3>3 DEF CancelRun
    <3>4. QED
      BY <2>6, <3>1, <3>2, <3>3
      DEF storeVars, dbVars, Quarantine, Open, GetTaskState, Recover
  <2>7. QED
    BY <2>1, <2>2, <2>4, <2>5, <2>6 DEF StoreNext, Commit, Operation
<1>3. QED BY <1>1, <1>2, TypeCorrect, PTL DEF StoreSpec

-----------------------------------------------------------------------------
(* The store implements RunLedger *)

\* A run with a row has a session: the slot it may be in.
Owned == \A r \in Runs : status[r] # "absent" => session[r] \in Sessions

\* Every step leaves each run with a row in a session.
LEMMA StepOwned == TypeOK /\ Owned /\ [StoreNext]_storeVars => Owned'
<1> SUFFICES ASSUME TypeOK, Owned, [StoreNext]_storeVars PROVE Owned'
  OBVIOUS
<1>1. ASSUME NEW r \in Runs, NEW s \in Sessions, CreateRun(r, s) PROVE Owned'
  BY <1>1 DEF CreateRun, Owned, TypeOK
<1>2. CASE session' = session /\ StatusStep
  <2>1. \A q \in Runs : status'[q] # "absent" => status[q] # "absent"
    BY <1>2 DEF StatusStep, TypeOK, Active
  <2>2. QED BY <1>2, <2>1 DEF Owned
<1>3. QED BY <1>1, <1>2, OnlyCreationActivates

\* What the slots of the refinement mapping hold.
Slots ==
  /\ \A s \in Sessions, r \in Runs :
       SlotOf(s) = r <=> session[r] = s /\ status[r] \in Active
  /\ \A s \in Sessions : SlotOf(s) = NoRun <=> ActiveIn(s) = {}
  /\ \A s \in Sessions : SlotOf(s) \in Runs \cup {NoRun}
  /\ Ledger!InProgress = {r \in Runs : status[r] \in Active}

\* With one active run per session, SlotOf names exactly that run.
LEMMA SlotFacts == TypeOK /\ OneActiveRun /\ Owned => Slots
<1> SUFFICES ASSUME TypeOK, OneActiveRun, Owned PROVE Slots
  OBVIOUS
<1>1. ASSUME NEW s \in Sessions
      PROVE  /\ ActiveIn(s) = {} => SlotOf(s) = NoRun
             /\ ActiveIn(s) # {} => SlotOf(s) \in ActiveIn(s)
  BY DEF SlotOf
<1>2. \A s \in Sessions : ActiveIn(s) \subseteq Runs
  BY DEF ActiveIn
<1>3. \A s \in Sessions : SlotOf(s) = NoRun <=> ActiveIn(s) = {}
  BY <1>1, <1>2, SessionsAssumption
<1>4. ASSUME NEW s \in Sessions, NEW r \in Runs
      PROVE  SlotOf(s) = r <=> session[r] = s /\ status[r] \in Active
  <2>1. ASSUME SlotOf(s) = r PROVE r \in ActiveIn(s)
    BY <1>1, <1>3, <2>1, SessionsAssumption
  <2>2. ASSUME r \in ActiveIn(s) PROVE SlotOf(s) = r
    <3>1. SlotOf(s) \in ActiveIn(s)
      BY <1>1, <2>2
    <3>2. QED BY <2>2, <3>1 DEF ActiveIn, OneActiveRun
  <2>3. r \in ActiveIn(s) <=> session[r] = s /\ status[r] \in Active
    BY DEF ActiveIn
  <2>4. QED BY <2>1, <2>2, <2>3
<1>5. \A s \in Sessions : SlotOf(s) \in Runs \cup {NoRun}
  BY <1>1, <1>2
<1>6. Ledger!InProgress = {r \in Runs : status[r] \in Active}
  <2>1. Ledger!InProgress = {SlotOf(s) : s \in Sessions} \ {NoRun}
    BY DEF Ledger!InProgress
  <2>2. ASSUME NEW r \in Runs, status[r] \in Active
        PROVE  \E s \in Sessions : SlotOf(s) = r
    BY <1>4, <2>2 DEF Owned, Active
  <2>3. QED BY <1>4, <1>5, <2>1, <2>2, SessionsAssumption
<1>7. QED BY <1>3, <1>4, <1>5, <1>6 DEF Slots

\* A slot changes hands only if the runs in progress in its session change.
LEMMA SlotKept ==
  ASSUME Slots, Slots', NEW s \in Sessions,
         \A q \in Runs : session'[q] = s /\ status'[q] \in Active
                         <=> session[q] = s /\ status[q] \in Active
  PROVE  SlotOf(s)' = SlotOf(s)
<1>1. ActiveIn(s)' = ActiveIn(s)
  BY DEF ActiveIn
<1>2. CASE SlotOf(s) = NoRun
  <2>1. ActiveIn(s)' = {}
    BY <1>1, <1>2 DEF Slots
  <2>2. QED BY <1>2, <2>1 DEF Slots
<1>3. CASE SlotOf(s) \in Runs
  BY <1>3 DEF Slots
<1>4. QED BY <1>2, <1>3 DEF Slots

\* Creating a run fills the free slot of its session.
LEMMA CreateAdmits ==
  ASSUME TypeOK, Slots, Slots', NEW r \in Runs, NEW s \in Sessions,
         CreateRun(r, s)
  PROVE  Ledger!Admit(r, s)
<1>1. /\ status[r] = "absent" /\ status'[r] = "queued" /\ session'[r] = s
      /\ \A q \in Runs : q # r =>
           status'[q] = status[q] /\ session'[q] = session[q]
  BY DEF CreateRun, TypeOK
<1>2. SlotOf(s) = NoRun
  BY DEF CreateRun, Slots
<1>3. r \notin Ledger!InProgress
  BY <1>1 DEF Slots, Active
<1>4. SlotOf(s)' = r
  BY <1>1 DEF Slots, Active
<1>5. ASSUME NEW t \in Sessions, t # s PROVE SlotOf(t)' = SlotOf(t)
  BY <1>1, <1>5, SlotKept DEF Active
<1>6. {q \in Runs : status[q] = "cancel_requested"}'
        = {q \in Runs : status[q] = "cancel_requested"}
  BY <1>1
<1>7. [q \in Runs |-> IF status[q] \in Ended THEN status[q] ELSE "none"]'
        = [q \in Runs |-> IF status[q] \in Ended THEN status[q] ELSE "none"]
  BY <1>1 DEF Ended
<1>8. [t \in Sessions |-> SlotOf(t)]'
        = [[t \in Sessions |-> SlotOf(t)] EXCEPT ![s] = r]
  BY <1>4, <1>5
<1>9. [q \in Runs |-> IF status[q] \in Ended THEN status[q] ELSE "none"][r]
        = "none"
  BY <1>1 DEF Ended
<1>10. QED BY <1>2, <1>3, <1>6, <1>7, <1>8, <1>9 DEF Ledger!Admit

\* A set of runs in progress that end in one step is settled.
LEMMA EndsSettle ==
  ASSUME TypeOK, Slots, Slots', session' = session,
         NEW ended \in SUBSET {r \in Runs : status[r] \in Active},
         ended # {},
         \A q \in Runs \ ended : status'[q] = status[q],
         \A q \in ended :
           /\ status'[q] \in Ended
           /\ status[q] = "cancel_requested" => status'[q] = "cancelled"
  PROVE  Ledger!Settle(ended)
<1>1. ended \subseteq Ledger!InProgress
  BY DEF Slots
<1>2. ASSUME NEW s \in Sessions
      PROVE  SlotOf(s)' = IF SlotOf(s) \in ended THEN NoRun ELSE SlotOf(s)
  <2>1. CASE SlotOf(s) \in ended
    <3>1. \A q \in Runs : session[q] = s /\ status[q] \in Active => q = SlotOf(s)
      BY DEF Slots
    <3>2. \A q \in Runs : ~(session'[q] = s /\ status'[q] \in Active)
      BY <2>1, <3>1 DEF Active, Ended
    <3>3. ActiveIn(s)' = {}
      BY <3>2 DEF ActiveIn
    <3>4. QED BY <2>1, <3>3 DEF Slots
  <2>2. CASE SlotOf(s) \notin ended
    <3>1. \A q \in Runs : session[q] = s /\ status[q] \in Active
                          => q \notin ended
      BY <2>2 DEF Slots
    <3>2. \A q \in Runs : session'[q] = s /\ status'[q] \in Active
                          <=> session[q] = s /\ status[q] \in Active
      BY <3>1 DEF Active, Ended
    <3>3. QED BY <2>2, <3>2, SlotKept
  <2>3. QED BY <2>1, <2>2
<1>3. [s \in Sessions |-> SlotOf(s)]' =
        [s \in Sessions |->
           IF [t \in Sessions |-> SlotOf(t)][s] \in ended THEN NoRun
           ELSE [t \in Sessions |-> SlotOf(t)][s]]
  BY <1>2
<1>4. {q \in Runs : status[q] = "cancel_requested"}'
        = {q \in Runs : status[q] = "cancel_requested"} \ ended
  BY DEF Ended
<1> DEFINE how == [q \in ended |-> status'[q]]
           settled == [q \in Runs |-> IF status[q] \in Ended THEN status[q]
                                      ELSE "none"]
<1>5. how \in [ended -> Ended]
  OBVIOUS
<1>6. \A q \in ended \cap {p \in Runs : status[p] = "cancel_requested"} :
        how[q] = "cancelled"
  OBVIOUS
<1>7. settled' = [q \in Runs |-> IF q \in ended THEN how[q] ELSE settled[q]]
  OBVIOUS
<1> HIDE DEF how, settled
<1>8. QED BY <1>1, <1>3, <1>4, <1>5, <1>6, <1>7 DEF Ledger!Settle, settled

\* Every step of the store is a step of the ledger or leaves it alone.
LEMMA StepRefines ==
  TypeOK /\ Slots /\ Slots' /\ [StoreNext]_storeVars
    => [Ledger!Next]_(Ledger!ledgerVars)
<1> SUFFICES ASSUME TypeOK, Slots, Slots', [StoreNext]_storeVars
             PROVE  Ledger!Next \/ UNCHANGED Ledger!ledgerVars
  OBVIOUS
<1>1. ASSUME NEW r \in Runs, NEW s \in Sessions, CreateRun(r, s)
      PROVE  Ledger!Next
  BY <1>1, CreateAdmits DEF Ledger!Next
<1>2. ASSUME session' = session,
             \A q \in Runs : /\ status'[q] \in Active <=> status[q] \in Active
                             /\ status'[q] \in Ended <=> status[q] \in Ended
                             /\ status[q] \in Ended => status'[q] = status[q]
      PROVE  /\ [s \in Sessions |-> SlotOf(s)]' = [s \in Sessions |-> SlotOf(s)]
             /\ [q \in Runs |-> IF status[q] \in Ended THEN status[q] ELSE "none"]'
                 = [q \in Runs |-> IF status[q] \in Ended THEN status[q]
                                   ELSE "none"]
  <2>1. \A s \in Sessions : SlotOf(s)' = SlotOf(s)
    BY <1>2, SlotKept
  <2>2. QED BY <1>2, <2>1
<1>3. CASE session' = session /\ status' = status
  <2>1. [s \in Sessions |-> SlotOf(s)]' = [s \in Sessions |-> SlotOf(s)]
    BY <1>2, <1>3
  <2>2. QED BY <1>3, <2>1 DEF Ledger!ledgerVars
<1>4. ASSUME NEW r \in Runs, NEW st \in Active \cup Ended, session' = session,
             status[r] \in Active,
             status[r] = "cancel_requested" =>
               st \in {"cancel_requested", "cancelled"},
             status' = [status EXCEPT ![r] = st]
      PROVE  Ledger!Next \/ UNCHANGED Ledger!ledgerVars
  <2>1. status'[r] = st /\ \A q \in Runs \ {r} : status'[q] = status[q]
    BY <1>4 DEF TypeOK
  <2>2. CASE st \in Ended
    <3>1. Ledger!Settle({r})
      BY <1>4, <2>1, <2>2, EndsSettle DEF Ended
    <3>2. QED BY <3>1 DEF Ledger!Next
  <2>3. CASE st \in Active
    <3>1. /\ [s \in Sessions |-> SlotOf(s)]' = [s \in Sessions |-> SlotOf(s)]
          /\ [q \in Runs |-> IF status[q] \in Ended THEN status[q] ELSE "none"]'
              = [q \in Runs |-> IF status[q] \in Ended THEN status[q] ELSE "none"]
      BY <1>2, <1>4, <2>1, <2>3 DEF Active, Ended
    <3>2. CASE st = "cancel_requested" /\ status[r] # "cancel_requested"
      <4>1. {q \in Runs : status[q] = "cancel_requested"}'
              = {q \in Runs : status[q] = "cancel_requested"} \cup {r}
        BY <2>1, <3>2
      <4>2. r \in Ledger!InProgress
        BY <1>4 DEF Slots
      <4>3. Ledger!Doom(r)
        BY <3>1, <3>2, <4>1, <4>2 DEF Ledger!Doom
      <4>4. QED BY <4>3 DEF Ledger!Next
    <3>3. CASE st = "cancel_requested" <=> status[r] = "cancel_requested"
      <4>1. {q \in Runs : status[q] = "cancel_requested"}'
              = {q \in Runs : status[q] = "cancel_requested"}
        BY <2>1, <3>3
      <4>2. QED BY <3>1, <4>1 DEF Ledger!ledgerVars
    <3>4. QED BY <1>4, <2>3, <3>2, <3>3 DEF Active
  <2>4. QED BY <2>2, <2>3
<1>5. CASE /\ session' = session
           /\ status' = [r \in Runs |-> IF status[r] \in Active
                                        THEN RecoveredStatus(status[r])
                                        ELSE status[r]]
  <2>1. PICK ended \in SUBSET {q \in Runs : status[q] \in Active} :
          ended = {q \in Runs : status[q] \in Active}
    OBVIOUS
  <2>2. CASE ended = {}
    <3>1. status' = status
      BY <1>5, <2>1, <2>2 DEF TypeOK
    <3>2. QED BY <1>3, <1>5, <3>1
  <2>3. CASE ended # {}
    <3>1. \A q \in Runs \ ended : status'[q] = status[q]
      BY <1>5, <2>1
    <3>2. \A q \in ended :
            /\ status'[q] \in Ended
            /\ status[q] = "cancel_requested" => status'[q] = "cancelled"
      BY <1>5, <2>1 DEF RecoveredStatus, Ended
    <3>3. Ledger!Settle(ended)
      BY <1>5, <2>3, <3>1, <3>2, EndsSettle
    <3>4. QED BY <3>3 DEF Ledger!Next
  <2>4. QED BY <2>2, <2>3
<1>6. QED
  BY <1>1, <1>3, <1>4, <1>5, OnlyCreationActivates DEF StatusStep

\* The store implements the ledger: in every interleaving of its operations,
\* failures and restarts, a session is a slot for one run, which is settled
\* once and, after an accepted cancellation, as cancelled.
THEOREM StoreRefinesLedger == StoreSpec => ImplementsLedger
<1>1. StoreInit => Owned
  BY DEF StoreInit, Owned
<1>2. StoreSpec => []Owned
  BY <1>1, StepOwned, TypeCorrect, PTL DEF StoreSpec
<1>3. StoreSpec => []Slots
  BY <1>2, SlotFacts, TypeCorrect, OneRunPerSession, PTL
<1>4. StoreInit => Ledger!Init
  <2> SUFFICES ASSUME StoreInit PROVE Ledger!Init
    OBVIOUS
  <2>1. \A r \in Runs : status[r] = "absent"
    BY DEF StoreInit
  <2>2. \A s \in Sessions : SlotOf(s) = NoRun
    BY <2>1 DEF SlotOf, ActiveIn, Active
  <2>3. QED BY <2>1, <2>2 DEF Ledger!Init, Ended
<1>5. QED
  BY <1>3, <1>4, StepRefines, TypeCorrect, PTL
  DEF StoreSpec, ImplementsLedger, Ledger!Spec
=============================================================================
