--------------------------- MODULE StoreLockProofs ---------------------------
(***************************************************************************)
(* Proofs about the store's lock in AgentRuntime and what its order        *)
(* decides: no run is rejected, left behind or cancelled in vain, and no   *)
(* submission overwrites the state of its session with an old one.         *)
(***************************************************************************)
EXTENDS AgentRuntimeProofs

-----------------------------------------------------------------------------
(* The queue of the lock *)

Procs == ({"run", "cancel", "shutdown"} \X Runs) \cup ({"submit"} \X Sessions)

InQueue(q, p) == \E i \in DOMAIN q : q[i] = p
Precedes(q, p1, p2) == \E i, j \in DOMAIN q : i < j /\ q[i] = p1 /\ q[j] = p2
Distinct(q) == \A i, j \in DOMAIN q : q[i] = q[j] => i = j

\* A queue without repetitions, to which only tasks, requests, a submission
\* and the shutdown belong.
ProperQueue(q) == q \in Seq(Procs) /\ Distinct(q)

\* Different callers of the store have different names.
LEMMA ProcNames ==
  /\ \A r \in Runs : RunProc(r) \in Procs /\ CancelProc(r) \in Procs
                     /\ StopProc(r) \in Procs
  /\ \A s \in Sessions : SubProc(s) \in Procs
  /\ \A r, q : /\ RunProc(r) = RunProc(q) => r = q
               /\ StopProc(r) = StopProc(q) => r = q
               /\ SubProc(r) = SubProc(q) => r = q
               /\ RunProc(r) # CancelProc(q) /\ RunProc(r) # StopProc(q)
               /\ RunProc(r) # SubProc(q) /\ CancelProc(r) # StopProc(q)
               /\ CancelProc(r) # SubProc(q) /\ StopProc(r) # SubProc(q)
BY DEF Procs, RunProc, CancelProc, StopProc, SubProc

\* Taking a process out of the queue leaves the others in their order.
LEMMA WithoutFacts ==
  ASSUME ProperQueue(queue), NEW p
  PROVE  LET w == Without(p) IN
         /\ ProperQueue(w)
         /\ \A x : InQueue(w, x) <=> InQueue(queue, x) /\ x # p
         /\ \A x, y : Precedes(queue, x, y) /\ x # p /\ y # p
                        => Precedes(w, x, y)
<1> DEFINE n == Len(queue)
<1>1. /\ DOMAIN queue = 1 .. n /\ n \in Nat
      /\ \A i \in 1 .. n : queue[i] \in Procs
  BY ElementOfSeq, LenProperties DEF ProperQueue
<1>2. CASE ~InQueue(queue, p)
  <2>1. Without(p) = queue
    BY <1>2 DEF Without, InQueue
  <2>2. QED BY <1>2, <2>1
<1>3. CASE InQueue(queue, p)
  <2> DEFINE place == CHOOSE i \in DOMAIN queue : queue[i] = p
  <2>1. place \in 1 .. n /\ queue[place] = p
    BY <1>1, <1>3 DEF InQueue
  <2> DEFINE w == [i \in 1 .. n - 1 |-> queue[IF i < place THEN i ELSE i + 1]]
  <2>2. Without(p) = w
    BY <1>3 DEF Without, InQueue
  <2> HIDE DEF place
  <2>3. \A i \in 1 .. n - 1 : IF i < place THEN i \in 1 .. n
                              ELSE i + 1 \in 1 .. n
    BY <1>1, <2>1
  <2>4. /\ DOMAIN w = 1 .. n - 1
        /\ \A i \in 1 .. n - 1 : w[i] = IF i < place THEN queue[i]
                                        ELSE queue[i + 1]
    OBVIOUS
  <2>5. \A i \in 1 .. n - 1 : w[i] \in Procs
    BY <1>1, <2>3, <2>4
  <2>6. w \in Seq(Procs)
    <3>1. n - 1 \in Nat
      BY <1>1, <2>1
    <3>2. w \in [1 .. n - 1 -> Procs]
      BY <2>5
    <3> HIDE DEF w
    <3>3. QED BY <3>1, <3>2, SeqDef
  <2> HIDE DEF w
  <2>7. Distinct(w)
    <3> SUFFICES ASSUME NEW i \in 1 .. n - 1, NEW j \in 1 .. n - 1,
                        w[i] = w[j]
                 PROVE  i = j
      BY <2>4 DEF Distinct
    <3> DEFINE k == IF i < place THEN i ELSE i + 1
               l == IF j < place THEN j ELSE j + 1
    <3>1. k \in 1 .. n /\ l \in 1 .. n /\ queue[k] = queue[l]
      BY <2>3, <2>4
    <3>2. k = l
      BY <1>1, <3>1 DEF ProperQueue, Distinct
    <3>3. QED BY <1>1, <2>1, <3>2
  <2>8. ASSUME NEW i \in 1 .. n, i # place
        PROVE  LET j == IF i < place THEN i ELSE i - 1 IN
               j \in 1 .. n - 1 /\ w[j] = queue[i]
    <3>1. CASE i < place
      BY <1>1, <2>1, <2>4, <3>1
    <3>2. CASE i > place
      <4>1. i - 1 \in 1 .. n - 1 /\ ~(i - 1 < place) /\ (i - 1) + 1 = i
            /\ ~(i < place)
        BY <1>1, <2>1, <3>2
      <4>2. QED BY <2>4, <3>2, <4>1
    <3>3. QED BY <1>1, <2>1, <2>8, <3>1, <3>2
  <2>9. ASSUME NEW x PROVE InQueue(w, x) <=> InQueue(queue, x) /\ x # p
    <3>1. ASSUME InQueue(w, x) PROVE InQueue(queue, x) /\ x # p
      <4>1. PICK i \in 1 .. n - 1 : w[i] = x
        BY <2>4, <3>1 DEF InQueue
      <4>2. QED
        BY <1>1, <2>1, <2>3, <2>4, <4>1 DEF InQueue, ProperQueue, Distinct
    <3>2. ASSUME InQueue(queue, x), x # p PROVE InQueue(w, x)
      <4>1. PICK i \in 1 .. n : queue[i] = x
        BY <1>1, <3>2 DEF InQueue
      <4>2. i # place
        BY <2>1, <3>2, <4>1
      <4>3. QED BY <2>4, <2>8, <4>1, <4>2 DEF InQueue
    <3>3. QED BY <3>1, <3>2
  <2>10. ASSUME NEW x, NEW y, Precedes(queue, x, y), x # p, y # p
         PROVE  Precedes(w, x, y)
    <3>1. PICK i, j \in 1 .. n : i < j /\ queue[i] = x /\ queue[j] = y
      BY <1>1, <2>10 DEF Precedes
    <3>2. i # place /\ j # place
      BY <2>1, <2>10, <3>1
    <3> DEFINE k == IF i < place THEN i ELSE i - 1
               l == IF j < place THEN j ELSE j - 1
    <3>3. /\ k \in 1 .. n - 1 /\ w[k] = x
          /\ l \in 1 .. n - 1 /\ w[l] = y
      BY <2>8, <3>1, <3>2
    <3>4. k < l
      BY <1>1, <2>1, <3>1, <3>2
    <3>5. QED BY <2>4, <3>3, <3>4 DEF Precedes
  <2>11. QED BY <2>2, <2>6, <2>7, <2>9, <2>10 DEF ProperQueue
<1>4. QED BY <1>2, <1>3

\* A process that comes to the queue is the last.
LEMMA AppendQueue ==
  ASSUME NEW q, ProperQueue(q), NEW p \in Procs, ~InQueue(q, p)
  PROVE  LET w == Append(q, p) IN
         /\ ProperQueue(w)
         /\ \A x : InQueue(w, x) <=> InQueue(q, x) \/ x = p
         /\ \A x, y : Precedes(q, x, y) => Precedes(w, x, y)
         /\ \A x : InQueue(q, x) => Precedes(w, x, p)
<1> DEFINE w == Append(q, p)
<1>1. q \in Seq(Procs) /\ Len(q) \in Nat /\ DOMAIN q = 1 .. Len(q)
  BY LenProperties DEF ProperQueue
<1>2. /\ w \in Seq(Procs) /\ DOMAIN w = 1 .. Len(q) + 1
      /\ \A i \in 1 .. Len(q) : w[i] = q[i]
      /\ w[Len(q) + 1] = p
  BY <1>1, AppendFacts
<1> HIDE DEF w
<1>3. Distinct(w)
  BY <1>1, <1>2 DEF ProperQueue, Distinct, InQueue
<1>4. \A x : InQueue(w, x) <=> InQueue(q, x) \/ x = p
  BY <1>1, <1>2 DEF InQueue
<1>5. \A x, y : Precedes(q, x, y) => Precedes(w, x, y)
  BY <1>1, <1>2 DEF Precedes
<1>6. \A x : InQueue(q, x) => Precedes(w, x, p)
  BY <1>1, <1>2 DEF InQueue, Precedes
<1>7. QED BY <1>2, <1>3, <1>4, <1>5, <1>6 DEF ProperQueue, w

\* The process that has the lock is in the queue, and nobody is before it.
LEMMA TurnFacts ==
  ASSUME ProperQueue(queue), NEW p, Turn(p)
  PROVE  InQueue(queue, p) /\ \A x : ~Precedes(queue, x, p)
<1>1. /\ queue \in Seq(Procs) /\ queue # <<>> /\ queue[1] = p
      /\ DOMAIN queue = 1 .. Len(queue) /\ Len(queue) \in Nat
  BY LenProperties, HeadTailProperties DEF ProperQueue, Turn
<1>2. Len(queue) # 0
  BY <1>1, EmptySeq
<1>3. 1 \in DOMAIN queue
  BY <1>1, <1>2
<1>4. QED BY <1>1, <1>3 DEF InQueue, Precedes, ProperQueue, Distinct

\* One process comes to the end of the queue, or leaves it; the others keep
\* their order.
QueueChange(p, stays) ==
  /\ ProperQueue(queue')
  /\ \A x : x # p => (InQueue(queue', x) <=> InQueue(queue, x))
  /\ InQueue(queue', p) <=> stays
  /\ \A x, y : Precedes(queue, x, y) /\ x # p /\ y # p => Precedes(queue', x, y)
  /\ stays => \A x : x # p /\ InQueue(queue, x) => Precedes(queue', x, p)

\* A caller that leaves the lock leaves the queue.
LEMMA LeaveFacts ==
  ASSUME ProperQueue(queue), NEW p, Leave(p)
  PROVE  QueueChange(p, FALSE)
BY WithoutFacts DEF Leave, QueueChange

\* A caller that asks for the lock again goes to the end of the queue.
LEMMA RequeueFacts ==
  ASSUME ProperQueue(queue), NEW p \in Procs, Requeue(p)
  PROVE  QueueChange(p, TRUE)
<1>1. PICK q : q = Without(p)
  OBVIOUS
<1>2. /\ ProperQueue(q)
      /\ \A x : InQueue(q, x) <=> InQueue(queue, x) /\ x # p
      /\ \A x, y : Precedes(queue, x, y) /\ x # p /\ y # p
                     => Precedes(q, x, y)
  BY <1>1, WithoutFacts
<1>3. queue' = Append(q, p)
  BY <1>1 DEF Requeue
<1>4. QED BY <1>2, <1>3, AppendQueue DEF QueueChange

\* A task is in the queue when it goes on to a call of the store, and only
\* then.
LEMMA BecomesFacts ==
  ASSUME ProperQueue(queue), NEW r \in Runs, NEW u, Becomes(r, u)
  PROVE  QueueChange(RunProc(r), u.pc \in StoreCalls)
<1>1. CASE u.pc \in StoreCalls
  <2>1. QueueChange(RunProc(r), TRUE)
    BY <1>1, ProcNames, RequeueFacts DEF Becomes
  <2>2. QED BY <1>1, <2>1 DEF QueueChange
<1>2. CASE u.pc \notin StoreCalls
  <2>1. QueueChange(RunProc(r), FALSE)
    BY <1>2, LeaveFacts DEF Becomes
  <2>2. QED BY <1>2, <2>1 DEF QueueChange
<1>3. QED BY <1>1, <1>2

-----------------------------------------------------------------------------
(* Who is in the queue *)

\* A task or a submission is in the queue exactly while it calls the store.
Queued ==
  /\ ProperQueue(queue)
  /\ \A r \in Runs : InQueue(queue, RunProc(r)) <=> task[r].pc \in StoreCalls
  /\ \A s \in Sessions :
       InQueue(queue, SubProc(s)) <=> sub.pc # "idle" /\ sub.session = s
  /\ \A r \in Runs :
       InQueue(queue, StopProc(r)) => stop.pc = "cancel" /\ stop.run = r

\* A step of a task, and of the queue with it.
LEMMA TaskQueued ==
  ASSUME Control, Queued, NEW r \in Runs, TaskStep(r)
  PROVE  Queued'
<1>1. ASSUME NEW u, Becomes(r, u), UNCHANGED serviceVars PROVE Queued'
  <2>1. QueueChange(RunProc(r), u.pc \in StoreCalls)
    BY <1>1, BecomesFacts DEF Queued
  <2>2. task'[r] = u /\ \A q \in Runs \ {r} : task'[q] = task[q]
    BY <1>1 DEF Becomes, Control
  <2>3. UNCHANGED <<sub, stop>>
    BY <1>1 DEF serviceVars
  <2>4. \A q \in Runs : InQueue(queue', RunProc(q)) <=> task'[q].pc \in StoreCalls
    BY <2>1, <2>2, ProcNames DEF Queued, QueueChange
  <2>5. /\ \A s \in Sessions : InQueue(queue', SubProc(s)) <=>
                                 InQueue(queue, SubProc(s))
        /\ \A q \in Runs : InQueue(queue', StopProc(q)) <=>
                             InQueue(queue, StopProc(q))
    BY <2>1, ProcNames DEF QueueChange
  <2>6. QED BY <2>1, <2>3, <2>4, <2>5 DEF Queued, QueueChange
<1>2. ASSUME Observe(r) PROVE Queued'
  <2>1. task[r].pc \notin StoreCalls /\ task'[r].pc \notin StoreCalls
        /\ \A q \in Runs \ {r} : task'[q] = task[q]
    BY <1>2, DoneFields
    DEF Observe, Control, Over, StoreCalls, Reading, Recording, Forced
  <2>2. UNCHANGED <<queue, sub, stop>>
    BY <1>2 DEF Observe
  <2>3. QED BY <2>1, <2>2 DEF Queued
<1>3. QED
  BY <1>1, <1>2 DEF TaskStep, Advances, Raises, Interrupts

\* The submission takes the lock again, or is over.
LEMMA SubmissionQueued ==
  ASSUME Control, Queued, sub.pc # "idle", UNCHANGED <<task, stop>>,
         \/ sub' = NoSub /\ Leave(SubProc(sub.session))
         \/ /\ sub'.pc # "idle" /\ sub'.session = sub.session
            /\ Requeue(SubProc(sub.session))
  PROVE  Queued'
<1> DEFINE p == SubProc(sub.session)
<1>1. sub.session \in Sessions /\ p \in Procs
  BY ProcNames DEF Control
<1>2. QueueChange(p, sub'.pc # "idle")
  <2>1. CASE sub' = NoSub /\ Leave(p)
    <3>1. QueueChange(p, FALSE)
      BY <2>1, LeaveFacts DEF Queued
    <3>2. sub'.pc = "idle"
      BY <2>1 DEF NoSub
    <3>3. QED BY <3>1, <3>2 DEF QueueChange
  <2>2. CASE sub'.pc # "idle" /\ Requeue(p)
    <3>1. QueueChange(p, TRUE)
      BY <1>1, <2>2, RequeueFacts DEF Queued
    <3>2. QED BY <2>2, <3>1 DEF QueueChange
  <2>3. QED BY <2>1, <2>2
<1>3. \A s \in Sessions : s # sub.session => ~InQueue(queue', SubProc(s))
  BY <1>2, ProcNames DEF Queued, QueueChange
<1>4. \A r \in Runs : /\ InQueue(queue', RunProc(r)) <=>
                           InQueue(queue, RunProc(r))
                      /\ InQueue(queue', StopProc(r)) <=>
                           InQueue(queue, StopProc(r))
  BY <1>2, ProcNames DEF QueueChange
<1>5. \A s \in Sessions :
        InQueue(queue', SubProc(s)) <=> sub'.pc # "idle" /\ sub'.session = s
  BY <1>1, <1>2, <1>3 DEF QueueChange, NoSub
<1>6. QED BY <1>2, <1>4, <1>5 DEF Queued, QueueChange

\* A submission that goes on keeps the queue in line.
LEMMA SubmitToQueued ==
  ASSUME Control, Queued, NEW pc \in {"idle", "get_task_state", "create_run"},
         sub.pc # "idle", SubmitTo(pc), UNCHANGED task
  PROVE  Queued'
<1>1. [sub EXCEPT !.pc = pc].pc = pc
      /\ [sub EXCEPT !.pc = pc].session = sub.session
  BY DEF Control
<1>2. QED BY <1>1, SubmissionQueued DEF SubmitTo

\* A submission that begins enters the queue.
LEMMA SubmitQueued ==
  ASSUME Control, Queued, NEW s \in Sessions, Submit(s)
  PROVE  Queued'
<1>1. QueueChange(SubProc(s), TRUE)
  BY ProcNames, RequeueFacts DEF Submit, Queued
<1>2. sub.pc = "idle" /\ sub' = [pc |-> "get_session", session |-> s]
      /\ UNCHANGED <<task, stop>>
  BY DEF Submit, taskVars
<1>3. \A r \in Runs : /\ InQueue(queue', RunProc(r)) <=>
                           InQueue(queue, RunProc(r))
                      /\ InQueue(queue', StopProc(r)) <=>
                           InQueue(queue, StopProc(r))
  BY <1>1, ProcNames DEF QueueChange
<1>4. \A q \in Sessions : InQueue(queue', SubProc(q)) <=> q = s
  BY <1>1, <1>2, ProcNames DEF QueueChange, Queued
<1>5. QED BY <1>1, <1>2, <1>3, <1>4 DEF Queued, QueueChange

\* The task of the run just created comes to the queue as the submission
\* leaves it.
LEMMA CreateQueued ==
  ASSUME Control, UsageOK, Queued, NEW r \in Runs, SubmitCreate(r)
  PROVE  Queued'
<1> DEFINE p == SubProc(sub.session)
<1>1. /\ sub.pc # "idle" /\ sub' = NoSub /\ UNCHANGED stop
      /\ status[r] = "absent"
  BY DEF SubmitCreate, SubmitTurn, CreateRun
<1>2. task[r].pc = "absent" /\ task[r].pc \notin StoreCalls
  BY <1>1 DEF UsageOK, RowMatches, StoreCalls, Reading, Recording, Forced
<1>3. CASE UNCHANGED task /\ Leave(p)
  BY <1>1, <1>3, SubmissionQueued
<1>4. CASE /\ task' = [task EXCEPT ![r] = NewTask]
           /\ queue' = Append(Without(p), RunProc(r))
  <2>1. PICK q : q = Without(p)
    OBVIOUS
  <2>2. ProperQueue(q) /\ \A x : InQueue(q, x) <=> InQueue(queue, x) /\ x # p
    BY <2>1, WithoutFacts DEF Queued
  <2>3. RunProc(r) \in Procs /\ ~InQueue(q, RunProc(r))
    BY <1>2, <2>2, ProcNames DEF Queued
  <2>4. queue' = Append(q, RunProc(r))
    BY <1>4, <2>1
  <2>5. /\ ProperQueue(queue')
        /\ \A x : InQueue(queue', x) <=>
                    (InQueue(queue, x) /\ x # p) \/ x = RunProc(r)
    BY <2>2, <2>3, <2>4, AppendQueue
  <2>6. task'[r].pc \in StoreCalls /\ \A x \in Runs \ {r} : task'[x] = task[x]
    BY <1>4, DoneFields DEF Control, StoreCalls, Reading
  <2>7. \A x \in Runs : InQueue(queue', RunProc(x)) <=> task'[x].pc \in StoreCalls
    BY <2>5, <2>6, ProcNames DEF Queued
  <2>8. \A x \in Runs : InQueue(queue', StopProc(x)) <=>
                          InQueue(queue, StopProc(x))
    BY <2>5, ProcNames
  <2>9. \A s \in Sessions : ~InQueue(queue', SubProc(s)) /\ sub'.pc = "idle"
    BY <1>1, <2>5, ProcNames DEF Queued, NoSub
  <2>10. QED BY <1>1, <2>5, <2>7, <2>8, <2>9 DEF Queued
<1>5. QED BY <1>3, <1>4 DEF SubmitCreate

\* Requests to cancel come and go.
LEMMA CancelQueued ==
  ASSUME Control, Queued, NEW r \in Runs, RequestCancel(r) \/ CancelAnswered(r)
  PROVE  Queued'
<1>1. UNCHANGED <<task, sub, stop>>
  BY DEF RequestCancel, CancelAnswered, taskVars
<1>2. \E stays \in BOOLEAN : QueueChange(CancelProc(r), stays)
  BY ProcNames, RequeueFacts, LeaveFacts DEF RequestCancel, CancelAnswered,
     Queued
<1>3. /\ ProperQueue(queue')
      /\ \A x : x # CancelProc(r) => (InQueue(queue', x) <=> InQueue(queue, x))
  BY <1>2 DEF QueueChange
<1>4. QED BY <1>1, <1>3, ProcNames DEF Queued

\* The shutdown goes on with others in the queue.
LEMMA StopQueued ==
  ASSUME Queued, UNCHANGED <<task, sub>>, NEW left \in SUBSET Runs, NEW others,
         StopGoesOn(left, others), ProperQueue(others),
         \A x : InQueue(others, x) <=>
                  InQueue(queue, x) /\ \A r \in Runs : x # StopProc(r)
  PROVE  Queued'
<1>1. ASSUME NEW r \in left,
             stop' = [pc |-> "cancel", run |-> r, left |-> left \ {r}],
             queue' = Append(others, StopProc(r))
      PROVE  Queued'
  <2>1. StopProc(r) \in Procs /\ ~InQueue(others, StopProc(r))
    BY ProcNames
  <2>2. /\ ProperQueue(queue')
        /\ \A x : InQueue(queue', x) <=> InQueue(others, x) \/ x = StopProc(r)
    BY <1>1, <2>1, AppendQueue
  <2>3. stop'.pc = "cancel" /\ stop'.run = r
    BY <1>1
  <2>4. /\ \A q \in Runs : /\ InQueue(queue', RunProc(q)) <=>
                                InQueue(queue, RunProc(q))
                           /\ InQueue(queue', StopProc(q)) => q = r
        /\ \A s \in Sessions : InQueue(queue', SubProc(s)) <=>
                                 InQueue(queue, SubProc(s))
    BY <2>2, ProcNames
  <2>5. QED BY <2>2, <2>3, <2>4 DEF Queued
<1>2. ASSUME queue' = others PROVE Queued'
  <2>1. /\ \A q \in Runs : /\ InQueue(queue', RunProc(q)) <=>
                                InQueue(queue, RunProc(q))
                           /\ ~InQueue(queue', StopProc(q))
        /\ \A s \in Sessions : InQueue(queue', SubProc(s)) <=>
                                 InQueue(queue, SubProc(s))
    BY <1>2, ProcNames
  <2>2. QED BY <1>2, <2>1 DEF Queued
<1>3. QED BY <1>1, <1>2 DEF StopGoesOn

\* The shutdown keeps the queue in line.
LEMMA ShutdownQueued ==
  ASSUME Control, Queued, ShutdownBegins \/ Shutdown
  PROVE  Queued'
<1>1. ASSUME ShutdownBegins PROVE Queued'
  <2>1. StopGoesOn(Tokens, queue) /\ Tokens \in SUBSET Runs
        /\ UNCHANGED <<task, sub>>
    BY <1>1 DEF ShutdownBegins, Tokens
  <2>2. \A r \in Runs : ~InQueue(queue, StopProc(r))
    BY <1>1 DEF ShutdownBegins, Queued
  <2>3. QED BY <2>1, <2>2, StopQueued DEF Queued
<1>2. ASSUME ShutdownCancels PROVE Queued'
  <2>1. /\ StopGoesOn(stop.left, Without(StopProc(stop.run)))
        /\ stop.left \in SUBSET Runs /\ UNCHANGED <<task, sub>>
    BY <1>2 DEF ShutdownCancels, Control
  <2>2. PICK q : q = Without(StopProc(stop.run))
    OBVIOUS
  <2>3. /\ ProperQueue(q)
        /\ \A x : InQueue(q, x) <=> InQueue(queue, x) /\ x # StopProc(stop.run)
    BY <2>2, WithoutFacts DEF Queued
  <2>4. stop.run \in Runs
    BY <1>2 DEF ShutdownCancels, Control
  <2>5. \A r \in Runs : InQueue(queue, StopProc(r)) => r = stop.run
    BY DEF Queued
  <2>6. \A x : InQueue(q, x) <=>
                 InQueue(queue, x) /\ \A r \in Runs : x # StopProc(r)
    BY <2>3, <2>4, <2>5
  <2>7. PICK left : left = stop.left
    OBVIOUS
  <2>8. QED BY <2>1, <2>2, <2>3, <2>6, <2>7, StopQueued
<1>3. ASSUME ShutdownForces \/ ShutdownEnds PROVE Queued'
  <2>1. UNCHANGED <<queue, task, sub>> /\ stop.pc # "cancel"
    BY <1>3 DEF ShutdownForces, ShutdownEnds, taskVars
  <2>2. QED BY <2>1 DEF Queued
<1>4. QED BY <1>1, <1>2, <1>3 DEF Shutdown

\* Every step keeps the queue in line with who is calling the store.
LEMMA StepQueued == Base /\ Queued /\ [Next]_vars => Queued'
<1> SUFFICES ASSUME Base, Queued, [Next]_vars PROVE Queued'
  OBVIOUS
<1> USE DEF Base
<1>1. ASSUME NEW r \in Runs, RunTask(r) PROVE Queued'
  BY <1>1, RunTaskStep, TaskQueued
<1>2. ASSUME SubmitGetSession \/ SubmitGetTaskState \/ SubmitConflict
      PROVE  Queued'
  BY <1>2, SubmitToQueued
  DEF SubmitGetSession, SubmitGetTaskState, SubmitConflict, SubmitTurn, taskVars
<1>3. ASSUME SubmitFails PROVE Queued'
  BY <1>3, SubmissionQueued DEF SubmitFails, taskVars
<1>4. ASSUME ProcessEnds PROVE Queued'
  <2>1. queue' = <<>> /\ sub'.pc = "idle"
    BY <1>4 DEF ProcessEnds, NoSub
  <2>2. \A r \in Runs : task'[r].pc \notin StoreCalls
    BY <1>4, DoneFields
    DEF ProcessEnds, StoreCalls, Reading, Recording, Forced
  <2>3. ProperQueue(queue') /\ \A x : ~InQueue(queue', x)
    BY <2>1 DEF ProperQueue, Distinct, InQueue
  <2>4. QED BY <2>1, <2>2, <2>3 DEF Queued
<1>5. ASSUME \/ Start \/ UNCHANGED vars
             \/ \E a \in DOMAIN attempts : Reconcile(a)
      PROVE  Queued'
  <2>1. UNCHANGED <<queue, task, sub, stop>>
    BY <1>5 DEF Start, Reconcile, vars, taskVars, serviceVars
  <2>2. QED BY <2>1 DEF Queued
<1>6. QED
  BY <1>1, <1>2, <1>3, <1>4, <1>5, SubmitQueued, CreateQueued, CancelQueued,
     ShutdownQueued
  DEF Next, Submission, Shutdown

-----------------------------------------------------------------------------
(* The status of a run and the point of its task *)

\* Before the loop, and after it.
Beginning == Reading \cup {"run_started"}
Leaving == {"cancel_event", "ending"}

\* A queued run is at the beginning of its task, a running one inside; a run
\* whose task is over has ended; and a task whose run was cancelled in the queue
\* knows.
Standing(r) ==
  LET pc == task[r].pc IN
  /\ pc \in Beginning => status[r] \notin {"running", "cancel_requested"}
  /\ pc \in Beginning /\ status[r] \in Ended => r \in tokens
  /\ pc \in InLoop => status[r] \in {"running", "cancel_requested"}
  /\ pc \in Leaving => status[r] # "queued"
  /\ pc = "cancel_event" => r \in tokens
  /\ pc = "raised" => broken
  /\ pc # "rejected"
  /\ up /\ ~broken /\ pc \in {"returned", "cancelled", "done", "absent"} =>
       status[r] \notin Active

\* A shutdown leaves no queued run behind that it has not signalled.
Halting ==
  /\ stop.pc # "off" => ~accepting /\ sub.pc = "idle"
  /\ stop.pc \in {"drain", "forced", "closed"} /\ ~broken =>
       \A r \in Runs : status[r] # "queued"
  /\ stop.pc = "cancel" /\ ~broken =>
       \A r \in Runs : status[r] = "queued" => r \in stop.left \cup {stop.run}
  /\ stop.pc = "cancel" =>
       stop.run \in tokens \/ task[stop.run].pc \in {"absent", "done"}
  /\ interrupted # {} => stop.pc \in {"forced", "closed"}

\* What a transaction of a task makes of the status of its run.
LEMMA CommittedStatus ==
  ASSUME TypeOK, Control, NEW r \in Runs, Commits(r)
  PROVE  LET pc == task[r].pc IN
         /\ pc \in Reading \cup InLoop => status'[r] = status[r]
         /\ pc = "run_started" =>
              /\ status[r] # "absent"
              /\ status'[r] = IF status[r] = "queued" THEN "running"
                              ELSE status[r]
         /\ pc = "cancel_event" =>
              status'[r] = IF status[r] \in Active THEN "cancel_requested"
                           ELSE status[r]
         /\ pc \in {"ending", "forced_record"} => status'[r] \notin Active
         /\ status'[r] = "queued" => status[r] = "queued"
<1> DEFINE t == task[r]
<1>1. Shape(t)
  BY DEF Control
<1>2. ASSUME t.pc \in Reports, Recorded(r)
      PROVE  status[r] # "absent" /\ status'[r] = StatusAfter(r, KindOf(t))
  <2>1. KindOf(t) \in ReportKinds
    BY <1>1, <1>2, KindsReported
  <2>2. /\ status[r] # "absent"
        /\ status' = [status EXCEPT ![r] = StatusAfter(r, KindOf(t))]
    BY <1>2, <2>1, RecordedRow DEF Recorded
  <2>3. QED BY <2>2 DEF TypeOK
<1>3. CASE t.pc \in Reports /\ Recorded(r)
  <2>1. /\ status[r] # "absent" /\ status'[r] = StatusAfter(r, KindOf(t))
        /\ KindOf(t) \in TerminalKinds <=> t.pc \in {"ending", "forced_record"}
        /\ KindOf(t) = "run_started" <=> t.pc = "run_started"
        /\ KindOf(t) = "run_cancel_requested" <=> t.pc = "cancel_event"
    BY <1>1, <1>2, <1>3, KindsReported
  <2>2. t.pc \notin Reading
    BY <1>3 DEF Reports, Recording, Reading
  <2>3. t.pc \in InLoop => status'[r] = status[r]
    BY <2>1 DEF InLoop, StatusAfter, InHarness, Recording, Waiting
  <2>4. t.pc = "run_started" =>
          status'[r] = IF status[r] = "queued" THEN "running" ELSE status[r]
    BY <2>1 DEF StatusAfter
  <2>5. t.pc = "cancel_event" =>
          status'[r] = IF status[r] \in Active THEN "cancel_requested"
                       ELSE status[r]
    BY <2>1 DEF StatusAfter
  <2>6. t.pc \in {"ending", "forced_record"} => status'[r] \notin Active
    BY <2>1 DEF StatusAfter, TargetStatus, Active, TerminalKinds
  <2>7. status'[r] = "queued" => status[r] = "queued"
    BY <2>1 DEF StatusAfter, TargetStatus
  <2>8. QED BY <2>1, <2>2, <2>3, <2>4, <2>5, <2>6, <2>7
<1>4. CASE t.pc \in Reading \cup Waiting \cup {"begin_attempt", "end_attempt"}
           /\ status' = status
  BY <1>4 DEF Reading, Waiting, Leaving
<1>5. CASE t.pc = "forced_cancel" /\ CancelRun(r)
  <2>1. status'[r] = "queued" => status[r] = "queued"
    BY <1>5 DEF CancelRun, TypeOK
  <2>2. QED
    BY <1>5, <2>1 DEF Reading, InLoop, InHarness, Recording, Waiting
<1>6. UNCHANGED <<dbVars, snapshot>> \/ Begun(r)
      \/ EndAttempt(t.row, t.code, t.unknown) => status' = status
  BY DEF dbVars, Begun, BeginAttempt, EndAttempt
<1>7. QED BY <1>3, <1>4, <1>5, <1>6 DEF Commits

\* What does not concern a run leaves it standing.
LEMMA StandingKept ==
  ASSUME NEW r \in Runs, Standing(r), status'[r] = status[r],
         task'[r] = task[r], tokens \subseteq tokens', broken => broken',
         up' = up
  PROVE  Standing(r)'
BY DEF Standing

\* A task that goes on.
LEMMA AdvancesStanding ==
  ASSUME TypeOK, Control, NEW r \in Runs, Standing(r), NEW u, Advances(r, u),
         u.pc # "rejected"
  PROVE  Standing(r)'
<1> DEFINE pc == task[r].pc
<1>1. /\ task'[r] = u /\ NextPoint(r, task[r], u) /\ Commits(r)
      /\ UNCHANGED <<tokens, broken, up>>
      /\ pc \in Reading \cup Recording \cup Waiting \cup Forced
  <2>1. pc \in Reading \cup Recording \cup Waiting \cup Forced
    BY DEF Advances, Commits, Reports, Recording, Forced
  <2>2. QED BY <2>1 DEF Advances, Leads, Becomes, Control, serviceVars
<1>2. /\ pc \in Reading \cup InLoop => status'[r] = status[r]
      /\ pc = "run_started" =>
           /\ status[r] # "absent"
           /\ status'[r] = IF status[r] = "queued" THEN "running"
                           ELSE status[r]
      /\ pc = "cancel_event" =>
           status'[r] = IF status[r] \in Active THEN "cancel_requested"
                        ELSE status[r]
      /\ pc \in {"ending", "forced_record"} => status'[r] \notin Active
      /\ status'[r] = "queued" => status[r] = "queued"
  BY <1>1, CommittedStatus
<1>3. status[r] \in Statuses
  BY DEF TypeOK
<1>4. CASE pc \in Reading
  <2>1. u.pc \in Reading \cup {"run_started", "returned"}
        /\ (u.pc = "returned" => status[r] # "queued")
        /\ pc \in Beginning
    BY <1>1, <1>4 DEF NextPoint, Reading, Beginning
  <2>2. u.pc \notin InLoop \cup Leaving \cup Forced
    BY <2>1 DEF Reading, InLoop, InHarness, Recording, Waiting, Leaving, Forced
  <2>3. /\ status[r] \notin {"running", "cancel_requested"}
        /\ status[r] \in Ended => r \in tokens
    BY <2>1 DEF Standing
  <2>4. QED
    BY <1>1, <1>2, <1>4, <2>1, <2>2, <2>3
    DEF Standing, Active, Beginning, Reading
<1>5. CASE pc = "run_started"
  <2>1. u.pc \in {"model_request_started", "cancel_event", "ending"}
        /\ (u.pc = "cancel_event" => r \in tokens)
        /\ (u.pc = "model_request_started" => r \notin tokens)
    BY <1>1, <1>5 DEF NextPoint
  <2>2. u.pc \notin Beginning \cup Forced
    BY <2>1 DEF Beginning, Reading, Forced
  <2>3. /\ status[r] \notin {"running", "cancel_requested"}
        /\ status[r] \in Ended => r \in tokens
    BY <1>5 DEF Standing, Beginning
  <2>4. status'[r] \in {"running"} \cup Ended
        /\ (status'[r] \in Ended => r \in tokens)
    BY <1>2, <1>3, <1>5, <2>3 DEF Statuses, Active, Ended
  <2>5. u.pc \in InLoop => u.pc = "model_request_started"
    BY <2>1 DEF InLoop
  <2>6. QED
    BY <1>1, <2>1, <2>2, <2>4, <2>5 DEF Standing, Ended, Leaving
<1>6. CASE pc \in InLoop
  <2>1. u.pc \in InLoop \cup Leaving /\ (u.pc = "cancel_event" => r \in tokens)
    BY <1>1, <1>6 DEF NextPoint, Leaving
  <2>2. u.pc \notin Beginning \cup {"raised", "rejected", "returned",
                                    "cancelled", "done", "absent"}
    BY <2>1 DEF Beginning, Reading, InLoop, InHarness, Recording, Waiting,
                Leaving
  <2>3. pc \notin Forced
    BY <1>6 DEF InLoop, InHarness, Recording, Waiting, Forced
  <2>4. QED
    BY <1>1, <1>2, <1>6, <2>1, <2>2, <2>3 DEF Standing
<1>7. CASE pc \in {"cancel_event", "ending", "forced_cancel", "forced_record"}
  <2>1. /\ pc = "cancel_event" => u.pc = "ending"
        /\ pc = "ending" => u.pc = "returned"
        /\ pc = "forced_cancel" => u.pc = "forced_record"
        /\ pc = "forced_record" => u.pc = "cancelled"
    BY <1>1 DEF NextPoint
  <2>2. u.pc \notin Beginning \cup InLoop
    BY <1>7, <2>1 DEF Beginning, Reading, InLoop, InHarness, Recording, Waiting
  <2>3. QED
    BY <1>1, <1>2, <1>7, <2>1, <2>2 DEF Standing, Leaving, Forced, Active
<1>8. QED
  BY <1>1, <1>4, <1>5, <1>6, <1>7 DEF InLoop, InHarness, Recording, Forced

\* A step of a task leaves every run standing.
LEMMA TaskStanding ==
  ASSUME TypeOK, Control, Halting, \A q \in Runs : Standing(q),
         NEW r \in Runs, TaskStep(r), task'[r].pc # "rejected"
  PROVE  \A q \in Runs : Standing(q)'
<1>1. Standing(r)
  OBVIOUS
<1>2. ASSUME NEW u, Advances(r, u) PROVE Standing(r)'
  <2>1. u.pc # "rejected"
    BY <1>2 DEF Advances, Becomes, Control
  <2>2. QED BY <1>1, <1>2, <2>1, AdvancesStanding
<1>3. ASSUME Raises(r) PROVE Standing(r)'
  <2>1. task'[r].pc = "raised" /\ broken'
    BY <1>3, GoesTo DEF Raises, Becomes, Control
  <2>2. QED
    BY <2>1
    DEF Standing, Beginning, Reading, InLoop, InHarness, Recording, Waiting,
        Leaving, Forced
<1>4. ASSUME Interrupts(r) PROVE Standing(r)'
  <2>1. PICK u : u = Unwound(task[r])
    OBVIOUS
  <2>2. /\ task'[r] = u /\ r \in interrupted /\ UNCHANGED <<tokens, up>>
        /\ \/ broken'
           \/ UNCHANGED <<broken, status>>
    BY <1>4, <2>1 DEF Interrupts, Becomes, Control, dbVars, serviceVars
  <2>3. /\ u.pc \in {"cancelled", "forced_cancel"}
        /\ task[r].pc \in Reading <=> u.pc = "cancelled"
    BY <2>1, UnwoundFields DEF Control
  <2>4. u.pc \notin Beginning \cup InLoop \cup Leaving
    BY <2>3
    DEF Beginning, Reading, InLoop, InHarness, Recording, Waiting, Leaving
  <2>5. ~broken' /\ u.pc = "cancelled" => status'[r] \notin Active
    <3>1. ~broken /\ stop.pc \in {"forced", "closed"} => status[r] # "queued"
      BY DEF Halting
    <3>2. interrupted # {}
      BY <2>2
    <3>3. u.pc = "cancelled" => status[r] \notin {"running", "cancel_requested"}
      BY <1>1, <2>3 DEF Standing, Beginning
    <3>4. QED BY <2>2, <3>1, <3>2, <3>3 DEF Halting, Active
  <2>6. QED
    BY <2>2, <2>3, <2>4, <2>5 DEF Standing, Forced, Active
<1>5. ASSUME Observe(r) PROVE Standing(r)'
  <2>1. /\ task[r].pc \in Over /\ task'[r].pc = "done"
        /\ status'[r] = status[r] /\ UNCHANGED <<broken, up>>
        /\ tokens \subseteq tokens'
    BY <1>5, DoneFields DEF Observe, Control, storeVars
  <2>2. up /\ ~broken => status[r] \notin Active
    BY <1>1, <2>1 DEF Standing, Over
  <2>3. QED
    BY <2>1, <2>2
    DEF Standing, Beginning, Reading, InLoop, InHarness, Recording, Waiting,
        Leaving, Active
<1>6. ASSUME NEW q \in Runs \ {r} PROVE Standing(q)'
  <2>1. status'[q] = status[q]
    <3>1. Commits(r) \/ UNCHANGED status
      BY DEF TaskStep, Advances, Raises, Interrupts, Observe, dbVars, storeVars
    <3>2. QED BY <3>1, CommittedRow
  <2>2. task'[q] = task[q]
    BY DEF TaskStep, Advances, Raises, Interrupts, Observe, Becomes, Control
  <2>3. tokens \subseteq tokens' /\ (broken => broken') /\ up' = up
    <3>1. tokens \subseteq tokens' /\ up' = up
      BY DEF TaskStep, Advances, Raises, Interrupts, Observe, serviceVars
    <3>2. broken' = broken \/ broken' = TRUE
      BY DEF TaskStep, Advances, Raises, Interrupts, Observe, storeVars
    <3>3. QED BY <3>1, <3>2
  <2>4. QED BY <2>1, <2>2, <2>3, StandingKept
<1>7. QED BY <1>2, <1>3, <1>4, <1>5, <1>6 DEF TaskStep

\* The transaction of a cancellation, with the token told or nobody to tell.
LEMMA CancelStanding ==
  ASSUME TypeOK, up, \A q \in Runs : Standing(q), NEW r \in Runs,
         CancelCommits(r) \/ CancelFails, UNCHANGED <<task, up>>,
         tokens \subseteq tokens',
         r \in tokens' \/ task[r].pc \in {"absent", "done"}
  PROVE  \A q \in Runs : Standing(q)'
<1>1. broken => broken'
  BY DEF CancelCommits, CancelFails
<1>2. ASSUME NEW q \in Runs, status'[q] = status[q] PROVE Standing(q)'
  BY <1>1, <1>2, StandingKept
<1>3. CASE CancelFails
  BY <1>2, <1>3 DEF CancelFails, dbVars
<1>4. CASE CancelCommits(r)
  <2>1. \/ status[r] = "queued" /\ status'[r] = "cancelled"
        \/ status[r] = "running" /\ status'[r] = "cancel_requested"
        \/ status'[r] = status[r]
    BY <1>4 DEF CancelCommits, CancelRun, TypeOK
  <2>2. \A q \in Runs \ {r} : status'[q] = status[q]
    BY <1>4 DEF CancelCommits, CancelRun, TypeOK
  <2>3. ASSUME status[r] = "queued", status'[r] = "cancelled"
        PROVE  Standing(r)'
    <3>1. task[r].pc \notin InLoop \cup Leaving
      BY <2>3 DEF Standing
    <3>2. task[r].pc \in Beginning => r \in tokens'
      BY DEF Beginning, Reading
    <3>3. /\ task[r].pc # "rejected" /\ task[r].pc # "cancel_event"
          /\ task[r].pc = "raised" => broken'
      BY <1>1, <3>1 DEF Standing, Leaving
    <3>4. QED BY <2>3, <3>1, <3>2, <3>3 DEF Standing, Active
  <2>4. ASSUME status[r] = "running", status'[r] = "cancel_requested"
        PROVE  Standing(r)'
    <3>1. task[r].pc \notin Beginning
      BY <2>4 DEF Standing
    <3>2. ~broken' =>
            task[r].pc \notin {"returned", "cancelled", "done", "absent"}
      BY <1>1, <2>4 DEF Standing, Active
    <3>3. /\ task[r].pc # "rejected"
          /\ task[r].pc = "raised" => broken'
          /\ task[r].pc = "cancel_event" => r \in tokens'
      BY <1>1 DEF Standing
    <3>4. QED BY <2>4, <3>1, <3>2, <3>3 DEF Standing
  <2>5. QED BY <1>2, <2>1, <2>2, <2>3, <2>4
<1>5. QED BY <1>3, <1>4

\* A new run is queued with a task, or without one in a lost store.
LEMMA CreateStanding ==
  ASSUME TypeOK, Control, UsageOK, \A q \in Runs : Standing(q), NEW r \in Runs,
         SubmitCreate(r)
  PROVE  \A q \in Runs : Standing(q)'
<1>1. /\ status[r] = "absent" /\ status' = [status EXCEPT ![r] = "queued"]
      /\ UNCHANGED <<tokens, up>> /\ ~broken
  BY DEF SubmitCreate, CreateRun
<1>2. \/ task' = [task EXCEPT ![r] = NewTask]
      \/ task' = task /\ broken'
  BY DEF SubmitCreate
<1>3. task[r].pc = "absent" /\ status'[r] = "queued"
  BY <1>1 DEF UsageOK, RowMatches, TypeOK
<1>4. Standing(r)'
  <2>1. \/ task'[r].pc = "get_run"
        \/ task'[r].pc = "absent" /\ broken'
    BY <1>2, <1>3, DoneFields DEF Control
  <2>2. QED
    BY <1>3, <2>1
    DEF Standing, Beginning, Reading, InLoop, InHarness, Recording, Waiting,
        Leaving, Ended
<1>5. ASSUME NEW q \in Runs \ {r} PROVE Standing(q)'
  <2>1. status'[q] = status[q] /\ task'[q] = task[q]
    BY <1>1, <1>2 DEF TypeOK, Control
  <2>2. QED BY <1>1, <2>1, StandingKept
<1>6. QED BY <1>4, <1>5

\* Every step that rejects no run keeps the rows of the tasks in line with what
\* they may still do.
LEMMA StepStanding ==
  ASSUME Base, Halting, \A q \in Runs : Standing(q), [Next]_vars,
         \A q \in Runs : task'[q].pc # "rejected"
  PROVE  \A q \in Runs : Standing(q)'
<1> USE DEF Base
<1>1. ASSUME NEW r \in Runs, RunTask(r) PROVE \A q \in Runs : Standing(q)'
  BY <1>1, RunTaskStep, TaskStanding
<1>2. ASSUME \A q \in Runs : status'[q] = status[q] /\ task'[q] = task[q],
             tokens \subseteq tokens', broken => broken', up' = up
      PROVE  \A q \in Runs : Standing(q)'
  BY <1>2, StandingKept
<1>3. ASSUME NEW s \in Sessions, Submit(s) PROVE \A q \in Runs : Standing(q)'
  BY <1>2, <1>3 DEF Submit, storeVars, taskVars
<1>4. ASSUME \/ SubmitGetSession \/ SubmitGetTaskState \/ SubmitConflict
             \/ SubmitFails
      PROVE  \A q \in Runs : Standing(q)'
  <2>1. UNCHANGED <<status, task, tokens>>
    BY <1>4
    DEF SubmitGetSession, SubmitGetTaskState, SubmitConflict, SubmitFails,
        GetTaskState, dbVars, taskVars
  <2>2. (broken => broken') /\ up' = up
    BY <1>4
    DEF SubmitGetSession, SubmitGetTaskState, SubmitConflict, SubmitFails,
        SubmitTo
  <2>3. QED BY <1>2, <2>1, <2>2
<1>5. ASSUME NEW r \in Runs, SubmitCreate(r) PROVE \A q \in Runs : Standing(q)'
  BY <1>5, CreateStanding
<1>6. ASSUME NEW r \in Runs, RequestCancel(r) PROVE \A q \in Runs : Standing(q)'
  BY <1>2, <1>6 DEF RequestCancel, storeVars, taskVars
<1>7. ASSUME NEW r \in Runs, CancelAnswered(r)
      PROVE  \A q \in Runs : Standing(q)'
  <2>1. up
    BY <1>7 DEF CancelAnswered, Turn, Down
  <2>2. r \in tokens' \/ task[r].pc \in {"absent", "done"}
    <3>1. task[r].pc \in Points
      BY DEF Control, Tasks
    <3>2. QED BY <1>7, <3>1 DEF CancelAnswered, Signals, Tokens, Points
  <2>3. tokens \subseteq tokens' /\ UNCHANGED <<task, up>>
    BY <1>7 DEF CancelAnswered, Signals
  <2>4. QED BY <1>7, <2>1, <2>2, <2>3, CancelStanding DEF CancelAnswered
<1>8. ASSUME ShutdownCancels PROVE \A q \in Runs : Standing(q)'
  <2>1. PICK r \in Runs : r = stop.run
    BY <1>8 DEF ShutdownCancels, Control
  <2>2. up
    BY <1>8 DEF ShutdownCancels, Turn, Down
  <2>3. tokens \subseteq tokens'
    BY <1>8 DEF ShutdownCancels, StopGoesOn, Signals
  <2>4. r \in tokens' \/ task[r].pc \in {"absent", "done"}
    BY <1>8, <2>1, <2>3 DEF ShutdownCancels, Halting
  <2>5. CancelCommits(r) \/ CancelFails
    BY <1>8, <2>1 DEF ShutdownCancels
  <2>6. UNCHANGED <<task, up>>
    BY <1>8 DEF ShutdownCancels
  <2>7. QED BY <2>2, <2>3, <2>4, <2>5, <2>6, CancelStanding
<1>9. ASSUME ShutdownBegins PROVE \A q \in Runs : Standing(q)'
  <2>1. tokens \subseteq tokens'
    BY <1>9 DEF ShutdownBegins, StopGoesOn, Signals
  <2>2. QED BY <1>2, <1>9, <2>1 DEF ShutdownBegins, storeVars
<1>10. ASSUME ShutdownForces \/ ShutdownEnds PROVE \A q \in Runs : Standing(q)'
  BY <1>2, <1>10
  DEF ShutdownForces, ShutdownEnds, storeVars, dbVars, taskVars
<1>11. ASSUME ProcessEnds PROVE \A q \in Runs : Standing(q)'
  <2>1. ~up' /\ \A q \in Runs : task'[q].pc = "absent"
    BY <1>11, DoneFields DEF ProcessEnds
  <2>2. QED
    BY <2>1
    DEF Standing, Beginning, Reading, InLoop, InHarness, Recording, Waiting,
        Leaving
<1>12. ASSUME Start PROVE \A q \in Runs : Standing(q)'
  <2>1. \A q \in Runs : task'[q].pc = "absent"
    BY <1>12 DEF Start, Down, taskVars
  <2>2. \A q \in Runs : status'[q] \notin Active
    BY <1>12 DEF Start, Recover, RecoveredStatus, Active
  <2>3. QED
    BY <2>1, <2>2
    DEF Standing, Beginning, Reading, InLoop, InHarness, Recording, Waiting,
        Leaving, Active
<1>13. ASSUME NEW a \in DOMAIN attempts, Reconcile(a)
       PROVE  \A q \in Runs : Standing(q)'
  BY <1>2, <1>13 DEF Reconcile, ResolveAttempt, serviceVars, taskVars
<1>14. ASSUME UNCHANGED vars PROVE \A q \in Runs : Standing(q)'
  BY <1>2, <1>14 DEF vars, storeVars, serviceVars, taskVars
<1>15. QED
  BY <1>1, <1>3, <1>4, <1>5, <1>6, <1>7, <1>8, <1>9, <1>10, <1>11, <1>12,
     <1>13, <1>14
  DEF Next, Submission, Shutdown

-----------------------------------------------------------------------------
(* The shutdown and the queued runs *)

\* An active run of a working service has a task that is not over.
LEMMA ActiveLive ==
  ASSUME Control, NEW r \in Runs, Standing(r), up, ~broken,
         status[r] \in Active
  PROVE  task[r].pc \in Live
<1>1. task[r].pc \in Points
  BY DEF Control, Tasks
<1>2. QED BY <1>1 DEF Standing, Points, Over

\* What does not concern the shutdown.
LEMMA HaltingKept ==
  ASSUME Halting, UNCHANGED stop, accepting' => accepting,
         sub'.pc = "idle" \/ sub.pc # "idle" \/ stop.pc = "off",
         interrupted' \subseteq interrupted, broken => broken',
         tokens \subseteq tokens',
         \A r \in Runs : status'[r] = "queued" =>
                           status[r] = "queued" \/ stop.pc = "off",
         stop.pc = "cancel" => stop.run \in Runs,
         \A r \in Runs : task[r].pc \in {"absent", "done"} =>
                           \/ task'[r].pc \in {"absent", "done"}
                           \/ stop.pc = "off"
  PROVE  Halting'
<1>1. stop.pc # "off" => ~accepting' /\ sub'.pc = "idle"
  BY DEF Halting
<1>2. stop.pc \in {"drain", "forced", "closed"} /\ ~broken' =>
        \A r \in Runs : status'[r] # "queued"
  BY DEF Halting
<1>3. stop.pc = "cancel" /\ ~broken' =>
        \A r \in Runs : status'[r] = "queued" => r \in stop.left \cup {stop.run}
  BY DEF Halting
<1>4. stop.pc = "cancel" =>
        stop.run \in tokens' \/ task'[stop.run].pc \in {"absent", "done"}
  BY DEF Halting
<1>5. interrupted' # {} => stop.pc \in {"forced", "closed"}
  BY DEF Halting
<1>6. QED BY <1>1, <1>2, <1>3, <1>4, <1>5 DEF Halting

\* A step of a task keeps every cancellation signalled.
LEMMA TaskHalting ==
  ASSUME TypeOK, Control, Halting, NEW r \in Runs, TaskStep(r)
  PROVE  Halting'
<1>1. UNCHANGED <<stop, sub>> /\ (accepting' => accepting)
      /\ tokens \subseteq tokens'
  <2>1. UNCHANGED <<stop, sub>> /\ tokens \subseteq tokens'
    BY DEF TaskStep, Advances, Raises, Interrupts, Observe, serviceVars
  <2>2. accepting' = accepting \/ accepting' = FALSE
    BY DEF TaskStep, Advances, Raises, Interrupts, Observe, serviceVars
  <2>3. QED BY <2>1, <2>2
<1>2. interrupted' \subseteq interrupted
  <2>1. interrupted' = interrupted \/ interrupted' = interrupted \ {r}
    BY DEF TaskStep, Advances, Raises, Interrupts, Observe
  <2>2. QED BY <2>1
<1>3. broken => broken'
  <2>1. broken' = broken \/ broken' = TRUE
    BY DEF TaskStep, Advances, Raises, Interrupts, Observe, storeVars
  <2>2. QED BY <2>1
<1>4. \A q \in Runs : status'[q] = "queued" => status[q] = "queued"
  <2>1. Commits(r) \/ UNCHANGED status
    BY DEF TaskStep, Advances, Raises, Interrupts, Observe, dbVars, storeVars
  <2>2. Commits(r) => /\ status'[r] = "queued" => status[r] = "queued"
                      /\ \A q \in Runs \ {r} : status'[q] = status[q]
    BY CommittedStatus, CommittedRow
  <2>3. QED BY <2>1, <2>2
<1>5. \A q \in Runs : task[q].pc \in {"absent", "done"} =>
                        task'[q].pc \in {"absent", "done"}
  <2>1. task[r].pc \notin {"absent", "done"}
    BY TaskStepPoint DEF Live, Over, Reading, Recording, Waiting, Forced
  <2>2. \A q \in Runs \ {r} : task'[q] = task[q]
    BY DEF TaskStep, Advances, Raises, Interrupts, Observe, Becomes, Control
  <2>3. QED BY <2>1, <2>2
<1>6. stop.pc = "cancel" => stop.run \in Runs
  BY DEF Control
<1>7. QED BY <1>1, <1>2, <1>3, <1>4, <1>5, <1>6, HaltingKept

\* The shutdown goes on to signal the next task, or to wait.
LEMMA StopHalting ==
  ASSUME Halting, stop.pc # "off" \/ (sub.pc = "idle" /\ ~accepting'),
         UNCHANGED <<sub, task, interrupted>>, accepting' => accepting,
         interrupted = {} \/ stop.pc = "off",
         NEW left \in SUBSET Runs, NEW others, StopGoesOn(left, others),
         \A r \in Runs : task[r].pc \in Points,
         ~broken' => \A r \in Runs : status'[r] = "queued" => r \in left
  PROVE  Halting'
<1>1. ~accepting' /\ sub'.pc = "idle" /\ interrupted' = {}
  BY DEF Halting
<1>2. ASSUME NEW r \in left,
             stop' = [pc |-> "cancel", run |-> r, left |-> left \ {r}],
             Signals(r)
      PROVE  Halting'
  <2>1. stop'.pc = "cancel" /\ stop'.run = r /\ stop'.left = left \ {r}
    BY <1>2
  <2>2. r \in tokens' \/ task'[r].pc \in {"absent", "done"}
    BY <1>2 DEF Signals, Tokens, Points
  <2>3. QED BY <1>1, <2>1, <2>2 DEF Halting
<1>3. ASSUME left = {}, stop' = [NoStop EXCEPT !.pc = "drain"] PROVE Halting'
  <2>1. stop'.pc = "drain"
    BY <1>3 DEF NoStop
  <2>2. QED BY <1>1, <1>3, <2>1 DEF Halting
<1>4. QED BY <1>2, <1>3 DEF StopGoesOn

\* So does every other step.
LEMMA StepHalting ==
  ASSUME Base, Halting, \A q \in Runs : Standing(q), [Next]_vars
  PROVE  Halting'
<1> USE DEF Base
<1>1. stop.pc = "cancel" => stop.run \in Runs
  BY DEF Control
<1>2. \A r \in Runs : task[r].pc \in Points
  BY DEF Control, Tasks
<1>3. ASSUME NEW r \in Runs, RunTask(r) PROVE Halting'
  BY <1>3, RunTaskStep, TaskHalting
<1>4. ASSUME NEW s \in Sessions, Submit(s) PROVE Halting'
  <2>1. stop.pc = "off"
    BY <1>4 DEF Submit, Halting
  <2>2. UNCHANGED <<stop, accepting, interrupted, broken, tokens, status, task>>
    BY <1>4 DEF Submit, storeVars, taskVars
  <2>3. QED BY <2>1, <2>2, HaltingKept
<1>5. ASSUME \/ SubmitGetSession \/ SubmitGetTaskState \/ SubmitConflict
             \/ SubmitFails
      PROVE  Halting'
  <2>1. UNCHANGED <<status, task, tokens>>
    BY <1>5
    DEF SubmitGetSession, SubmitGetTaskState, SubmitConflict, SubmitFails,
        GetTaskState, dbVars, taskVars
  <2>2. /\ (broken => broken') /\ UNCHANGED <<stop, accepting, interrupted>>
        /\ sub.pc # "idle"
    BY <1>5
    DEF SubmitGetSession, SubmitGetTaskState, SubmitConflict, SubmitFails,
        SubmitTo, SubmitTurn
  <2>3. QED BY <1>1, <2>1, <2>2, HaltingKept
<1>6. ASSUME NEW r \in Runs, SubmitCreate(r) PROVE Halting'
  <2>1. sub.pc # "idle" /\ stop.pc = "off"
    BY <1>6 DEF SubmitCreate, SubmitTurn, Halting
  <2>2. UNCHANGED <<stop, accepting, interrupted, tokens>> /\ ~broken
    BY <1>6 DEF SubmitCreate
  <2>3. QED BY <2>1, <2>2, HaltingKept
<1>7. ASSUME NEW r \in Runs, RequestCancel(r) PROVE Halting'
  <2>1. UNCHANGED <<stop, accepting, interrupted, broken, tokens, status, task,
                    sub>>
    BY <1>7 DEF RequestCancel, storeVars, taskVars
  <2>2. QED BY <1>1, <2>1, HaltingKept
<1>8. ASSUME NEW r \in Runs, CancelCommits(r) \/ CancelFails
      PROVE  /\ broken => broken'
             /\ \A q \in Runs : status'[q] = "queued" => status[q] = "queued"
             /\ ~broken' => status'[r] # "queued"
  <2>1. CASE CancelFails
    BY <2>1 DEF CancelFails, dbVars
  <2>2. CASE CancelCommits(r)
    BY <2>2 DEF CancelCommits, CancelRun, TypeOK, Ended
  <2>3. QED BY <1>8, <2>1, <2>2
<1>9. ASSUME NEW r \in Runs, CancelAnswered(r) PROVE Halting'
  <2>1. UNCHANGED <<stop, accepting, interrupted, task, sub>>
        /\ tokens \subseteq tokens'
    BY <1>9 DEF CancelAnswered, Signals
  <2>2. CancelCommits(r) \/ CancelFails
    BY <1>9 DEF CancelAnswered
  <2>3. QED BY <1>1, <1>8, <2>1, <2>2, HaltingKept
<1>10. ASSUME ShutdownBegins PROVE Halting'
  <2>1. /\ StopGoesOn(Tokens, queue) /\ ~accepting' /\ sub.pc = "idle"
        /\ UNCHANGED <<sub, task, interrupted, status, broken>>
        /\ up /\ stop.pc = "off"
    BY <1>10 DEF ShutdownBegins, storeVars
  <2>2. ~broken => \A r \in Runs : status[r] = "queued" => r \in Tokens
    BY <2>1, ActiveLive DEF Tokens, Active
  <2>3. Tokens \in SUBSET Runs
    BY DEF Tokens
  <2>4. PICK left : left = Tokens
    OBVIOUS
  <2>5. QED BY <1>2, <2>1, <2>2, <2>3, <2>4, StopHalting
<1>11. ASSUME ShutdownCancels PROVE Halting'
  <2>1. PICK r \in Runs, left \in SUBSET Runs : r = stop.run /\ left = stop.left
    BY <1>11 DEF ShutdownCancels, Control
  <2>2. /\ stop.pc = "cancel" /\ StopGoesOn(left, Without(StopProc(r)))
        /\ CancelCommits(r) \/ CancelFails
        /\ UNCHANGED <<sub, task, interrupted, accepting>>
    BY <1>11, <2>1 DEF ShutdownCancels
  <2>3. interrupted = {}
    BY <2>2 DEF Halting
  <2>4. ~broken' => \A q \in Runs : status'[q] = "queued" => q \in left
    BY <1>8, <2>1, <2>2 DEF Halting
  <2>5. PICK others : others = Without(StopProc(r))
    OBVIOUS
  <2>6. QED BY <1>2, <2>2, <2>3, <2>4, <2>5, StopHalting
<1>12. ASSUME ShutdownForces \/ ShutdownEnds PROVE Halting'
  <2>1. /\ UNCHANGED <<sub, accepting, tokens, task>>
        /\ stop.pc \in {"drain", "forced"}
        /\ stop'.pc \in {"forced", "closed"}
        /\ broken' \/ UNCHANGED <<broken, status>>
    BY <1>12 DEF ShutdownForces, ShutdownEnds, storeVars, taskVars, Control
  <2>2. QED BY <2>1 DEF Halting
<1>13. ASSUME ProcessEnds PROVE Halting'
  BY <1>13 DEF ProcessEnds, NoStop, Halting
<1>14. ASSUME Start PROVE Halting'
  <2>1. stop'.pc = "off" /\ interrupted' = interrupted /\ stop.pc = "off"
    BY <1>14 DEF Start, Down
  <2>2. QED BY <2>1 DEF Halting
<1>15. ASSUME NEW a \in DOMAIN attempts, Reconcile(a) PROVE Halting'
  <2>1. UNCHANGED <<stop, accepting, interrupted, broken, tokens, status, task,
                    sub>>
    BY <1>15 DEF Reconcile, ResolveAttempt, serviceVars, taskVars
  <2>2. QED BY <1>1, <2>1, HaltingKept
<1>16. ASSUME UNCHANGED vars PROVE Halting'
  <2>1. UNCHANGED <<stop, accepting, interrupted, broken, tokens, status, task,
                    sub>>
    BY <1>16 DEF vars, storeVars, serviceVars, taskVars
  <2>2. QED BY <1>1, <2>1, HaltingKept
<1>17. QED
  BY <1>3, <1>4, <1>5, <1>6, <1>7, <1>9, <1>10, <1>11, <1>12, <1>13, <1>14,
     <1>15, <1>16
  DEF Next, Submission, Shutdown

-----------------------------------------------------------------------------
(* The order of the lock *)

\* The turns of the lock a task takes until it is out of the harness, and
\* until it is inside; and those a submission takes until its run is inside.
TurnsLeft(pc) ==
  CASE pc = "get_run" -> 7
    [] pc = "get_session" -> 6
    [] pc = "get_task_state" -> 5
    [] pc = "execution_outcomes" -> 4
    [] pc = "run_started" -> 3
    [] pc = "cancel_event" -> 2
    [] OTHER -> 1
TurnsToEnter(pc) ==
  CASE pc = "get_run" -> 4
    [] pc = "get_session" -> 3
    [] pc = "get_task_state" -> 2
    [] pc = "execution_outcomes" -> 1
    [] OTHER -> 0
SubTurns(pc) ==
  CASE pc = "get_session" -> 7
    [] pc = "get_task_state" -> 6
    [] OTHER -> 5

\* The lock is granted in order, so p has its l-th turn before q has its n-th.
Before(p, l, q, n) == l <= n /\ (l = n => Precedes(queue, p, q))

\* A task on its way to the harness, or in it; one that is over in the
\* database has only to leave.
Inside(r) == task[r].pc \in Reading \cup InHarness
LeavesFirst(r, q) ==
  /\ status[r] \notin Active
  /\ Before(RunProc(r), TurnsLeft(task[r].pc),
            RunProc(q), TurnsToEnter(task[q].pc))

\* Of two tasks of a session one is over, and out before the other is in.
Apart(r, q) ==
  r # q /\ session[r] = session[q] /\ Inside(r) /\ Inside(q) =>
    LeavesFirst(r, q) \/ LeavesFirst(q, r)

\* A task that has not begun, or has only to leave, is out before the run that
\* a submission to its session will create is in.
Yields(r) ==
  /\ session[r] = sub.session
  /\ \/ task[r].pc \in Beginning
     \/ task[r].pc \in Leaving /\ status[r] \notin Active
  => Before(RunProc(r), TurnsLeft(task[r].pc),
            SubProc(sub.session), SubTurns(sub.pc))

Crossing ==
  /\ \A r, q \in Runs : Apart(r, q)
  /\ sub.pc # "idle" => \A r \in Runs : Yields(r)

\* How many turns a caller has left is a small number.
LEMMA TurnCounts ==
  /\ \A pc : TurnsLeft(pc) \in 1 .. 7
  /\ \A pc : TurnsToEnter(pc) \in 0 .. 4
  /\ \A pc : SubTurns(pc) \in 5 .. 7
  /\ \A pc : TurnsToEnter(pc) # 0 => pc \in Reading
  /\ \A pc \in Beginning \cup Leaving : pc \in StoreCalls
BY DEF TurnsLeft, TurnsToEnter, SubTurns, Reading, Beginning, Leaving,
       StoreCalls, Recording

\* The tasks keep their order in the queue, and keep it to the submission.
Orderly ==
  \A x, y \in Runs : Precedes(queue, RunProc(x), RunProc(y)) =>
                       Precedes(queue', RunProc(x), RunProc(y))
SubOrderly ==
  \A r \in Runs, s \in Sessions :
    Precedes(queue, RunProc(r), SubProc(s)) =>
      Precedes(queue', RunProc(r), SubProc(s))

\* A task inside that is over calls the store: it is in the queue.
LEMMA OverInQueue ==
  ASSUME Queued, NEW r \in Runs, Standing(r), Inside(r),
         status[r] \notin Active
  PROVE  /\ task[r].pc \in Beginning \cup Leaving
         /\ InQueue(queue, RunProc(r))
<1>1. task[r].pc \notin InLoop
  BY DEF Standing, Active
<1>2. task[r].pc \in Beginning \cup Leaving
  BY <1>1 DEF Inside, InLoop, InHarness, Beginning, Leaving
<1>3. QED BY <1>2, TurnCounts DEF Queued

\* A task is never rejected.
LEMMA EntersAlone ==
  ASSUME Control, Queued, Crossing, NEW r \in Runs,
         task[r].pc = "execution_outcomes", Turn(RunProc(r))
  PROVE  session[r] \notin ActiveSessions
<1> SUFFICES ASSUME NEW q \in Runs, task[q].pc \in InHarness,
                    session[q] = session[r]
             PROVE  FALSE
  BY DEF ActiveSessions
<1>1. r # q /\ Inside(r) /\ Inside(q)
  BY DEF Inside, Reading, InHarness, Recording, Waiting
<1>2. LeavesFirst(r, q) \/ LeavesFirst(q, r)
  BY <1>1 DEF Crossing, Apart
<1>3. TurnsToEnter(task[q].pc) = 0 /\ TurnsToEnter(task[r].pc) = 1
  <2>1. task[q].pc \notin Reading
    BY DEF Reading, InHarness, Recording, Waiting
  <2>2. QED BY <2>1, TurnCounts DEF TurnsToEnter
<1>4. TurnsLeft(task[r].pc) \in 1 .. 7 /\ TurnsLeft(task[q].pc) \in 1 .. 7
  BY TurnCounts
<1>5. ~LeavesFirst(r, q)
  BY <1>3, <1>4 DEF LeavesFirst, Before
<1>6. ~Precedes(queue, RunProc(q), RunProc(r))
  BY TurnFacts DEF Queued
<1>7. QED BY <1>2, <1>3, <1>4, <1>5, <1>6 DEF LeavesFirst, Before

\* Tasks and submission stay where they are, and no task comes to be over that
\* has begun and not left.
LEMMA CrossingKept ==
  ASSUME Crossing, UNCHANGED <<task, session>>, Orderly, Control,
         (sub' = sub /\ SubOrderly) \/ sub'.pc = "idle",
         \A r \in Runs : status[r] \notin Active => status'[r] \notin Active,
         \A r \in Runs : status'[r] \notin Active =>
                           status[r] \notin Active \/ task[r].pc \notin Leaving
  PROVE  Crossing'
<1>1. ASSUME NEW r \in Runs, NEW q \in Runs PROVE Apart(r, q)'
  <2>1. ASSUME NEW x \in Runs, NEW y \in Runs, LeavesFirst(x, y)
        PROVE  LeavesFirst(x, y)'
    BY <2>1 DEF LeavesFirst, Before, Orderly
  <2>2. Apart(r, q)
    BY DEF Crossing
  <2>3. Inside(r)' = Inside(r) /\ Inside(q)' = Inside(q)
    BY DEF Inside
  <2>4. QED BY <2>1, <2>2, <2>3 DEF Apart
<1>2. ASSUME sub'.pc # "idle", NEW r \in Runs PROVE Yields(r)'
  <2>1. sub' = sub /\ SubOrderly /\ Yields(r) /\ sub.session \in Sessions
    BY <1>2 DEF Crossing, Control
  <2>2. QED BY <2>1 DEF Yields, Before, SubOrderly
<1>3. QED BY <1>1, <1>2 DEF Crossing

\* A step of a task leaves the others alone, in the queue too.
LEMMA TaskOthers ==
  ASSUME TypeOK, Control, Queued, NEW r \in Runs, TaskStep(r)
  PROVE  /\ \A x, y : Precedes(queue, x, y) /\ x # RunProc(r) /\ y # RunProc(r)
                        => Precedes(queue', x, y)
         /\ \A q \in Runs \ {r} : task'[q] = task[q] /\ status'[q] = status[q]
         /\ UNCHANGED <<session, sub>>
         /\ status'[r] \in Active => status[r] \in Active
<1>1. ASSUME NEW u, Becomes(r, u)
      PROVE  \A x, y : Precedes(queue, x, y) /\ x # RunProc(r)
                         /\ y # RunProc(r) => Precedes(queue', x, y)
  BY <1>1, BecomesFacts DEF Queued, QueueChange
<1>2. \A x, y : Precedes(queue, x, y) /\ x # RunProc(r) /\ y # RunProc(r)
                  => Precedes(queue', x, y)
  <2>1. (\E u : Becomes(r, u)) \/ queue' = queue
    BY DEF TaskStep, Advances, Raises, Interrupts, Observe
  <2>2. QED BY <1>1, <2>1
<1>3. \A q \in Runs \ {r} : task'[q] = task[q]
  BY DEF TaskStep, Advances, Raises, Interrupts, Observe, Becomes, Control
<1>4. Commits(r) \/ UNCHANGED <<status, session>>
  BY DEF TaskStep, Advances, Raises, Interrupts, Observe, dbVars, storeVars
<1>5. Commits(r) => UNCHANGED session
  BY DEF Commits, dbVars, Recorded, RecordEvent, Begun, BeginAttempt,
         EndAttempt, CancelRun
<1>6. /\ \A q \in Runs \ {r} : status'[q] = status[q]
      /\ status'[r] \in Active => status[r] \in Active
  BY <1>4, CommittedRow
<1>7. UNCHANGED sub
  BY DEF TaskStep, Advances, Raises, Interrupts, Observe, serviceVars
<1>8. QED BY <1>2, <1>3, <1>4, <1>5, <1>6, <1>7

\* Only a task that advances stays inside, and it was inside before.
LEMMA InsideAdvances ==
  ASSUME Control, NEW r \in Runs, TaskStep(r), Inside(r)'
  PROVE  Inside(r) /\ \E u : Advances(r, u)
<1>1. ASSUME Raises(r) PROVE FALSE
  <2>1. task'[r].pc = "raised"
    BY <1>1, GoesTo DEF Raises, Becomes, Control
  <2>2. QED BY <2>1 DEF Inside, Reading, InHarness, Recording, Waiting
<1>2. ASSUME Interrupts(r) PROVE FALSE
  <2>1. PICK u : u = Unwound(task[r])
    OBVIOUS
  <2>2. task'[r] = u
    BY <1>2, <2>1 DEF Interrupts, Becomes, Control
  <2>3. u.pc \notin Reading \cup InHarness
    BY <2>1, UnwoundFields DEF Control
  <2>4. QED BY <2>2, <2>3 DEF Inside
<1>3. ASSUME Observe(r) PROVE FALSE
  BY <1>3, DoneFields
  DEF Observe, Inside, Control, Reading, InHarness, Recording, Waiting
<1>4. PICK u : Advances(r, u)
  BY <1>1, <1>2, <1>3 DEF TaskStep
<1>5. task'[r] = u
  BY <1>4 DEF Advances, Becomes, Control
<1>6. task[r].pc \in Reading \cup Recording \cup Waiting \cup Forced
  BY <1>4 DEF Advances, Commits, Reports, Recording, Forced
<1>7. task[r].pc \notin Forced
  BY <1>4, <1>5
  DEF Advances, Leads, NextPoint, Inside, Reading, InHarness, Recording,
      Waiting, Forced
<1>8. QED BY <1>4, <1>6, <1>7 DEF Inside, InHarness

\* At the beginning and at the end of a task each turn is the last of its kind.
LEMMA TurnTaken ==
  ASSUME NEW r, NEW t, NEW u, NextPoint(r, t, u),
         t.pc \in Beginning \cup Leaving, u.pc \in Beginning \cup Leaving
  PROVE  TurnsLeft(u.pc) + 1 <= TurnsLeft(t.pc)
<1>1. \/ t.pc = "get_run" /\ u.pc = "get_session"
      \/ t.pc = "get_session" /\ u.pc = "get_task_state"
      \/ t.pc = "get_task_state" /\ u.pc = "execution_outcomes"
      \/ t.pc = "execution_outcomes" /\ u.pc = "run_started"
      \/ t.pc = "run_started" /\ u.pc \in {"cancel_event", "ending"}
      \/ t.pc = "cancel_event" /\ u.pc = "ending"
  BY DEF NextPoint, Beginning, Reading, Leaving
<1>2. QED BY <1>1 DEF TurnsLeft

\* On the way in each turn is one of those to enter.
LEMMA EntryTaken ==
  ASSUME NEW r, NEW t, NEW u, NextPoint(r, t, u),
         TurnsToEnter(t.pc) > 1, u.pc \in Reading \cup InHarness
  PROVE  /\ TurnsToEnter(u.pc) = TurnsToEnter(t.pc) - 1
         /\ u.pc \in StoreCalls /\ t.pc \in StoreCalls
<1>1. t.pc \in {"get_run", "get_session", "get_task_state"}
  BY DEF TurnsToEnter
<1>2. \/ t.pc = "get_run" /\ u.pc = "get_session"
      \/ t.pc = "get_session" /\ u.pc = "get_task_state"
      \/ t.pc = "get_task_state" /\ u.pc = "execution_outcomes"
  BY <1>1 DEF NextPoint, Reading, InHarness, Recording, Waiting
<1>3. QED BY <1>2 DEF TurnsToEnter, StoreCalls, Reading

\* A task takes a step while another of its session is inside.
LEMMA TaskApart ==
  ASSUME TypeOK, Control, Queued, Crossing, NEW r \in Runs, TaskStep(r),
         NEW q \in Runs \ {r}, Standing(r), Standing(q), Standing(r)'
  PROVE  Apart(r, q)'
<1> SUFFICES ASSUME session'[r] = session'[q], Inside(r)', Inside(q)'
             PROVE  LeavesFirst(r, q)' \/ LeavesFirst(q, r)'
  BY DEF Apart
<1>1. PICK u : Advances(r, u)
  BY InsideAdvances
<1>2. /\ task'[r] = u /\ NextPoint(r, task[r], u) /\ Becomes(r, u)
      /\ task[r].pc \in StoreCalls => Turn(RunProc(r))
  BY <1>1 DEF Advances, Leads, Becomes, Control, Commits
<1>3. /\ task'[q] = task[q] /\ status'[q] = status[q] /\ UNCHANGED session
      /\ status'[r] \in Active => status[r] \in Active
  BY TaskOthers
<1>4. Inside(r) /\ Inside(q) /\ u.pc \in Reading \cup InHarness
  BY <1>2, <1>3, InsideAdvances DEF Inside
<1> DEFINE l == TurnsLeft(task[r].pc)
           m == TurnsLeft(task[q].pc)
           e == TurnsToEnter(task[r].pc)
           n == TurnsToEnter(task[q].pc)
<1>5. l \in 1 .. 7 /\ m \in 1 .. 7 /\ e \in 0 .. 4 /\ n \in 0 .. 4
      /\ TurnsLeft(u.pc) \in 1 .. 7
  BY TurnCounts
<1>6. CASE LeavesFirst(r, q)
  <2>1. status[r] \notin Active /\ l <= n
    BY <1>6 DEF LeavesFirst, Before
  <2>2. task[r].pc \in Beginning \cup Leaving
    BY <1>4, <2>1, OverInQueue
  <2>3. status'[r] \notin Active
    BY <1>3, <2>1
  <2>4. u.pc \notin InLoop
    BY <1>2, <2>3 DEF Standing, Active
  <2>5. u.pc \in Beginning \cup Leaving
    BY <1>4, <2>4 DEF InLoop, Beginning, Leaving
  <2>6. TurnsLeft(u.pc) + 1 <= l
    BY <1>2, <2>2, <2>5, TurnTaken
  <2> HIDE DEF l, n
  <2>7. TurnsLeft(u.pc) <= n /\ TurnsLeft(u.pc) # n
    BY <1>5, <2>1, <2>6
  <2>8. LeavesFirst(r, q)'
    BY <1>2, <1>3, <2>3, <2>7 DEF LeavesFirst, Before, n
  <2>9. QED BY <2>8
<1>7. CASE LeavesFirst(q, r)
  <2>1. status[q] \notin Active /\ m <= e
        /\ (m = e => Precedes(queue, RunProc(q), RunProc(r)))
    BY <1>7 DEF LeavesFirst, Before
  <2>2. e # 0 /\ task[r].pc \in Reading
    BY <1>5, <2>1, TurnCounts
  <2>3. task[r].pc \in StoreCalls
    BY <2>2 DEF StoreCalls
  <2>4. ~Precedes(queue, RunProc(q), RunProc(r))
    BY <1>2, <2>3, TurnFacts DEF Queued
  <2>5. m <= e - 1 /\ e > 1
    <3> HIDE DEF m, e
    <3>1. QED BY <1>5, <2>1, <2>4
  <2>6. TurnsToEnter(u.pc) = e - 1 /\ u.pc \in StoreCalls
    BY <1>2, <1>4, <2>5, EntryTaken
  <2>7. InQueue(queue, RunProc(q))
    BY <1>4, <2>1, OverInQueue
  <2>8. Precedes(queue', RunProc(q), RunProc(r))
    BY <1>2, <2>6, <2>7, BecomesFacts, ProcNames DEF Queued, QueueChange
  <2>9. Before(RunProc(q), m, RunProc(r), TurnsToEnter(u.pc))'
    BY <1>2, <1>3, <2>5, <2>6, <2>8 DEF Before
  <2>10. LeavesFirst(q, r)'
    BY <1>2, <1>3, <2>1, <2>9 DEF LeavesFirst
  <2>11. QED BY <2>10
<1>8. QED BY <1>3, <1>4, <1>6, <1>7 DEF Crossing, Apart

\* A task that takes a step still yields to the submission.
LEMMA TaskYields ==
  ASSUME TypeOK, Control, Queued, NEW r \in Runs, TaskStep(r), Standing(r),
         Yields(r), sub.pc # "idle"
  PROVE  Yields(r)'
<1> SUFFICES ASSUME session'[r] = sub'.session,
                    \/ task'[r].pc \in Beginning
                    \/ task'[r].pc \in Leaving /\ status'[r] \notin Active
             PROVE  Before(RunProc(r), TurnsLeft(task[r].pc),
                           SubProc(sub.session), SubTurns(sub.pc))'
  BY DEF Yields
<1>1. Inside(r)'
  BY DEF Inside, Beginning, Leaving, InHarness, Recording
<1>2. PICK u : Advances(r, u)
  BY <1>1, InsideAdvances
<1>3. task'[r] = u /\ NextPoint(r, task[r], u) /\ Commits(r)
  BY <1>2 DEF Advances, Leads, Becomes, Control
<1>4. UNCHANGED <<session, sub>>
  BY TaskOthers
<1>5. Inside(r)
  BY <1>1, InsideAdvances
<1>6. \/ task[r].pc \in Beginning
      \/ task[r].pc \in Leaving /\ status[r] \notin Active
  <2>1. CASE u.pc \in Beginning
    <3>1. task[r].pc \in Beginning
      BY <1>3, <1>5, <2>1
      DEF NextPoint, Inside, InHarness, InLoop, Beginning, Reading, Recording,
          Waiting
    <3>2. QED BY <3>1
  <2>2. CASE u.pc \in Leaving /\ status'[r] \notin Active
    <3>1. task[r].pc \notin InLoop
      BY <1>3, <2>2, CommittedStatus DEF Standing, Active
    <3>2. task[r].pc = "cancel_event" => status[r] \notin Active
      BY <1>3, <2>2, CommittedStatus DEF Active
    <3>3. task[r].pc # "ending"
      BY <1>3, <2>2 DEF NextPoint, Leaving
    <3>4. QED
      BY <1>5, <3>1, <3>2, <3>3 DEF Inside, InLoop, InHarness, Beginning,
         Leaving
  <2>3. QED BY <1>3, <2>1, <2>2
<1>7. TurnsLeft(u.pc) + 1 <= TurnsLeft(task[r].pc)
  BY <1>3, <1>6, TurnTaken
<1>8. TurnsLeft(task[r].pc) <= SubTurns(sub.pc)
  BY <1>4, <1>6 DEF Yields, Before
<1>9. TurnsLeft(u.pc) < SubTurns(sub.pc)
  BY <1>7, <1>8, TurnCounts
<1>10. /\ TurnsLeft(u.pc) <= SubTurns(sub.pc)
       /\ TurnsLeft(u.pc) # SubTurns(sub.pc)
  BY <1>9, TurnCounts
<1>11. QED BY <1>3, <1>4, <1>10 DEF Before

\* A step of a task keeps the turns in order.
LEMMA TaskCrossing ==
  ASSUME TypeOK, Control, Queued, Crossing, \A q \in Runs : Standing(q),
         NEW r \in Runs, TaskStep(r), Standing(r)'
  PROVE  Crossing'
<1>1. ASSUME NEW x \in Runs, NEW y \in Runs PROVE Apart(x, y)'
  <2>1. CASE x = r /\ y # r
    BY <2>1, TaskApart
  <2>2. CASE x # r /\ y = r
    <3>1. Apart(y, x)'
      BY <2>2, TaskApart
    <3>2. QED BY <3>1 DEF Apart
  <2>3. CASE x = y
    BY <2>3 DEF Apart
  <2>4. CASE x # r /\ y # r
    <3>1. /\ task'[x] = task[x] /\ task'[y] = task[y] /\ UNCHANGED session
          /\ status'[x] = status[x] /\ status'[y] = status[y]
      BY <2>4, TaskOthers
    <3>2. /\ Precedes(queue, RunProc(x), RunProc(y)) =>
               Precedes(queue', RunProc(x), RunProc(y))
          /\ Precedes(queue, RunProc(y), RunProc(x)) =>
               Precedes(queue', RunProc(y), RunProc(x))
      BY <2>4, TaskOthers, ProcNames
    <3>3. Apart(x, y)
      BY DEF Crossing
    <3>4. /\ LeavesFirst(x, y) => LeavesFirst(x, y)'
          /\ LeavesFirst(y, x) => LeavesFirst(y, x)'
      BY <3>1, <3>2 DEF LeavesFirst, Before
    <3>5. QED BY <3>1, <3>3, <3>4 DEF Apart, Inside
  <2>5. QED BY <2>1, <2>2, <2>3, <2>4
<1>2. ASSUME sub'.pc # "idle", NEW q \in Runs PROVE Yields(q)'
  <2>1. UNCHANGED <<session, sub>> /\ Yields(q)
    BY <1>2, TaskOthers DEF Crossing
  <2>2. CASE q = r
    BY <1>2, <2>1, <2>2, TaskYields
  <2>3. CASE q # r
    <3>1. task'[q] = task[q] /\ status'[q] = status[q]
      BY <2>3, TaskOthers
    <3>2. Precedes(queue, RunProc(q), SubProc(sub.session)) =>
            Precedes(queue', RunProc(q), SubProc(sub.session))
      BY <2>3, TaskOthers, ProcNames
    <3>3. QED BY <2>1, <3>1, <3>2 DEF Yields, Before
  <2>4. QED BY <2>2, <2>3
<1>3. QED BY <1>1, <1>2 DEF Crossing

\* The submission comes to the queue, or takes the lock and comes back.
LEMMA SubmissionCrossing ==
  ASSUME Control, Queued, Crossing, \A r \in Runs : Standing(r),
         NEW s \in Sessions, Requeue(SubProc(s)), sub'.session = s,
         sub'.pc # "idle", UNCHANGED <<task, session, status>>,
         \/ sub.pc = "idle" /\ SubTurns(sub'.pc) = 7
         \/ /\ sub.pc # "idle" /\ sub.session = s /\ Turn(SubProc(s))
            /\ SubTurns(sub.pc) = SubTurns(sub'.pc) + 1
  PROVE  Crossing'
<1>1. QueueChange(SubProc(s), TRUE)
  BY ProcNames, RequeueFacts DEF Queued
<1>2. ASSUME NEW x \in Runs, NEW y \in Runs PROVE Apart(x, y)'
  <2>1. ASSUME NEW a \in Runs, NEW b \in Runs
        PROVE  LeavesFirst(a, b) => LeavesFirst(a, b)'
    <3>1. Precedes(queue, RunProc(a), RunProc(b)) =>
            Precedes(queue', RunProc(a), RunProc(b))
      BY <1>1, ProcNames DEF QueueChange
    <3>2. QED BY <3>1 DEF LeavesFirst, Before
  <2>2. Apart(x, y)
    BY DEF Crossing
  <2>3. QED BY <2>1, <2>2 DEF Apart, Inside
<1>3. ASSUME NEW r \in Runs PROVE Yields(r)'
  <2> SUFFICES ASSUME session[r] = s,
                      \/ task[r].pc \in Beginning
                      \/ task[r].pc \in Leaving /\ status[r] \notin Active
               PROVE  Before(RunProc(r), TurnsLeft(task[r].pc),
                             SubProc(sub.session), SubTurns(sub.pc))'
    BY DEF Yields
  <2>1. InQueue(queue, RunProc(r))
    BY TurnCounts DEF Queued
  <2>2. Precedes(queue', RunProc(r), SubProc(s))
    BY <1>1, <2>1, ProcNames DEF QueueChange
  <2>3. TurnsLeft(task[r].pc) <= SubTurns(sub'.pc)
    <3>1. CASE sub.pc = "idle" /\ SubTurns(sub'.pc) = 7
      BY <3>1, TurnCounts
    <3>2. CASE /\ sub.pc # "idle" /\ sub.session = s /\ Turn(SubProc(s))
               /\ SubTurns(sub.pc) = SubTurns(sub'.pc) + 1
      <4>1. ~Precedes(queue, RunProc(r), SubProc(s))
        BY <3>2, TurnFacts DEF Queued
      <4>2. TurnsLeft(task[r].pc) <= SubTurns(sub.pc)
            /\ TurnsLeft(task[r].pc) # SubTurns(sub.pc)
        BY <3>2, <4>1 DEF Crossing, Yields, Before
      <4>3. QED BY <3>2, <4>2, TurnCounts
    <3>3. QED BY <3>1, <3>2
  <2>4. QED BY <2>2, <2>3 DEF Before
<1>4. QED BY <1>2, <1>3 DEF Crossing

\* A task of the session that is inside as a run is created for it is over,
\* and out before the new one is in.
LEMMA CreateApart ==
  ASSUME Base, Queued, Crossing, \A q \in Runs : Standing(q), NEW r \in Runs,
         SubmitCreate(r), task' = [task EXCEPT ![r] = NewTask],
         queue' = Append(Without(SubProc(sub.session)), RunProc(r)),
         NEW q \in Runs \ {r}
  PROVE  Apart(q, r)'
<1> USE DEF Base
<1> DEFINE p == SubProc(sub.session)
<1>1. /\ status[r] = "absent" /\ status' = [status EXCEPT ![r] = "queued"]
      /\ session' = [session EXCEPT ![r] = sub.session]
      /\ ActiveIn(sub.session) = {} /\ sub.pc = "create_run" /\ Turn(p)
  BY DEF SubmitCreate, CreateRun, SubmitTurn
<1>2. /\ status'[q] = status[q] /\ session'[q] = session[q]
      /\ session'[r] = sub.session /\ task'[q] = task[q]
      /\ task'[r].pc = "get_run"
  BY <1>1, DoneFields DEF TypeOK, Control
<1> SUFFICES ASSUME session[q] = sub.session, Inside(q)
             PROVE  LeavesFirst(q, r)'
  BY <1>2 DEF Apart, Inside
<1>3. status[q] \notin Active
  BY <1>1 DEF ActiveIn
<1>4. task[q].pc \in Beginning \cup Leaving /\ InQueue(queue, RunProc(q))
  BY <1>3, OverInQueue
<1>5. Yields(q)
  BY <1>1 DEF Crossing
<1>6. /\ TurnsLeft(task[q].pc) <= 5
      /\ TurnsLeft(task[q].pc) = 5 => Precedes(queue, RunProc(q), p)
  BY <1>1, <1>3, <1>4, <1>5 DEF Yields, Before, SubTurns
<1>7. ~Precedes(queue, RunProc(q), p)
  BY <1>1, TurnFacts DEF Queued
<1>8. TurnsLeft(task[q].pc) <= 4
  BY <1>6, <1>7, TurnCounts
<1>9. PICK w : w = Without(p)
  OBVIOUS
<1>10. ProperQueue(w) /\ \A x : InQueue(w, x) <=> InQueue(queue, x) /\ x # p
  BY <1>9, WithoutFacts DEF Queued
<1>11. task[r].pc \notin StoreCalls
  BY <1>1
  DEF UsageOK, RowMatches, StoreCalls, Reading, Recording, Forced
<1>12. ~InQueue(w, RunProc(r)) /\ InQueue(w, RunProc(q))
  BY <1>4, <1>10, <1>11, ProcNames DEF Queued
<1>13. Precedes(queue', RunProc(q), RunProc(r))
  BY <1>9, <1>10, <1>12, AppendQueue, ProcNames
<1>14. TurnsToEnter(task'[r].pc) = 4
  BY <1>2 DEF TurnsToEnter
<1>15. QED BY <1>2, <1>3, <1>8, <1>13, <1>14 DEF LeavesFirst, Before

\* The creation of a run puts its first turn behind those of the run before it.
LEMMA CreateCrossing ==
  ASSUME Base, Queued, Crossing, \A q \in Runs : Standing(q), NEW r \in Runs,
         SubmitCreate(r)
  PROVE  Crossing'
<1> USE DEF Base
<1> DEFINE p == SubProc(sub.session)
<1>1. /\ status[r] = "absent" /\ status' = [status EXCEPT ![r] = "queued"]
      /\ session' = [session EXCEPT ![r] = sub.session]
      /\ sub' = NoSub
  BY DEF SubmitCreate, CreateRun
<1>2. \A q \in Runs \ {r} : /\ status'[q] = status[q] /\ task'[q] = task[q]
                            /\ session'[q] = session[q]
  BY <1>1 DEF SubmitCreate, TypeOK, Control
<1>3. task[r].pc = "absent"
  BY <1>1 DEF UsageOK, RowMatches
<1>4. PICK w : w = Without(p)
  OBVIOUS
<1>5. /\ ProperQueue(w)
      /\ \A x : InQueue(w, x) <=> InQueue(queue, x) /\ x # p
      /\ \A x, y : Precedes(queue, x, y) /\ x # p /\ y # p
                     => Precedes(w, x, y)
  BY <1>4, WithoutFacts DEF Queued
<1>6. ASSUME NEW x \in Runs, NEW y \in Runs
      PROVE  Precedes(queue, RunProc(x), RunProc(y)) =>
               Precedes(queue', RunProc(x), RunProc(y))
  <2>1. Precedes(queue, RunProc(x), RunProc(y)) =>
          Precedes(w, RunProc(x), RunProc(y))
    BY <1>5, ProcNames
  <2>2. ~InQueue(w, RunProc(r))
    BY <1>3, <1>5
    DEF Queued, StoreCalls, Reading, Recording, Forced
  <2>3. queue' = w \/ queue' = Append(w, RunProc(r))
    BY <1>4 DEF SubmitCreate, Leave
  <2>4. Precedes(w, RunProc(x), RunProc(y)) =>
          Precedes(Append(w, RunProc(r)), RunProc(x), RunProc(y))
    BY <1>5, <2>2, AppendQueue, ProcNames
  <2>5. QED BY <2>1, <2>3, <2>4
<1>7. ASSUME NEW x \in Runs \ {r}, NEW y \in Runs \ {r} PROVE Apart(x, y)'
  <2>1. Apart(x, y)
    BY DEF Crossing
  <2>2. /\ LeavesFirst(x, y) => LeavesFirst(x, y)'
        /\ LeavesFirst(y, x) => LeavesFirst(y, x)'
    BY <1>2, <1>6 DEF LeavesFirst, Before
  <2>3. QED BY <1>2, <2>1, <2>2 DEF Apart, Inside
<1>8. ASSUME NEW q \in Runs \ {r} PROVE Apart(q, r)'
  <2>1. CASE task' = task
    BY <1>3, <2>1
    DEF Apart, Inside, Reading, InHarness, Recording, Waiting
  <2>2. CASE /\ task' = [task EXCEPT ![r] = NewTask]
             /\ queue' = Append(Without(p), RunProc(r))
    BY <2>2, CreateApart
  <2>3. QED BY <2>1, <2>2 DEF SubmitCreate
<1>9. ASSUME NEW x \in Runs, NEW y \in Runs PROVE Apart(x, y)'
  <2>1. Apart(x, x)' /\ (Apart(y, x)' => Apart(x, y)')
    BY DEF Apart
  <2>2. QED BY <1>7, <1>8, <2>1
<1>10. sub'.pc = "idle"
  BY <1>1 DEF NoSub
<1>11. QED BY <1>9, <1>10 DEF Crossing


\* The shutdown comes to the queue last.
LEMMA StopOrderly ==
  ASSUME NEW left \in SUBSET Runs, NEW others, ProperQueue(others),
         StopGoesOn(left, others),
         \A r \in Runs : ~InQueue(others, StopProc(r))
  PROVE  \A x, y : Precedes(others, x, y) => Precedes(queue', x, y)
<1>1. ASSUME NEW r \in left, queue' = Append(others, StopProc(r))
      PROVE  \A x, y : Precedes(others, x, y) => Precedes(queue', x, y)
  BY <1>1, AppendQueue, ProcNames
<1>2. QED BY <1>1 DEF StopGoesOn

\* Cancellations change only runs that are active and not on their way out.
LEMMA CancelOver ==
  ASSUME TypeOK, \A q \in Runs : Standing(q), NEW r \in Runs,
         CancelCommits(r) \/ CancelFails
  PROVE  /\ UNCHANGED session
         /\ \A q \in Runs : status[q] \notin Active => status'[q] \notin Active
         /\ \A q \in Runs : status'[q] \notin Active =>
                              \/ status[q] \notin Active
                              \/ task[q].pc \notin Leaving
<1>1. CASE CancelFails
  BY <1>1 DEF CancelFails, dbVars
<1>2. CASE CancelCommits(r)
  <2>1. /\ UNCHANGED session
        /\ \A q \in Runs \ {r} : status'[q] = status[q]
        /\ \/ status[r] = "queued" /\ status'[r] = "cancelled"
           \/ status[r] = "running" /\ status'[r] = "cancel_requested"
           \/ status'[r] = status[r]
    BY <1>2 DEF CancelCommits, CancelRun, TypeOK
  <2>2. status[r] = "queued" => task[r].pc \notin Leaving
    BY DEF Standing
  <2>3. QED BY <2>1, <2>2 DEF Active
<1>3. QED BY <1>1, <1>2

\* Requests to cancel and the shutdown do not come between the tasks.
LEMMA OthersOrderly ==
  ASSUME NEW r, NEW stays,
         QueueChange(CancelProc(r), stays) \/ QueueChange(StopProc(r), stays)
  PROVE  Orderly /\ SubOrderly
BY ProcNames DEF QueueChange, Orderly, SubOrderly

\* A submission that is over is ahead of nobody.
LEMMA SubmissionOver ==
  ASSUME Queued, NEW s, Leave(SubProc(s))
  PROVE  Orderly
<1>1. QueueChange(SubProc(s), FALSE)
  BY LeaveFacts DEF Queued
<1>2. QED BY <1>1, ProcNames DEF QueueChange, Orderly

\* A submission that goes on keeps the turns in order.
LEMMA SubmitToCrossing ==
  ASSUME Control, Queued, Crossing, \A r \in Runs : Standing(r),
         NEW pc \in {"idle", "get_task_state", "create_run"},
         sub.pc # "idle", Turn(SubProc(sub.session)), SubmitTo(pc),
         pc # "idle" => SubTurns(sub.pc) = SubTurns(pc) + 1,
         UNCHANGED <<task, session, status>>
  PROVE  Crossing'
<1> DEFINE p == SubProc(sub.session)
<1>1. CASE sub' = NoSub /\ Leave(p)
  <2>1. Orderly /\ sub'.pc = "idle"
    BY <1>1, SubmissionOver DEF NoSub
  <2>2. QED BY <2>1, CrossingKept
<1>2. CASE pc # "idle" /\ sub' = [sub EXCEPT !.pc = pc] /\ Requeue(p)
  <2>1. PICK s \in Sessions : s = sub.session
    BY DEF Control
  <2>2. sub'.pc = pc /\ sub'.session = s
    BY <1>2, <2>1 DEF Control
  <2>3. QED BY <1>2, <2>1, <2>2, SubmissionCrossing
<1>3. QED BY <1>1, <1>2 DEF SubmitTo

\* So does the shutdown.
LEMMA ShutdownCrossing ==
  ASSUME Base, Queued, Halting, Crossing, \A q \in Runs : Standing(q),
         ShutdownBegins \/ Shutdown
  PROVE  Crossing'
<1> USE DEF Base
<1>1. ASSUME ShutdownBegins PROVE Crossing'
  <2>1. /\ StopGoesOn(Tokens, queue) /\ sub.pc = "idle" /\ stop.pc = "off"
        /\ UNCHANGED <<sub, task, session, status>>
    BY <1>1 DEF ShutdownBegins, storeVars
  <2>2. PICK left \in SUBSET Runs : left = Tokens
    BY DEF Tokens
  <2>3. \A r \in Runs : ~InQueue(queue, StopProc(r))
    BY <2>1 DEF Queued
  <2>4. \A x, y : Precedes(queue, x, y) => Precedes(queue', x, y)
    BY <2>1, <2>2, <2>3, StopOrderly DEF Queued
  <2>5. QED BY <2>1, <2>4, CrossingKept DEF Orderly
<1>2. ASSUME ShutdownCancels PROVE Crossing'
  <2>1. PICK r \in Runs, left \in SUBSET Runs : r = stop.run /\ left = stop.left
    BY <1>2 DEF ShutdownCancels, Control
  <2>2. PICK others : others = Without(StopProc(r))
    OBVIOUS
  <2>3. UNCHANGED <<sub, task>> /\ stop.pc = "cancel"
    BY <1>2 DEF ShutdownCancels
  <2>4. /\ ProperQueue(others)
        /\ \A x : InQueue(others, x) <=> InQueue(queue, x) /\ x # StopProc(r)
        /\ \A x, y : Precedes(queue, x, y) /\ x # StopProc(r) /\ y # StopProc(r)
                       => Precedes(others, x, y)
    BY <2>2, WithoutFacts DEF Queued
  <2>5. \A q \in Runs : ~InQueue(others, StopProc(q))
    BY <2>1, <2>4 DEF Queued
  <2>6. StopGoesOn(left, others)
    BY <1>2, <2>1, <2>2 DEF ShutdownCancels
  <2>7. \A x, y : Precedes(others, x, y) => Precedes(queue', x, y)
    BY <2>4, <2>5, <2>6, StopOrderly
  <2>8. Orderly
    BY <2>4, <2>7, ProcNames DEF Orderly
  <2>9. sub'.pc = "idle"
    BY <2>3 DEF Halting
  <2>10. CancelCommits(r) \/ CancelFails
    BY <1>2, <2>1 DEF ShutdownCancels
  <2>11. QED BY <2>3, <2>8, <2>9, <2>10, CancelOver, CrossingKept
<1>3. ASSUME ShutdownForces \/ ShutdownEnds PROVE Crossing'
  <2>1. UNCHANGED <<sub, task, session, status, queue>>
    BY <1>3 DEF ShutdownForces, ShutdownEnds, storeVars, dbVars, taskVars
  <2>2. QED BY <2>1, CrossingKept DEF Orderly, SubOrderly
<1>4. QED BY <1>1, <1>2, <1>3 DEF Shutdown

\* So does every other step.
LEMMA StepCrossing ==
  ASSUME Base, Queued, Halting, Crossing, \A q \in Runs : Standing(q),
         \A q \in Runs : Standing(q)', [Next]_vars
  PROVE  Crossing'
<1> USE DEF Base
<1>1. ASSUME NEW r \in Runs, RunTask(r) PROVE Crossing'
  BY <1>1, RunTaskStep, TaskCrossing
<1>2. ASSUME UNCHANGED <<task, session, status, sub, queue>> PROVE Crossing'
  BY <1>2, CrossingKept DEF Orderly, SubOrderly
<1>3. ASSUME NEW s \in Sessions, Submit(s) PROVE Crossing'
  <2>1. /\ sub.pc = "idle" /\ sub'.pc = "get_session" /\ sub'.session = s
        /\ Requeue(SubProc(s)) /\ UNCHANGED <<task, session, status>>
    BY <1>3 DEF Submit, storeVars, taskVars
  <2>2. SubTurns(sub'.pc) = 7
    BY <2>1 DEF SubTurns
  <2>3. QED BY <2>1, <2>2, SubmissionCrossing
<1>4. ASSUME SubmitGetSession \/ SubmitGetTaskState \/ SubmitConflict
      PROVE  Crossing'
  <2>1. UNCHANGED <<task, session, status>>
    BY <1>4
    DEF SubmitGetSession, SubmitGetTaskState, SubmitConflict, GetTaskState,
        dbVars, taskVars
  <2>2. /\ sub.pc # "idle" /\ Turn(SubProc(sub.session))
        /\ \E pc \in {"idle", "get_task_state", "create_run"} :
             SubmitTo(pc) /\ (pc # "idle" => SubTurns(sub.pc) = SubTurns(pc) + 1)
    <3>1. /\ SubTurns("get_session") = SubTurns("get_task_state") + 1
          /\ SubTurns("get_task_state") = SubTurns("create_run") + 1
      BY DEF SubTurns
    <3>2. QED
      BY <1>4, <3>1
      DEF SubmitGetSession, SubmitGetTaskState, SubmitConflict, SubmitTurn
  <2>3. QED BY <2>1, <2>2, SubmitToCrossing
<1>5. ASSUME SubmitFails PROVE Crossing'
  <2>1. UNCHANGED <<task, session, status>> /\ sub'.pc = "idle"
    BY <1>5 DEF SubmitFails, dbVars, taskVars, NoSub
  <2>2. Orderly
    BY <1>5, SubmissionOver DEF SubmitFails
  <2>3. QED BY <2>1, <2>2, CrossingKept
<1>6. ASSUME NEW r \in Runs, SubmitCreate(r) PROVE Crossing'
  BY <1>6, CreateCrossing
<1>7. ASSUME NEW r \in Runs, RequestCancel(r) PROVE Crossing'
  <2>1. UNCHANGED <<task, session, status, sub>>
    BY <1>7 DEF RequestCancel, storeVars, taskVars
  <2>2. QueueChange(CancelProc(r), TRUE)
    BY <1>7, ProcNames, RequeueFacts DEF RequestCancel, Queued
  <2>3. QED BY <2>1, <2>2, OthersOrderly, CrossingKept
<1>8. ASSUME NEW r \in Runs, CancelAnswered(r) PROVE Crossing'
  <2>1. UNCHANGED <<task, sub>> /\ (CancelCommits(r) \/ CancelFails)
    BY <1>8 DEF CancelAnswered
  <2>2. QueueChange(CancelProc(r), FALSE)
    BY <1>8, LeaveFacts DEF CancelAnswered, Queued
  <2>3. QED BY <2>1, <2>2, OthersOrderly, CancelOver, CrossingKept
<1>9. ASSUME ShutdownBegins \/ Shutdown PROVE Crossing'
  BY <1>9, ShutdownCrossing
<1>10. ASSUME ProcessEnds \/ Start PROVE Crossing'
  <2>1. sub'.pc = "idle" /\ \A q \in Runs : task'[q].pc = "absent"
    BY <1>10, DoneFields DEF ProcessEnds, Start, Down, NoSub, taskVars
  <2>2. QED
    BY <2>1
    DEF Crossing, Apart, Inside, Reading, InHarness, Recording, Waiting
<1>11. ASSUME NEW a \in DOMAIN attempts, Reconcile(a) PROVE Crossing'
  BY <1>2, <1>11 DEF Reconcile, ResolveAttempt, serviceVars, taskVars
<1>12. ASSUME UNCHANGED vars PROVE Crossing'
  BY <1>2, <1>12 DEF vars, storeVars, serviceVars, taskVars
<1>13. QED
  BY <1>1, <1>3, <1>4, <1>5, <1>6, <1>7, <1>8, <1>9, <1>10, <1>11, <1>12
  DEF Next, Submission

-----------------------------------------------------------------------------
(* The theorems *)

\* No task was rejected, and the service did not fail because of one.
NoneRejected ==
  fault # "lifecycle" /\ \A r \in Runs : task[r].pc # "rejected"

\* While the turns are in order no step rejects a run.
LEMMA StepNoneRejected ==
  ASSUME Base, Queued, Crossing, NoneRejected, [Next]_vars
  PROVE  NoneRejected'
<1> USE DEF Base
<1>1. ASSUME NEW r \in Runs, RunTask(r) PROVE NoneRejected'
  <2>1. TaskStep(r)
    BY <1>1, RunTaskStep
  <2>2. \A q \in Runs \ {r} : task'[q].pc # "rejected"
    BY <2>1, TaskOthers DEF NoneRejected
  <2>3. fault' # "lifecycle"
    BY <2>1
    DEF TaskStep, Advances, Raises, Interrupts, Observe, serviceVars,
        NoneRejected
  <2>4. task'[r].pc # "rejected"
    <3>1. ASSUME NEW u, Advances(r, u), u.pc = "rejected" PROVE FALSE
      <4>1. NextPoint(r, task[r], u) /\ Commits(r)
        BY <3>1 DEF Advances, Leads
      <4>2. task[r].pc \in Reading \cup Recording \cup Waiting \cup Forced
        BY <4>1 DEF Commits, Reports, Recording, Forced
      <4>3. task[r].pc = "execution_outcomes"
            /\ session[r] \in ActiveSessions
        BY <3>1, <4>1, <4>2
        DEF NextPoint, InLoop, InHarness, Reading, Recording, Waiting, Forced
      <4>4. Turn(RunProc(r))
        BY <4>1, <4>3 DEF Commits, StoreCalls, Reading
      <4>5. QED BY <4>3, <4>4, EntersAlone
    <3>2. ASSUME NEW u, Becomes(r, u) PROVE task'[r] = u
      BY <3>2 DEF Becomes, Control
    <3>3. At(task[r], "raised").pc = "raised"
      BY GoesTo DEF Control
    <3>4. Unwound(task[r]).pc # "rejected"
      BY UnwoundFields DEF Control
    <3>5. Observe(r) => task'[r].pc = "done"
      BY DoneFields DEF Observe, Control
    <3>6. (\E u : Advances(r, u)) => task'[r].pc # "rejected"
      BY <3>1, <3>2 DEF Advances
    <3>7. Raises(r) \/ Interrupts(r) => task'[r].pc # "rejected"
      <4>1. PICK u : u = Unwound(task[r])
        OBVIOUS
      <4>2. PICK w : w = At(task[r], "raised")
        OBVIOUS
      <4>3. QED BY <3>2, <3>3, <3>4, <4>1, <4>2 DEF Raises, Interrupts
    <3>8. QED BY <2>1, <3>5, <3>6, <3>7 DEF TaskStep
  <2>5. QED BY <2>2, <2>3, <2>4 DEF NoneRejected
<1>2. ASSUME UNCHANGED <<task, fault>> PROVE NoneRejected'
  BY <1>2 DEF NoneRejected
<1>3. ASSUME \/ \E s \in Sessions : Submit(s)
             \/ SubmitGetSession \/ SubmitGetTaskState \/ SubmitConflict
             \/ SubmitFails
             \/ \E r \in Runs : RequestCancel(r) \/ CancelAnswered(r)
             \/ ShutdownBegins \/ ShutdownForces \/ ShutdownEnds \/ Start
             \/ \E a \in DOMAIN attempts : Reconcile(a)
             \/ UNCHANGED vars
      PROVE  NoneRejected'
  <2>1. UNCHANGED <<task, fault>>
    BY <1>3
    DEF Submit, SubmitGetSession, SubmitGetTaskState, SubmitConflict,
        SubmitFails, SubmitTo, RequestCancel, CancelAnswered, ShutdownBegins,
        ShutdownForces, ShutdownEnds, Start, Reconcile, vars, serviceVars,
        taskVars
  <2>2. QED BY <1>2, <2>1
<1>4. ASSUME NEW r \in Runs, SubmitCreate(r) PROVE NoneRejected'
  BY <1>4, DoneFields DEF SubmitCreate, NoneRejected, Control
<1>5. ASSUME ShutdownCancels PROVE NoneRejected'
  BY <1>5 DEF ShutdownCancels, NoneRejected
<1>6. ASSUME ProcessEnds PROVE NoneRejected'
  BY <1>6, DoneFields DEF ProcessEnds, NoneRejected
<1>7. QED
  BY <1>1, <1>3, <1>4, <1>5, <1>6 DEF Next, Submission, Shutdown

\* The queue, the statuses and the order of the lock, together.
Served ==
  /\ Queued
  /\ \A r \in Runs : Standing(r)
  /\ Halting
  /\ Crossing
  /\ NoneRejected

\* In every reachable state the lock's queue is the one of the processes that
\* call the store, every status fits the point of its task, and of two tasks of
\* a session one is out before the other is in.
THEOREM ServedHolds == Spec => []Served
<1>1. Init => Served
  <2> SUFFICES ASSUME Init PROVE Served
    OBVIOUS
  <2>1. /\ queue = <<>> /\ sub.pc = "idle" /\ stop.pc = "off"
        /\ interrupted = {} /\ fault = "none"
        /\ \A r \in Runs : task[r].pc = "absent" /\ status[r] = "absent"
    BY DoneFields DEF Init, StoreInit, NoSub, NoStop
  <2>2. ProperQueue(queue) /\ \A x : ~InQueue(queue, x)
    BY <2>1 DEF ProperQueue, Distinct, InQueue
  <2>3. Queued
    BY <2>1, <2>2
    DEF Queued, StoreCalls, Reading, Recording, Forced
  <2>4. \A r \in Runs : Standing(r)
    BY <2>1
    DEF Standing, Beginning, Reading, InLoop, InHarness, Recording, Waiting,
        Leaving, Active
  <2>5. Halting /\ NoneRejected
    BY <2>1 DEF Halting, NoneRejected
  <2>6. Crossing
    BY <2>1 DEF Crossing, Apart, Inside, Reading, InHarness, Recording, Waiting
  <2>7. QED BY <2>3, <2>4, <2>5, <2>6 DEF Served
<1>2. Base /\ Served /\ [Next]_vars => Served'
  <2> SUFFICES ASSUME Base, Served, [Next]_vars PROVE Served'
    OBVIOUS
  <2>1. Queued' /\ Halting' /\ NoneRejected'
    BY StepQueued, StepHalting, StepNoneRejected DEF Served
  <2>2. \A r \in Runs : Standing(r)'
    <3>1. \A r \in Runs : task'[r].pc # "rejected"
      BY <2>1 DEF NoneRejected
    <3>2. QED BY <3>1, StepStanding DEF Served
  <2>3. Crossing'
    BY <2>2, StepCrossing DEF Served
  <2>4. QED BY <2>1, <2>2, <2>3 DEF Served
<1>3. QED BY <1>1, <1>2, BaseHolds, PTL DEF Spec

\* No run finds another of its session in the harness, and none makes the
\* service fail: a run cancelled in the queue is out before the next is in.
THEOREM NoRunRejected == Spec => []NeverRejected
<1>1. Served => NeverRejected
  BY DEF Served, NoneRejected, NeverRejected
<1>2. QED BY <1>1, ServedHolds, PTL

\* Every run that is active in a working service has a task that will end it,
\* whatever order of cancellations, shutdown and restarts came before.
THEOREM NoRunLeftBehind == Spec => []NoOrphan
<1>1. Base /\ Served => NoOrphan
  BY ActiveLive DEF Base, Served, NoOrphan
<1>2. QED BY <1>1, BaseHolds, ServedHolds, PTL

-----------------------------------------------------------------------------
(* Cancellations *)

\* Only a request that was made calls the store, and only for a run that is
\* there.
Asked ==
  \A r \in Runs : /\ InQueue(queue, CancelProc(r)) => cancels[r] # "none"
                  /\ cancels[r] # "none" => status[r] # "absent"

\* No request to cancel comes to the queue.
NoNewRequest ==
  \A r \in Runs :
    InQueue(queue', CancelProc(r)) => InQueue(queue, CancelProc(r))

\* Other callers come to the queue without one.
LEMMA OthersQueue ==
  ASSUME Queued, NEW p, \A r \in Runs : p # CancelProc(r),
         \/ Leave(p)
         \/ p \in Procs /\ Requeue(p)
  PROVE  NoNewRequest
BY LeaveFacts, RequeueFacts DEF Queued, QueueChange, NoNewRequest

\* A process that is appended is all that is new.
LEMMA AppendOnly ==
  ASSUME NEW q, ProperQueue(q), NEW p \in Procs, \A r \in Runs : p # CancelProc(r),
         \A x : InQueue(q, x) => InQueue(queue, x), queue' = Append(q, p)
  PROVE  NoNewRequest
<1>1. q \in Seq(Procs) /\ Len(q) \in Nat /\ DOMAIN q = 1 .. Len(q)
  BY LenProperties DEF ProperQueue
<1>2. /\ DOMAIN queue' = 1 .. Len(q) + 1
      /\ \A i \in 1 .. Len(q) : queue'[i] = q[i]
      /\ queue'[Len(q) + 1] = p
  <2>1. PICK w : w = Append(q, p)
    OBVIOUS
  <2>2. /\ w \in Seq(Procs) /\ DOMAIN w = 1 .. Len(q) + 1
        /\ \A i \in 1 .. Len(q) : w[i] = q[i]
        /\ w[Len(q) + 1] = p
    BY <1>1, <2>1, AppendFacts
  <2>3. QED BY <2>1, <2>2
<1>3. \A x : InQueue(queue', x) => InQueue(q, x) \/ x = p
  BY <1>1, <1>2 DEF InQueue
<1>4. QED BY <1>3 DEF NoNewRequest

\* The shutdown asks for no cancellation by a client.
LEMMA StopQueue ==
  ASSUME Queued, NEW left \in SUBSET Runs, NEW others, ProperQueue(others),
         \A x : InQueue(others, x) => InQueue(queue, x),
         StopGoesOn(left, others)
  PROVE  NoNewRequest
<1>1. ASSUME NEW r \in left, queue' = Append(others, StopProc(r))
      PROVE  NoNewRequest
  BY <1>1, ProcNames, AppendOnly
<1>2. ASSUME queue' = others PROVE NoNewRequest
  BY <1>2 DEF NoNewRequest
<1>3. QED BY <1>1, <1>2 DEF StopGoesOn

\* What is no request to cancel leaves the requests alone.
LEMMA AskedKept ==
  ASSUME Asked, UNCHANGED cancels, NoNewRequest,
         \A r \in Runs : status'[r] = "absent" => status[r] = "absent"
  PROVE  Asked'
BY DEF Asked, NoNewRequest

\* Every step keeps the requests in line with the queue and the rows.
LEMMA StepAsked == Base /\ Queued /\ Asked /\ [Next]_vars => Asked'
<1> SUFFICES ASSUME Base, Queued, Asked, [Next]_vars PROVE Asked'
  OBVIOUS
<1> USE DEF Base
<1>1. ASSUME NEW r \in Runs, RunTask(r) PROVE Asked'
  <2>1. TaskStep(r)
    BY <1>1, RunTaskStep
  <2>2. UNCHANGED cancels
    BY <2>1
    DEF TaskStep, Advances, Raises, Interrupts, Observe, serviceVars
  <2>3. \A q \in Runs : status'[q] = "absent" => status[q] = "absent"
    <3>1. Commits(r) \/ UNCHANGED status
      BY <2>1
      DEF TaskStep, Advances, Raises, Interrupts, Observe, dbVars, storeVars
    <3>2. QED BY <3>1, CommittedRow
  <2>4. NoNewRequest
    <3>1. (\E u : Becomes(r, u)) \/ queue' = queue
      BY <2>1 DEF TaskStep, Advances, Raises, Interrupts, Observe
    <3>2. ASSUME NEW u, Becomes(r, u) PROVE NoNewRequest
      BY <3>2, ProcNames, OthersQueue DEF Becomes
    <3>3. QED BY <3>1, <3>2 DEF NoNewRequest
  <2>5. QED BY <2>2, <2>3, <2>4, AskedKept
<1>2. ASSUME NEW s \in Sessions, Submit(s) PROVE Asked'
  <2>1. NoNewRequest
    <3>1. PICK p : p = SubProc(s)
      OBVIOUS
    <3>2. p \in Procs /\ Requeue(p) /\ \A r \in Runs : p # CancelProc(r)
      BY <1>2, <3>1, ProcNames DEF Submit
    <3>3. QED BY <3>2, OthersQueue
  <2>2. QED BY <1>2, <2>1, AskedKept DEF Submit, storeVars
<1>3. ASSUME \/ SubmitGetSession \/ SubmitGetTaskState \/ SubmitConflict
             \/ SubmitFails
      PROVE  Asked'
  <2>1. UNCHANGED <<status, cancels>>
    BY <1>3
    DEF SubmitGetSession, SubmitGetTaskState, SubmitConflict, SubmitFails,
        SubmitTo, GetTaskState, dbVars
  <2>2. sub.session \in Sessions
    BY <1>3
    DEF SubmitGetSession, SubmitGetTaskState, SubmitConflict, SubmitFails,
        SubmitTurn, Control
  <2>3. Leave(SubProc(sub.session)) \/ Requeue(SubProc(sub.session))
    BY <1>3
    DEF SubmitGetSession, SubmitGetTaskState, SubmitConflict, SubmitFails,
        SubmitTo
  <2>4. NoNewRequest
    <3>1. PICK p : p = SubProc(sub.session)
      OBVIOUS
    <3>2. p \in Procs /\ \A r \in Runs : p # CancelProc(r)
      BY <2>2, <3>1, ProcNames
    <3>3. Leave(p) \/ Requeue(p)
      BY <2>3, <3>1
    <3>4. QED BY <3>2, <3>3, OthersQueue
  <2>5. QED BY <2>1, <2>4, AskedKept
<1>4. ASSUME NEW r \in Runs, SubmitCreate(r) PROVE Asked'
  <2>1. /\ UNCHANGED cancels
        /\ status' = [status EXCEPT ![r] = "queued"]
        /\ sub.session \in Sessions
    BY <1>4 DEF SubmitCreate, CreateRun, SubmitTurn, Control
  <2>2. \A q \in Runs : status'[q] = "absent" => status[q] = "absent"
    BY <2>1 DEF TypeOK
  <2>3. ASSUME queue' = Append(Without(SubProc(sub.session)), RunProc(r))
        PROVE  NoNewRequest
    <3>1. PICK q : q = Without(SubProc(sub.session))
      OBVIOUS
    <3>2. ProperQueue(q) /\ \A x : InQueue(q, x) => InQueue(queue, x)
      BY <3>1, WithoutFacts DEF Queued
    <3>3. QED BY <2>3, <3>1, <3>2, ProcNames, AppendOnly
  <2>4. ASSUME Leave(SubProc(sub.session)) PROVE NoNewRequest
    <3>1. PICK p : p = SubProc(sub.session)
      OBVIOUS
    <3>2. Leave(p) /\ \A q \in Runs : p # CancelProc(q)
      BY <2>4, <3>1, ProcNames
    <3>3. QED BY <3>2, OthersQueue
  <2>5. NoNewRequest
    BY <1>4, <2>3, <2>4 DEF SubmitCreate
  <2>6. QED BY <2>1, <2>2, <2>5, AskedKept
<1>5. ASSUME NEW r \in Runs, RequestCancel(r) PROVE Asked'
  <2>1. QueueChange(CancelProc(r), TRUE)
    BY <1>5, ProcNames, RequeueFacts DEF RequestCancel, Queued
  <2>2. /\ cancels' = [cancels EXCEPT ![r] = "asked"]
        /\ status' = status /\ status[r] # "absent"
    BY <1>5 DEF RequestCancel, storeVars
  <2>3. cancels \in [Runs -> {"none", "asked", "answered"}]
    BY DEF Control
  <2>4. \A q \in Runs : CancelProc(q) = CancelProc(r) => q = r
    BY DEF CancelProc
  <2>5. QED BY <2>1, <2>2, <2>3, <2>4 DEF Asked, QueueChange
<1>6. ASSUME NEW r \in Runs, CancelAnswered(r) PROVE Asked'
  <2>1. QueueChange(CancelProc(r), FALSE) /\ InQueue(queue, CancelProc(r))
    BY <1>6, LeaveFacts, TurnFacts DEF CancelAnswered, Queued
  <2>2. cancels' = [cancels EXCEPT ![r] = "answered"]
    BY <1>6 DEF CancelAnswered
  <2>3. \A q \in Runs : status'[q] = "absent" => status[q] = "absent"
    BY <1>6
    DEF CancelAnswered, CancelCommits, CancelFails, CancelRun, dbVars, TypeOK
  <2>4. cancels \in [Runs -> {"none", "asked", "answered"}]
    BY DEF Control
  <2>5. status[r] # "absent"
    BY <2>1 DEF Asked
  <2>6. ASSUME NEW q \in Runs \ {r}
        PROVE  /\ InQueue(queue', CancelProc(q)) => cancels'[q] # "none"
               /\ cancels'[q] # "none" => status'[q] # "absent"
    <3>1. CancelProc(q) # CancelProc(r)
      BY DEF CancelProc
    <3>2. QED BY <2>1, <2>2, <2>3, <2>4, <3>1 DEF Asked, QueueChange
  <2>7. cancels'[r] = "answered" /\ status'[r] # "absent"
    BY <2>2, <2>3, <2>4, <2>5
  <2>8. QED BY <2>6, <2>7 DEF Asked
<1>7. ASSUME ShutdownBegins PROVE Asked'
  <2>1. Tokens \in SUBSET Runs /\ ProperQueue(queue)
    BY DEF Tokens, Queued
  <2>2. NoNewRequest
    BY <1>7, <2>1, StopQueue DEF ShutdownBegins
  <2>3. QED BY <1>7, <2>2, AskedKept DEF ShutdownBegins, storeVars
<1>8. ASSUME ShutdownCancels PROVE Asked'
  <2>1. PICK q, left : q = Without(StopProc(stop.run)) /\ left = stop.left
    OBVIOUS
  <2>2. ProperQueue(q) /\ \A x : InQueue(q, x) => InQueue(queue, x)
    BY <2>1, WithoutFacts DEF Queued
  <2>3. left \in SUBSET Runs /\ StopGoesOn(left, q)
    BY <1>8, <2>1 DEF ShutdownCancels, Control
  <2>4. NoNewRequest
    BY <2>2, <2>3, StopQueue
  <2>5. \A r \in Runs : status'[r] = "absent" => status[r] = "absent"
    BY <1>8
    DEF ShutdownCancels, CancelCommits, CancelFails, CancelRun, dbVars, TypeOK
  <2>6. QED BY <1>8, <2>4, <2>5, AskedKept DEF ShutdownCancels
<1>9. ASSUME ShutdownForces \/ ShutdownEnds PROVE Asked'
  BY <1>9, AskedKept
  DEF ShutdownForces, ShutdownEnds, storeVars, dbVars, NoNewRequest
<1>10. ASSUME ProcessEnds PROVE Asked'
  <2>1. queue' = <<>> /\ \A r \in Runs : cancels'[r] = "none"
    BY <1>10 DEF ProcessEnds
  <2>2. \A x : ~InQueue(queue', x)
    BY <2>1 DEF InQueue
  <2>3. QED BY <2>1, <2>2 DEF Asked
<1>11. ASSUME Start PROVE Asked'
  <2>1. \A r \in Runs : status'[r] = "absent" => status[r] = "absent"
    BY <1>11 DEF Start, Recover, RecoveredStatus
  <2>2. QED BY <1>11, <2>1, AskedKept DEF Start, NoNewRequest
<1>12. ASSUME \/ \E a \in DOMAIN attempts : Reconcile(a)
              \/ UNCHANGED vars
       PROVE  Asked'
  <2>1. UNCHANGED <<status, cancels, queue>>
    BY <1>12 DEF Reconcile, ResolveAttempt, vars, storeVars, dbVars, serviceVars
  <2>2. QED BY <2>1, AskedKept DEF NoNewRequest
<1>13. QED
  BY <1>1, <1>2, <1>3, <1>4, <1>5, <1>6, <1>7, <1>8, <1>9, <1>10, <1>11, <1>12
  DEF Next, Submission, Shutdown

\* What a task does beyond its own run, and where it goes on inside.
LEMMA TaskSignalled ==
  ASSUME TypeOK, Control, Queued, \A q \in Runs : Standing(q), CancelSignalled,
         NEW r \in Runs, TaskStep(r)
  PROVE  CancelSignalled'
<1>1. tokens \subseteq tokens' /\ UNCHANGED cancels
  BY DEF TaskStep, Advances, Raises, Interrupts, Observe, serviceVars
<1>2. \A q \in Runs \ {r} : task'[q] = task[q] /\ status'[q] = status[q]
  BY TaskOthers
<1>3. ASSUME status'[r] = "cancel_requested" \/ cancels'[r] = "answered",
             task'[r].pc \in Live \ Forced
      PROVE  r \in tokens
  <2>1. Inside(r)'
    BY <1>3 DEF Inside, Live, InHarness
  <2>2. PICK u : Advances(r, u)
    BY <2>1, InsideAdvances
  <2>3. Commits(r)
    BY <2>2 DEF Advances
  <2>4. Inside(r)
    BY <2>1, InsideAdvances
  <2>5. task[r].pc \in Live \ Forced
    BY <2>4
    DEF Inside, Live, InHarness, Reading, Recording, Waiting, Forced
  <2>6. CASE cancels'[r] = "answered"
    BY <1>1, <2>5, <2>6 DEF CancelSignalled
  <2>7. CASE task[r].pc = "cancel_event"
    BY <2>7 DEF Standing
  <2>8. CASE status'[r] = "cancel_requested" /\ task[r].pc # "cancel_event"
    <3>1. task[r].pc \in Reading \cup InLoop \cup {"run_started", "ending"}
      BY <2>4, <2>8 DEF Inside, InLoop, InHarness
    <3>2. status[r] = "cancel_requested"
      BY <2>3, <2>8, <3>1, CommittedStatus DEF Active
    <3>3. QED BY <2>5, <3>2 DEF CancelSignalled
  <2>9. QED BY <1>3, <2>6, <2>7, <2>8
<1>4. QED BY <1>1, <1>2, <1>3 DEF CancelSignalled

\* The transaction of a cancellation, whatever comes of it.
LEMMA CancelsSignalled ==
  ASSUME TypeOK, CancelSignalled, NEW r \in Runs, CancelCommits(r) \/ CancelFails,
         UNCHANGED task, tokens \subseteq tokens',
         \A q \in Runs \ {r} : cancels'[q] = cancels[q],
         r \in tokens' \/ task[r].pc \in {"absent", "done"} \cup Over
  PROVE  CancelSignalled'
<1>1. \A q \in Runs \ {r} : status'[q] = status[q]
  BY DEF CancelCommits, CancelFails, CancelRun, dbVars, TypeOK
<1>2. task[r].pc \in Live \ Forced => r \in tokens'
  BY DEF Live, Over, Reading, Recording, Waiting, Forced
<1>3. QED BY <1>1, <1>2 DEF CancelSignalled

\* Every step of the runtime leaves the cancellations signalled.
LEMMA StepSignalled ==
  ASSUME Base, Served, Asked, CancelSignalled, [Next]_vars
  PROVE  CancelSignalled'
<1> USE DEF Base
<1>1. Queued /\ (\A r \in Runs : Standing(r)) /\ Halting
  BY DEF Served
<1>2. ASSUME NEW r \in Runs, RunTask(r) PROVE CancelSignalled'
  BY <1>1, <1>2, RunTaskStep, TaskSignalled
<1>3. ASSUME UNCHANGED <<status, task>>, tokens \subseteq tokens',
             \A r \in Runs : cancels'[r] = "answered" => cancels[r] = "answered"
      PROVE  CancelSignalled'
  BY <1>3 DEF CancelSignalled
<1>4. ASSUME \E s \in Sessions : Submit(s) PROVE CancelSignalled'
  BY <1>3, <1>4 DEF Submit, storeVars, taskVars
<1>5. ASSUME \/ SubmitGetSession \/ SubmitGetTaskState \/ SubmitConflict
             \/ SubmitFails
      PROVE  CancelSignalled'
  <2>1. UNCHANGED <<status, task, tokens, cancels>>
    BY <1>5
    DEF SubmitGetSession, SubmitGetTaskState, SubmitConflict, SubmitFails,
        SubmitTo, GetTaskState, dbVars, taskVars
  <2>2. QED BY <1>3, <2>1
<1>6. ASSUME NEW r \in Runs, SubmitCreate(r) PROVE CancelSignalled'
  <2>1. /\ status[r] = "absent" /\ status' = [status EXCEPT ![r] = "queued"]
        /\ UNCHANGED <<tokens, cancels>>
        /\ task' = task \/ task' = [task EXCEPT ![r] = NewTask]
    BY <1>6 DEF SubmitCreate, CreateRun
  <2>2. status'[r] # "cancel_requested" /\ cancels'[r] # "answered"
    BY <2>1 DEF Asked, TypeOK
  <2>3. \A q \in Runs \ {r} : status'[q] = status[q] /\ task'[q] = task[q]
    BY <2>1 DEF TypeOK, Control
  <2>4. QED BY <2>1, <2>2, <2>3 DEF CancelSignalled
<1>7. ASSUME NEW r \in Runs, RequestCancel(r) PROVE CancelSignalled'
  <2>1. cancels' = [cancels EXCEPT ![r] = "asked"]
        /\ UNCHANGED <<status, task, tokens>>
    BY <1>7 DEF RequestCancel, storeVars, taskVars
  <2>2. \A q \in Runs : cancels'[q] = "answered" => cancels[q] = "answered"
    BY <2>1 DEF Control
  <2>3. QED BY <1>3, <2>1, <2>2
<1>8. ASSUME NEW r \in Runs, CancelAnswered(r) PROVE CancelSignalled'
  <2>1. /\ UNCHANGED task /\ tokens \subseteq tokens'
        /\ cancels' = [cancels EXCEPT ![r] = "answered"]
        /\ CancelCommits(r) \/ CancelFails
    BY <1>8 DEF CancelAnswered, Signals
  <2>2. \A q \in Runs \ {r} : cancels'[q] = cancels[q]
    BY <2>1 DEF Control
  <2>3. r \in tokens' \/ task[r].pc \in {"absent", "done"} \cup Over
    <3>1. task[r].pc \in Points
      BY DEF Control, Tasks
    <3>2. QED BY <1>8, <3>1 DEF CancelAnswered, Signals, Tokens, Points
  <2>4. QED BY <2>1, <2>2, <2>3, CancelsSignalled
<1>9. ASSUME ShutdownCancels PROVE CancelSignalled'
  <2>1. PICK r \in Runs : r = stop.run
    BY <1>9 DEF ShutdownCancels, Control
  <2>2. tokens \subseteq tokens' /\ UNCHANGED <<task, cancels>>
    BY <1>9 DEF ShutdownCancels, StopGoesOn, Signals
  <2>3. r \in tokens' \/ task[r].pc \in {"absent", "done"}
    BY <1>1, <1>9, <2>1, <2>2 DEF ShutdownCancels, Halting
  <2>4. CancelCommits(r) \/ CancelFails
    BY <1>9, <2>1 DEF ShutdownCancels
  <2>5. QED BY <2>2, <2>3, <2>4, CancelsSignalled
<1>10. ASSUME ShutdownBegins PROVE CancelSignalled'
  <2>1. tokens \subseteq tokens'
    BY <1>10 DEF ShutdownBegins, StopGoesOn, Signals
  <2>2. QED BY <1>3, <1>10, <2>1 DEF ShutdownBegins, storeVars
<1>11. ASSUME ShutdownForces \/ ShutdownEnds PROVE CancelSignalled'
  BY <1>3, <1>11 DEF ShutdownForces, ShutdownEnds, storeVars, dbVars, taskVars
<1>12. ASSUME ProcessEnds \/ Start PROVE CancelSignalled'
  <2>1. \A r \in Runs : task'[r].pc = "absent"
    BY <1>12, DoneFields DEF ProcessEnds, Start, Down, taskVars
  <2>2. QED
    BY <2>1 DEF CancelSignalled, Live, Reading, Recording, Waiting, Forced
<1>13. ASSUME NEW a \in DOMAIN attempts, Reconcile(a) PROVE CancelSignalled'
  BY <1>3, <1>13 DEF Reconcile, ResolveAttempt, serviceVars, taskVars
<1>14. ASSUME UNCHANGED vars PROVE CancelSignalled'
  BY <1>3, <1>14 DEF vars, storeVars, dbVars, serviceVars, taskVars
<1>15. QED
  BY <1>2, <1>4, <1>5, <1>6, <1>7, <1>8, <1>9, <1>10, <1>11, <1>12, <1>13, <1>14
  DEF Next, Submission, Shutdown

\* A cancellation that is durable or was answered has reached the token of a
\* task that is still on its way, also when the store failed, committed without
\* an acknowledgement, or was out of service when it was asked.
THEOREM CancellationsReach == Spec => []CancelSignalled
<1>1. Init => Asked /\ CancelSignalled
  <2> SUFFICES ASSUME Init PROVE Asked /\ CancelSignalled
    OBVIOUS
  <2>1. /\ queue = <<>>
        /\ \A r \in Runs : /\ task[r].pc = "absent" /\ status[r] = "absent"
                           /\ cancels[r] = "none"
    BY DoneFields DEF Init, StoreInit
  <2>2. QED BY <2>1 DEF Asked, CancelSignalled, InQueue
<1>2. Base /\ Served /\ Asked /\ CancelSignalled /\ [Next]_vars
        => (Asked /\ CancelSignalled)'
  BY StepAsked, StepSignalled DEF Served
<1>3. QED BY <1>1, <1>2, BaseHolds, ServedHolds, PTL DEF Spec

-----------------------------------------------------------------------------
(* The state of a session *)

\* The newest of some results, less the oldest of them, are the newest.
LEMMA NewestPart ==
  ASSUME NEW seen \in Seq(Nat), NEW all, Newest(seen, all),
         NEW first \in 1 .. Len(seen) + 1
  PROVE  /\ SubSeq(seen, first, Len(seen)) \in Seq(Nat)
         /\ Newest(SubSeq(seen, first, Len(seen)), all)
<1> DEFINE part == SubSeq(seen, first, Len(seen))
           n == Len(seen) - first + 1
<1>1. /\ Len(seen) \in Nat /\ first \in Nat /\ first >= 1
      /\ DOMAIN seen = 1 .. Len(seen) /\ n \in Nat
  BY LenProperties
<1>2. /\ part \in Seq(Nat) /\ DOMAIN part = 1 .. n
      /\ \A i \in 1 .. n : part[i] = seen[first + i - 1]
  <2>1. part \in Seq(Nat)
    BY PartType
  <2>2. \A i \in first .. Len(seen) : seen[i] \in Nat
    BY ElementOfSeq
  <2>3. first \in Int /\ Len(seen) \in Int
    BY <1>1
  <2>4. /\ Len(part) = IF first <= Len(seen) THEN Len(seen) - first + 1 ELSE 0
        /\ \A i \in 1 .. Len(seen) - first + 1 : part[i] = seen[first + i - 1]
    BY <2>2, <2>3, SubSeqProperties
  <2>5. Len(part) = n
    BY <1>1, <2>4
  <2>6. QED BY <2>1, <2>4, <2>5, LenProperties
<1> HIDE DEF part
<1>3. \A i \in 1 .. n : first + i - 1 \in DOMAIN seen
  BY <1>1
<1>4. \A i \in DOMAIN part : part[i] \in all
  BY <1>2, <1>3 DEF Newest
<1>5. \A i, j \in DOMAIN part : i < j => part[i] < part[j]
  <2> SUFFICES ASSUME NEW i \in 1 .. n, NEW j \in 1 .. n, i < j
               PROVE  part[i] < part[j]
    BY <1>2
  <2>1. first + i - 1 < first + j - 1
    BY <1>1
  <2>2. seen[first + i - 1] < seen[first + j - 1]
    BY <1>3, <2>1 DEF Newest
  <2>3. QED BY <1>2, <2>2
<1>6. ASSUME NEW i \in DOMAIN part, NEW m \in all, m > part[i]
      PROVE  \E j \in DOMAIN part : part[j] = m
  <2>1. i \in 1 .. n /\ first + i - 1 \in DOMAIN seen
        /\ part[i] = seen[first + i - 1]
    BY <1>2, <1>3, <1>6
  <2>2. PICK k \in DOMAIN seen : seen[k] = m
    BY <1>6, <2>1 DEF Newest
  <2>3. k >= first + i - 1
    <3>1. CASE k < first + i - 1
      <4>1. seen[k] < seen[first + i - 1]
        BY <2>1, <3>1 DEF Newest
      <4>2. seen[k] \in Nat /\ seen[first + i - 1] \in Nat
        BY <2>1, <2>2, ElementOfSeq, <1>1
      <4>3. QED BY <1>6, <2>1, <2>2, <4>1, <4>2
    <3>2. QED BY <1>1, <2>1, <3>1
  <2>4. /\ k - first + 1 \in 1 .. n
        /\ first + (k - first + 1) - 1 = k
    BY <1>1, <2>1, <2>2, <2>3
  <2>5. part[k - first + 1] = m
    BY <1>2, <2>2, <2>4
  <2>6. QED BY <1>2, <2>4, <2>5
<1>7. QED BY <1>2, <1>4, <1>5, <1>6 DEF Newest, part

\* A result that is newer than all the others is the newest.
LEMMA NewestMore ==
  ASSUME NEW seen \in Seq(Nat), NEW all \in SUBSET Nat, Newest(seen, all),
         NEW m \in Nat, \A k \in all : k < m
  PROVE  Newest(Append(seen, m), all \cup {m})
<1> DEFINE more == Append(seen, m)
           n == Len(seen)
<1>1. /\ n \in Nat /\ DOMAIN seen = 1 .. n /\ DOMAIN more = 1 .. n + 1
      /\ \A i \in 1 .. n : more[i] = seen[i]
      /\ more[n + 1] = m
  BY AppendFacts, LenProperties
<1> HIDE DEF more, n
<1>2. \A i \in 1 .. n : more[i] \in all /\ more[i] < m
  BY <1>1 DEF Newest
<1>3. \A i \in DOMAIN more : more[i] \in all \cup {m}
  BY <1>1, <1>2
<1>4. \A i, j \in DOMAIN more : i < j => more[i] < more[j]
  BY <1>1, <1>2 DEF Newest
<1>5. \A i \in DOMAIN more, k \in all \cup {m} :
        k > more[i] => \E j \in DOMAIN more : more[j] = k
  BY <1>1, <1>2 DEF Newest
<1>6. QED BY <1>3, <1>4, <1>5 DEF Newest, more

\* Recording an observation leaves the newest results.
LEMMA ObservedNewest ==
  ASSUME NEW ts \in TaskStates, NEW all \in SUBSET Nat,
         Newest(ts.observations, all),
         NEW m \in Nat, \A k \in all : k < m, NEW next \in Observed(ts, m)
  PROVE  /\ next.revision = ts.revision + 1
         /\ Newest(next.observations, all \cup {m})
<1> DEFINE more == Append(ts.observations, m)
           kept == LastN(more, MaxObservations)
           start == IF Len(more) > MaxObservations
                    THEN Len(more) - MaxObservations + 1 ELSE 1
<1>1. ts.observations \in Seq(Nat) /\ more \in Seq(Nat)
  BY AppendFacts DEF TaskStates
<1>2. Newest(more, all \cup {m})
  BY <1>1, NewestMore
<1> HIDE DEF more
<1>3. start \in 1 .. Len(more) + 1
  BY <1>1, LenProperties, ObservationsAssumption
<1> HIDE DEF start
<1>4. kept \in Seq(Nat) /\ Newest(kept, all \cup {m})
  <2>1. kept = SubSeq(more, start, Len(more))
    BY DEF LastN, start
  <2>2. QED BY <1>1, <1>2, <1>3, <2>1, NewestPart
<1>5. PICK first \in 1 .. Len(kept) + 1 :
        next = [revision |-> ts.revision + 1,
                observations |-> SubSeq(kept, first, Len(kept))]
  BY DEF Observed, more
<1> HIDE DEF kept
<1>6. Newest(SubSeq(kept, first, Len(kept)), all \cup {m})
  BY <1>4, NewestPart
<1>7. QED BY <1>5, <1>6

\* Every message belongs to a run that was admitted, no run has a session
\* before, and each session has finitely many runs.
Members(s) == {r \in Runs : session[r] = s}
Told ==
  /\ \A m \in DOMAIN messages : status[messages[m].run] # "absent"
  /\ \A r \in Runs : status[r] = "absent" => session[r] = NoSession
  /\ \A s \in Sessions : IsFiniteSet(Members(s))

\* A step that leaves the state of every session alone: no message, or one
\* that is not a result.
Unheard ==
  /\ UNCHANGED <<session, taskState>>
  /\ \A r \in Runs : status'[r] = "absent" <=> status[r] = "absent"
  /\ \/ messages' = messages
     \/ \E row \in MessageRows :
          /\ messages' = Append(messages, row)
          /\ ~row.observed /\ status[row.run] # "absent"

\* Run r has a result, which its session is told.
Hears(r) ==
  /\ UNCHANGED <<session, snapshot>>
  /\ status' = status /\ status[r] \in Active \ {"cancel_requested"}
  /\ \E row \in MessageRows : /\ messages' = Append(messages, row)
                              /\ row.run = r /\ row.observed
  /\ \E ts \in Observed(taskState[session[r]], Len(messages) + 1) :
       taskState' = [taskState EXCEPT ![session[r]] = ts]

\* The results are finitely many messages.
LEMMA ResultsFinite ==
  ASSUME TypeOK, NEW s
  PROVE  /\ Results(s) \in SUBSET Nat /\ IsFiniteSet(Results(s))
         /\ Cardinality(Results(s)) \in Nat
         /\ Len(messages) + 1 \in Nat
         /\ \A k \in Results(s) : k < Len(messages) + 1
<1>1. Len(messages) \in Nat /\ DOMAIN messages = 1 .. Len(messages)
  BY LenProperties DEF TypeOK
<1>2. Results(s) \in SUBSET (1 .. Len(messages))
  BY <1>1 DEF Results
<1>3. IsFiniteSet(1 .. Len(messages))
  BY <1>1, FS_Interval
<1>4. IsFiniteSet(Results(s))
  BY <1>2, <1>3, FS_Subset
<1>5. QED BY <1>1, <1>2, <1>4, FS_CardinalityType

\* One more message is one more result, or none.
LEMMA ResultsAppended ==
  ASSUME TypeOK, NEW row \in MessageRows, messages' = Append(messages, row),
         \A m \in DOMAIN messages : session'[messages[m].run]
                                      = session[messages[m].run],
         NEW s
  PROVE  Results(s)' =
           IF row.observed /\ session'[row.run] = s
           THEN Results(s) \cup {Len(messages) + 1} ELSE Results(s)
<1>1. messages \in Seq(MessageRows)
  BY DEF TypeOK
<1>2. /\ Len(messages) \in Nat /\ DOMAIN messages = 1 .. Len(messages)
      /\ DOMAIN messages' = 1 .. Len(messages) + 1
      /\ \A m \in 1 .. Len(messages) : messages'[m] = messages[m]
      /\ messages'[Len(messages) + 1] = row
  BY <1>1, AppendFacts, LenProperties
<1>3. QED BY <1>2 DEF Results

\* record_event tells the session of an accepted tool result, and of nothing
\* else.
LEMMA RecordHeard ==
  ASSUME TypeOK, NEW r \in Runs, NEW e, NEW role \in Roles \cup {"none"},
         NEW calls \in SUBSET Executions, NEW own,
         RecordEvent(r, e, role, calls, own)
  PROVE  Unheard \/ (e.kind = "tool_execution_completed" /\ Hears(r))
<1> DEFINE next == StatusAfter(r, e.kind)
           kind == KindWritten(r, e.kind)
           observed == Accepts(next) /\ kind = "tool_execution_completed"
           row == [run |-> r, role |-> role, calls |-> calls,
                   observed |-> observed, accepted |-> Accepts(next)]
<1>1. /\ status[r] # "absent" /\ status' = [status EXCEPT ![r] = next]
      /\ UNCHANGED <<session, snapshot>>
      /\ \/ UNCHANGED <<messages, taskState>>
         \/ /\ role # "none" /\ messages' = Append(messages, row)
            /\ IF observed
               THEN \E ts \in Observed(taskState[session[r]], Len(messages) + 1) :
                      taskState' = [taskState EXCEPT ![session[r]] = ts]
               ELSE UNCHANGED taskState
  BY DEF RecordEvent
<1>2. next # "absent"
  BY <1>1 DEF StatusAfter, TargetStatus
<1>3. \A q \in Runs : status'[q] = "absent" <=> status[q] = "absent"
  BY <1>1, <1>2 DEF TypeOK
<1>4. role # "none" => row \in MessageRows
  BY DEF MessageRows, Accepts
<1>5. row.run = r /\ row.observed = observed
  OBVIOUS
<1>6. ASSUME observed
      PROVE  /\ e.kind = "tool_execution_completed" /\ next = status[r]
             /\ next \in Active \ {"cancel_requested"}
  <2>1. e.kind = "tool_execution_completed"
    BY <1>6 DEF KindWritten, EndKind
  <2>2. next = status[r]
    BY <2>1 DEF StatusAfter, TerminalKinds
  <2>3. QED BY <1>6, <2>1, <2>2 DEF Accepts
<1> HIDE DEF next, kind, observed, row
<1>7. CASE observed /\ ~UNCHANGED <<messages, taskState>>
  <2>1. status' = status
    BY <1>1, <1>6, <1>7 DEF TypeOK
  <2>2. QED BY <1>1, <1>4, <1>5, <1>6, <1>7, <2>1 DEF Hears
<1>8. ASSUME ~observed \/ UNCHANGED <<messages, taskState>>
      PROVE  Unheard
  <2>1. session' = session /\ status[r] # "absent"
    BY <1>1
  <2>2. taskState' = taskState
    BY <1>1, <1>8
  <2>3. messages' = messages \/ (/\ ~observed /\ row \in MessageRows
                                /\ messages' = Append(messages, row))
    BY <1>1, <1>4, <1>8
  <2>4. \/ messages' = messages
        \/ \E new \in MessageRows : /\ messages' = Append(messages, new)
                                    /\ ~new.observed
                                    /\ status[new.run] # "absent"
    BY <1>5, <2>1, <2>3
  <2>5. QED BY <1>3, <2>1, <2>2, <2>4 DEF Unheard
<1>9. QED BY <1>7, <1>8

\* A task tells its session of a result when it records the reply of a tool.
LEMMA TaskHeard ==
  ASSUME TypeOK, Control, NEW r \in Runs, Commits(r), task[r].pc # "absent",
         status[r] # "absent"
  PROVE  \/ (Unheard /\ UNCHANGED snapshot)
         \/ (Hears(r) /\ task[r].pc = "tool_reply")
<1> DEFINE t == task[r]
<1>1. Shape(t)
  BY DEF Control
<1>2. ASSUME t.pc \in Reports, Recorded(r)
      PROVE  \/ (Unheard /\ UNCHANGED snapshot)
             \/ (Hears(r) /\ t.pc = "tool_reply")
  <2> DEFINE kind == KindOf(t)
             role == RoleOf(t)
             calls == CallsIn(t, role)
  <2>1. RecordEvent(r, Logical(kind), role, calls, OwnRun(t))
    BY <1>2 DEF Recorded
  <2>2. role \in Roles \cup {"none"}
    BY DEF RoleOf, Roles
  <2>3. calls \in SUBSET Executions
    BY <1>1, CallsRecorded DEF CallsOf
  <2>4. Logical(kind).kind = kind
    BY DEF Logical, Event
  <2>5. UNCHANGED snapshot
    BY <2>1 DEF RecordEvent
  <2>6. Unheard \/ (kind = "tool_execution_completed" /\ Hears(r))
    BY <2>1, <2>2, <2>3, <2>4, RecordHeard
  <2>7. kind = "tool_execution_completed" => t.pc = "tool_reply"
    <3>1. "tool_execution_completed" \notin TerminalKinds
      BY DEF TerminalKinds
    <3>2. t.pc \notin {"ending", "forced_record"}
            \/ kind # "tool_execution_completed"
      BY <1>1, <1>2, <3>1, KindsReported
    <3>3. QED BY <1>2, <3>2 DEF KindOf, Reports, Recording
  <2>8. QED BY <2>5, <2>6, <2>7
<1>3. ASSUME ~(t.pc \in Reports /\ Recorded(r))
      PROVE  Unheard /\ UNCHANGED snapshot
  <2>1. UNCHANGED <<session, taskState, messages, snapshot>>
    BY <1>3 DEF Commits, dbVars, Begun, BeginAttempt, EndAttempt, CancelRun
  <2>2. \A q \in Runs : status'[q] = "absent" <=> status[q] = "absent"
    BY CommittedRow
  <2>3. QED BY <2>1, <2>2 DEF Unheard
<1>4. QED BY <1>2, <1>3

\* A task state that counts what the session has, and so many runs more.
Current(ts, s, more) ==
  /\ ts.revision = Cardinality(Members(s)) + Cardinality(Results(s)) + more
  /\ Newest(ts.observations, Results(s))

\* A run of the session of the submission that is in its loop and cannot have
\* the lock before the submission does.
Busy(r) ==
  /\ session[r] = sub.session
  /\ status[r] \in {"running", "cancel_requested"}
  /\ InQueue(queue, RunProc(r)) =>
       Precedes(queue, SubProc(sub.session), RunProc(r))

\* A submission that is about to write its snapshot has read the state as it
\* still is, or a run will be in its way.
Late ==
  sub.pc = "create_run" =>
    broken \/ Current(snapshot, sub.session, 1) \/ \E r \in Runs : Busy(r)

\* What no session hears of changes neither its runs nor its results.
LEMMA UnheardSame ==
  ASSUME TypeOK, Told, Unheard
  PROVE  /\ Told'
         /\ \A s : Members(s)' = Members(s) /\ Results(s)' = Results(s)
<1>1. session' = session
  BY DEF Unheard
<1>2. \A s : Members(s)' = Members(s)
  BY <1>1 DEF Members
<1>3. CASE messages' = messages
  <2>1. \A s : Results(s)' = Results(s)
    BY <1>1, <1>3 DEF Results
  <2>2. Told'
    <3>1. \A m \in DOMAIN messages' : status'[messages'[m].run] # "absent"
      <4>1. \A m \in DOMAIN messages : messages[m].run \in Runs
        <5>1. \A m \in DOMAIN messages : messages[m] \in MessageRows
          BY ElementOfSeq, LenProperties DEF TypeOK
        <5>2. QED BY <5>1 DEF MessageRows
      <4>2. QED BY <1>3, <4>1 DEF Told, Unheard
    <3>2. \A r \in Runs : status'[r] = "absent" => session'[r] = NoSession
      BY <1>1 DEF Told, Unheard
    <3>3. QED BY <1>2, <3>1, <3>2 DEF Told
  <2>3. QED BY <1>2, <2>1, <2>2
<1>4. ASSUME NEW row \in MessageRows, messages' = Append(messages, row),
             ~row.observed, status[row.run] # "absent"
      PROVE  Told' /\ \A s : Results(s)' = Results(s)
  <2>1. \A s : Results(s)' = Results(s)
    BY <1>1, <1>4, ResultsAppended
  <2>2. messages \in Seq(MessageRows)
    BY DEF TypeOK
  <2>3. /\ DOMAIN messages = 1 .. Len(messages) /\ Len(messages) \in Nat
        /\ DOMAIN messages' = 1 .. Len(messages) + 1
        /\ \A m \in 1 .. Len(messages) : messages'[m] = messages[m]
        /\ messages'[Len(messages) + 1] = row
    BY <1>4, <2>2, AppendFacts, LenProperties
  <2>4. \A m \in DOMAIN messages : messages[m].run \in Runs
    <3>1. \A m \in DOMAIN messages : messages[m] \in MessageRows
      BY <2>2, <2>3, ElementOfSeq
    <3>2. QED BY <3>1 DEF MessageRows
  <2>5. row.run \in Runs
    BY <1>4 DEF MessageRows
  <2>6. \A m \in DOMAIN messages' : status'[messages'[m].run] # "absent"
    <3>1. \A r \in Runs : status[r] # "absent" => status'[r] # "absent"
      BY DEF Unheard
    <3>2. \A m \in DOMAIN messages : status'[messages[m].run] # "absent"
      BY <2>4, <3>1 DEF Told
    <3>3. status'[row.run] # "absent"
      BY <1>4, <2>5, <3>1
    <3>4. QED BY <2>3, <3>2, <3>3
  <2>7. \A r \in Runs : status'[r] = "absent" => session'[r] = NoSession
    BY <1>1 DEF Told, Unheard
  <2>8. QED BY <1>2, <2>1, <2>6, <2>7 DEF Told
<1>5. QED BY <1>2, <1>3, <1>4 DEF Unheard

\* So the states stay current, and a snapshot that is current stays so.
LEMMA UnheardCurrent ==
  ASSUME TypeOK, Told, TaskStateCurrent, Unheard
  PROVE  /\ Told' /\ TaskStateCurrent'
         /\ \A s : snapshot' = snapshot /\ Current(snapshot, s, 1) =>
                     Current(snapshot, s, 1)'
<1>1. /\ Told' /\ taskState' = taskState
      /\ \A s : Members(s)' = Members(s) /\ Results(s)' = Results(s)
  BY UnheardSame DEF Unheard
<1>2. TaskStateCurrent'
  BY <1>1 DEF TaskStateCurrent, Members
<1>3. \A s : snapshot' = snapshot /\ Current(snapshot, s, 1) =>
               Current(snapshot, s, 1)'
  BY <1>1 DEF Current
<1>4. QED BY <1>1, <1>2, <1>3

\* A run that has a result is counted in its session, and in no other.
LEMMA HearsCurrent ==
  ASSUME TypeOK, Told, TaskStateCurrent, NEW r \in Runs, Hears(r)
  PROVE  /\ Told' /\ TaskStateCurrent'
         /\ \A s \in Sessions :
              s # session[r] /\ Current(snapshot, s, 1) =>
                Current(snapshot, s, 1)'
<1>1. PICK row \in MessageRows : /\ messages' = Append(messages, row)
                                 /\ row.run = r /\ row.observed
  BY DEF Hears
<1>2. UNCHANGED <<session, snapshot, status>> /\ status[r] # "absent"
  BY DEF Hears, Active
<1>3. \A s : Results(s)' = IF session[r] = s
                           THEN Results(s) \cup {Len(messages) + 1}
                           ELSE Results(s)
  BY <1>1, <1>2, ResultsAppended
<1>4. \A s : Members(s)' = Members(s)
  BY <1>2 DEF Members
<1>5. Told'
  <2>1. messages \in Seq(MessageRows)
    BY DEF TypeOK
  <2>2. /\ DOMAIN messages = 1 .. Len(messages) /\ Len(messages) \in Nat
        /\ DOMAIN messages' = 1 .. Len(messages) + 1
        /\ \A m \in 1 .. Len(messages) : messages'[m] = messages[m]
        /\ messages'[Len(messages) + 1] = row
    BY <1>1, <2>1, AppendFacts, LenProperties
  <2>3. \A m \in DOMAIN messages' : status'[messages'[m].run] # "absent"
    BY <1>1, <1>2, <2>2 DEF Told
  <2>4. QED BY <1>2, <1>4, <2>3 DEF Told
<1>6. ASSUME NEW s \in Sessions
      PROVE  /\ taskState'[s].revision =
                  Cardinality(Members(s)') + Cardinality(Results(s)')
             /\ Newest(taskState'[s].observations, Results(s)')
  <2>1. /\ taskState[s].revision =
             Cardinality(Members(s)) + Cardinality(Results(s))
        /\ Newest(taskState[s].observations, Results(s))
    BY DEF TaskStateCurrent, Members
  <2>2. PICK ts \in Observed(taskState[session[r]], Len(messages) + 1) :
          taskState' = [taskState EXCEPT ![session[r]] = ts]
    BY DEF Hears
  <2>3. CASE session[r] # s
    <3>1. taskState'[s] = taskState[s]
      BY <2>2, <2>3 DEF TypeOK
    <3>2. QED BY <1>3, <1>4, <2>1, <2>3, <3>1
  <2>4. CASE session[r] = s
    <3>1. taskState'[s] = ts /\ taskState[s] \in TaskStates
      BY <2>2, <2>4 DEF TypeOK
    <3>2. PICK all, m : all = Results(s) /\ m = Len(messages) + 1
      OBVIOUS
    <3>3. /\ all \in SUBSET Nat /\ IsFiniteSet(all) /\ Cardinality(all) \in Nat
          /\ m \in Nat /\ \A k \in all : k < m
      BY <3>2, ResultsFinite
    <3>4. PICK old \in TaskStates : old = taskState[s]
      BY <3>1
    <3>5. Newest(old.observations, all) /\ ts \in Observed(old, m)
      BY <2>1, <2>2, <2>4, <3>2, <3>4
    <3>6. /\ ts.revision = taskState[s].revision + 1
          /\ Newest(ts.observations, all \cup {m})
      BY <3>3, <3>4, <3>5, ObservedNewest
    <3>7. Cardinality(all \cup {m}) = Cardinality(all) + 1
      <4>1. m \notin all
        BY <3>3
      <4>2. QED BY <3>3, <4>1, FS_AddElement
    <3>8. Results(s)' = all \cup {m}
      BY <1>3, <2>4, <3>2
    <3>9. Cardinality(Members(s)) \in Nat
      BY FS_CardinalityType DEF Told
    <3>10. QED
      BY <1>4, <2>1, <3>1, <3>2, <3>3, <3>6, <3>7, <3>8, <3>9
  <2>5. QED BY <2>3, <2>4
<1>7. TaskStateCurrent'
  BY <1>6 DEF TaskStateCurrent, Members
<1>8. \A s \in Sessions : s # session[r] /\ Current(snapshot, s, 1) =>
                            Current(snapshot, s, 1)'
  BY <1>2, <1>3, <1>4 DEF Current
<1>9. QED BY <1>5, <1>7, <1>8

\* A task that takes a step comes to the end of the queue, or leaves it.
LEMMA TaskQueues ==
  ASSUME ProperQueue(queue), NEW r \in Runs, TaskStep(r)
  PROVE  \/ \E stays : QueueChange(RunProc(r), stays)
         \/ (Observe(r) /\ queue' = queue)
<1>1. \A u : Becomes(r, u) => \E stays : QueueChange(RunProc(r), stays)
  <2>1. ASSUME NEW u, Becomes(r, u)
        PROVE  \E stays : QueueChange(RunProc(r), stays)
    <3>1. PICK stays : stays = (u.pc \in StoreCalls)
      OBVIOUS
    <3>2. QueueChange(RunProc(r), stays)
      BY <2>1, <3>1, BecomesFacts
    <3>3. QED BY <3>2
  <2>2. QED BY <2>1
<1>2. (\E u : Becomes(r, u)) \/ (Observe(r) /\ queue' = queue)
  BY DEF TaskStep, Advances, Raises, Interrupts, Observe
<1>3. QED BY <1>1, <1>2

\* A step of a task leaves a run in the way of the submission there: it does
\* not have the lock, so its row stays, and it can only queue up again.
LEMMA TaskBusy ==
  ASSUME TypeOK, Control, Queued, NEW r \in Runs, TaskStep(r),
         sub.pc # "idle", NEW q \in Runs, Busy(q)
  PROVE  Busy(q)'
<1> DEFINE p == SubProc(sub.session)
<1>1. /\ \A x, y : Precedes(queue, x, y) /\ x # RunProc(r) /\ y # RunProc(r)
                     => Precedes(queue', x, y)
      /\ \A x \in Runs \ {r} : task'[x] = task[x] /\ status'[x] = status[x]
      /\ UNCHANGED <<session, sub>>
  BY TaskOthers
<1>2. sub.session \in Sessions /\ InQueue(queue, p) /\ p # RunProc(q)
      /\ p # RunProc(r)
  BY ProcNames DEF Control, Queued
<1>3. (\E stays : QueueChange(RunProc(r), stays)) \/ queue' = queue
  BY TaskQueues DEF Queued
<1>4. CASE q # r
  <2>1. RunProc(q) # RunProc(r)
    BY <1>4, ProcNames
  <2>2. InQueue(queue', RunProc(q)) => InQueue(queue, RunProc(q))
    BY <1>3, <2>1 DEF QueueChange
  <2>3. QED BY <1>1, <1>2, <1>4, <2>1, <2>2 DEF Busy
<1>5. CASE q = r
  <2>1. ~Turn(RunProc(r))
    BY <1>5, TurnFacts DEF Busy, Queued
  <2>2. UNCHANGED status
    <3>1. Commits(r) => UNCHANGED status
      BY <2>1
      DEF Commits, dbVars, StoreCalls, Reports, Recording, Forced, Reading
    <3>2. Commits(r) \/ UNCHANGED status
      BY DEF TaskStep, Advances, Raises, Interrupts, Observe, dbVars, storeVars
    <3>3. QED BY <3>1, <3>2
  <2>3. InQueue(queue', RunProc(r)) => Precedes(queue', p, RunProc(r))
    BY <1>2, <1>3, <1>5 DEF Busy, QueueChange
  <2>4. QED BY <1>1, <1>5, <2>2, <2>3 DEF Busy
<1>6. QED BY <1>4, <1>5

\* A run that has a result is in the way of the submission.
LEMMA HearsBusy ==
  ASSUME TypeOK, Control, Queued, NEW r \in Runs, TaskStep(r), Hears(r),
         task[r].pc = "tool_reply", Standing(r), sub.pc # "idle",
         session[r] = sub.session
  PROVE  Busy(r)'
<1> DEFINE p == SubProc(sub.session)
<1>1. UNCHANGED <<session, sub, status>>
  BY TaskOthers DEF Hears
<1>2. InQueue(queue, p) /\ p # RunProc(r)
  BY ProcNames DEF Control, Queued
<1>3. status[r] \in {"running", "cancel_requested"}
  BY DEF Standing, InLoop, InHarness, Recording, Waiting
<1>4. \E stays : QueueChange(RunProc(r), stays)
  BY TaskQueues DEF Queued, Observe, Over
<1>5. InQueue(queue', RunProc(r)) => Precedes(queue', p, RunProc(r))
  BY <1>2, <1>4 DEF QueueChange
<1>6. QED BY <1>1, <1>3, <1>5 DEF Busy

\* A task keeps the states and a snapshot current.
LEMMA TaskCurrent ==
  ASSUME Base, Queued, Told, TaskStateCurrent, Late, NEW r \in Runs,
         TaskStep(r), Standing(r)
  PROVE  Told' /\ TaskStateCurrent' /\ Late'
<1> USE DEF Base
<1>1. \/ (Unheard /\ UNCHANGED snapshot)
      \/ (Hears(r) /\ task[r].pc = "tool_reply")
  <2>1. task[r].pc # "absent" /\ status[r] # "absent"
    BY TaskStepPoint
    DEF Live, Over, Reading, Recording, Waiting, Forced, UsageOK, RowMatches
  <2>2. Commits(r) => \/ (Unheard /\ UNCHANGED snapshot)
                      \/ (Hears(r) /\ task[r].pc = "tool_reply")
    BY <2>1, TaskHeard
  <2>3. UNCHANGED <<dbVars, snapshot>> => Unheard /\ UNCHANGED snapshot
    BY DEF dbVars, Unheard
  <2>4. Commits(r) \/ UNCHANGED <<dbVars, snapshot>>
    BY DEF TaskStep, Advances, Raises, Interrupts, Observe, storeVars, dbVars
  <2>5. QED BY <2>2, <2>3, <2>4
<1>2. Told' /\ TaskStateCurrent'
  BY <1>1, UnheardCurrent, HearsCurrent
<1>3. Late'
  <2> SUFFICES ASSUME sub'.pc = "create_run", ~broken'
               PROVE  \/ Current(snapshot, sub.session, 1)'
                      \/ \E q \in Runs : Busy(q)'
    BY DEF Late
  <2>1. sub' = sub /\ sub.pc = "create_run"
    BY TaskOthers
  <2>2. ~broken
    <3>1. broken' = broken \/ broken' = TRUE
      BY DEF TaskStep, Advances, Raises, Interrupts, Observe, storeVars
    <3>2. QED BY <3>1
  <2>3. PICK s \in Sessions : s = sub.session
    BY <2>1 DEF Control
  <2>4. CASE \E q \in Runs : Busy(q)
    BY <2>1, <2>4, TaskBusy
  <2>5. CASE Hears(r) /\ task[r].pc = "tool_reply" /\ session[r] = s
    BY <2>1, <2>3, <2>5, HearsBusy
  <2>6. CASE Current(snapshot, s, 1) /\ ~(Hears(r) /\ session[r] = s
                                          /\ task[r].pc = "tool_reply")
    <3>1. Current(snapshot, s, 1)'
      BY <1>1, <2>3, <2>6, UnheardCurrent, HearsCurrent
    <3>2. QED BY <2>1, <2>3, <3>1
  <2>7. QED BY <2>1, <2>2, <2>3, <2>4, <2>5, <2>6 DEF Late
<1>4. QED BY <1>2, <1>3

\* What no session hears of and what concerns neither the tasks nor the
\* submission leaves the runs in the way there.
LEMMA OthersLate ==
  ASSUME TypeOK, Control, Queued, Told, TaskStateCurrent, Late,
         Unheard, UNCHANGED <<snapshot, sub>>, broken => broken',
         \A q \in Runs : status[q] \in {"running", "cancel_requested"} =>
                           status'[q] \in {"running", "cancel_requested"},
         NEW p, NEW stays, QueueChange(p, stays),
         \A q : p # RunProc(q) /\ p # SubProc(q)
  PROVE  Told' /\ TaskStateCurrent' /\ Late'
<1>1. /\ Told' /\ TaskStateCurrent'
      /\ \A s : Current(snapshot, s, 1) => Current(snapshot, s, 1)'
  BY UnheardCurrent
<1>2. ASSUME NEW q \in Runs, Busy(q) PROVE Busy(q)'
  <2>1. session' = session
    BY DEF Unheard
  <2>2. InQueue(queue', RunProc(q)) => InQueue(queue, RunProc(q))
    BY DEF QueueChange
  <2>3. Precedes(queue, SubProc(sub.session), RunProc(q)) =>
          Precedes(queue', SubProc(sub.session), RunProc(q))
    BY DEF QueueChange
  <2>4. QED BY <1>2, <2>1, <2>2, <2>3 DEF Busy
<1>3. Late'
  <2> SUFFICES ASSUME sub.pc = "create_run", ~broken'
               PROVE  \/ Current(snapshot, sub.session, 1)'
                      \/ \E q \in Runs : Busy(q)'
    BY DEF Late
  <2>1. Current(snapshot, sub.session, 1) \/ \E q \in Runs : Busy(q)
    BY DEF Late
  <2>2. PICK s : s = sub.session
    OBVIOUS
  <2>3. QED BY <1>1, <1>2, <2>1, <2>2
<1>4. QED BY <1>1, <1>3

\* Where no submission is about to write, only the states themselves matter.
LEMMA IdleCurrent ==
  ASSUME TypeOK, Told, TaskStateCurrent, Unheard, sub'.pc # "create_run"
  PROVE  Told' /\ TaskStateCurrent' /\ Late'
BY UnheardCurrent DEF Late

\* A submission reads the state as it is.
LEMMA ReadCurrent ==
  ASSUME TypeOK, Control, Told, TaskStateCurrent, SubmitGetTaskState
  PROVE  Told' /\ TaskStateCurrent' /\ Late'
<1>1. Unheard
  BY DEF SubmitGetTaskState, GetTaskState, dbVars, Unheard
<1>2. Told' /\ TaskStateCurrent'
      /\ \A s : Members(s)' = Members(s) /\ Results(s)' = Results(s)
  BY <1>1, UnheardCurrent, UnheardSame
<1>3. sub'.pc = "create_run" => sub'.session = sub.session
  BY DEF SubmitGetTaskState, SubmitTo, NoSub, Control
<1>4. PICK s \in Sessions : s = sub.session
  BY DEF SubmitGetTaskState, SubmitTurn, Control
<1>5. /\ taskState[s].revision =
           Cardinality(Members(s)) + Cardinality(Results(s))
      /\ Newest(taskState[s].observations, Results(s))
  BY DEF TaskStateCurrent, Members
<1>6. PICK seen : seen = taskState[s].observations
  OBVIOUS
<1>7. PICK first \in 1 .. Len(seen) + 1 :
        snapshot' = [revision |-> taskState[s].revision + 1,
                     observations |-> SubSeq(seen, first, Len(seen))]
  BY <1>4, <1>6 DEF SubmitGetTaskState, GetTaskState
<1>8. seen \in Seq(Nat)
  BY <1>6 DEF TypeOK, TaskStates
<1>9. PICK all : all = Results(s)
  OBVIOUS
<1>10. Newest(SubSeq(seen, first, Len(seen)), all)
  BY <1>5, <1>6, <1>8, <1>9, NewestPart
<1>11. /\ snapshot'.revision =
            Cardinality(Members(s)) + Cardinality(Results(s)) + 1
       /\ Newest(snapshot'.observations, Results(s))
  BY <1>5, <1>7, <1>9, <1>10
<1>12. Current(snapshot, s, 1)'
  BY <1>2, <1>11 DEF Current
<1>13. Late'
  BY <1>3, <1>4, <1>12 DEF Late
<1>14. QED BY <1>2, <1>13

\* A submission writes its snapshot when no run of the session is active: none
\* was in its way, and the snapshot is current.
LEMMA CreateCurrent ==
  ASSUME TypeOK, Control, Told, TaskStateCurrent, Late, NEW r \in Runs,
         SubmitCreate(r)
  PROVE  Told' /\ TaskStateCurrent' /\ Late'
<1> DEFINE row == [run |-> r, role |-> "user", calls |-> {},
                   observed |-> FALSE, accepted |-> TRUE]
<1>1. PICK s \in Sessions : s = sub.session
  BY DEF SubmitCreate, SubmitTurn, Control
<1>2. /\ sub.pc = "create_run" /\ ~broken /\ sub' = NoSub
      /\ status[r] = "absent" /\ ActiveIn(s) = {}
      /\ status' = [status EXCEPT ![r] = "queued"]
      /\ session' = [session EXCEPT ![r] = s]
      /\ messages' = Append(messages, row)
      /\ taskState' = [taskState EXCEPT ![s] = snapshot]
  BY <1>1 DEF SubmitCreate, SubmitTurn, CreateRun
<1>3. row \in MessageRows /\ row.run = r /\ ~row.observed
  BY DEF MessageRows, Roles
<1> HIDE DEF row
<1>4. Current(snapshot, s, 1)
  <2>1. \A q \in Runs : ~Busy(q)
    BY <1>1, <1>2 DEF Busy, ActiveIn, Active
  <2>2. QED BY <1>1, <1>2, <2>1 DEF Late
<1>5. /\ messages \in Seq(MessageRows)
      /\ DOMAIN messages = 1 .. Len(messages) /\ Len(messages) \in Nat
      /\ DOMAIN messages' = 1 .. Len(messages) + 1
      /\ \A m \in 1 .. Len(messages) : messages'[m] = messages[m]
      /\ messages'[Len(messages) + 1] = row
  BY <1>2, <1>3, AppendFacts, LenProperties DEF TypeOK
<1>6. \A m \in DOMAIN messages : messages[m].run \in Runs \ {r}
  <2>1. \A m \in DOMAIN messages : messages[m] \in MessageRows
    BY <1>5, ElementOfSeq
  <2>2. QED BY <1>2, <2>1 DEF Told, MessageRows
<1>7. \A x : Results(x)' = Results(x)
  <2>1. \A m \in DOMAIN messages : session'[messages[m].run]
                                     = session[messages[m].run]
    BY <1>2, <1>6 DEF TypeOK
  <2>2. QED BY <1>2, <1>3, <2>1, ResultsAppended
<1>8. session[r] = NoSession /\ session'[r] = s
      /\ \A q \in Runs \ {r} : session'[q] = session[q]
  BY <1>2 DEF Told, TypeOK
<1>9. /\ Members(s)' = Members(s) \cup {r} /\ r \notin Members(s)
      /\ \A x \in Sessions \ {s} : Members(x)' = Members(x)
  BY <1>8, SessionsAssumption DEF Members
<1>10. /\ IsFiniteSet(Members(s)') /\ Cardinality(Members(s)) \in Nat
       /\ Cardinality(Members(s)') = Cardinality(Members(s)) + 1
  <2>1. PICK old : old = Members(s)
    OBVIOUS
  <2>2. IsFiniteSet(old) /\ r \notin old
    BY <1>9, <2>1 DEF Told
  <2>3. Cardinality(old) \in Nat /\ IsFiniteSet(old \cup {r})
        /\ Cardinality(old \cup {r}) = Cardinality(old) + 1
    BY <2>2, FS_AddElement, FS_CardinalityType
  <2>4. QED BY <1>9, <2>1, <2>3
<1>11. Told'
  <2>1. \A m \in DOMAIN messages' : status'[messages'[m].run] # "absent"
    <3>1. \A m \in DOMAIN messages : status'[messages[m].run] # "absent"
      BY <1>2, <1>6 DEF Told, TypeOK
    <3>2. status'[row.run] # "absent"
      BY <1>2, <1>3 DEF TypeOK
    <3>3. QED BY <1>5, <3>1, <3>2
  <2>2. \A q \in Runs : status'[q] = "absent" => session'[q] = NoSession
    BY <1>2, <1>8 DEF Told, TypeOK
  <2>3. \A x \in Sessions : IsFiniteSet(Members(x)')
    BY <1>9, <1>10 DEF Told
  <2>4. QED BY <2>1, <2>2, <2>3 DEF Told
<1>12. ASSUME NEW x \in Sessions
       PROVE  /\ taskState'[x].revision =
                   Cardinality(Members(x)') + Cardinality(Results(x)')
              /\ Newest(taskState'[x].observations, Results(x)')
  <2>1. CASE x # s
    <3>1. taskState'[x] = taskState[x] /\ Members(x)' = Members(x)
      BY <1>2, <1>9, <2>1 DEF TypeOK
    <3>2. QED BY <1>7, <3>1 DEF TaskStateCurrent, Members
  <2>2. CASE x = s
    <3>1. taskState'[s] = snapshot
      BY <1>2 DEF TypeOK
    <3>2. PICK all, n, m : /\ all = Results(s) /\ n = Cardinality(all)
                           /\ m = Cardinality(Members(s))
      OBVIOUS
    <3>3. n \in Nat /\ m \in Nat
      BY <1>10, <3>2, ResultsFinite
    <3>4. snapshot.revision = m + n + 1 /\ Newest(snapshot.observations, all)
      BY <1>4, <3>2 DEF Current
    <3>5. Cardinality(Members(s)') = m + 1 /\ Results(s)' = all
      BY <1>7, <1>10, <3>2
    <3>6. snapshot.revision = (m + 1) + n
      BY <3>3, <3>4
    <3>7. QED BY <2>2, <3>1, <3>2, <3>4, <3>5, <3>6
  <2>3. QED BY <2>1, <2>2
<1>13. TaskStateCurrent'
  BY <1>12 DEF TaskStateCurrent, Members
<1>14. Late'
  BY <1>2 DEF Late, NoSub
<1>15. QED BY <1>11, <1>13, <1>14

\* A cancellation is heard by no session, and a run in its loop stays in it.
LEMMA CancelUnheard ==
  ASSUME TypeOK, NEW r \in Runs, CancelCommits(r) \/ CancelFails
  PROVE  /\ Unheard /\ UNCHANGED snapshot /\ (broken => broken')
         /\ \A q \in Runs : status[q] \in {"running", "cancel_requested"} =>
                              status'[q] \in {"running", "cancel_requested"}
<1>1. CASE CancelFails
  BY <1>1 DEF CancelFails, dbVars, Unheard
<1>2. CASE CancelCommits(r)
  <2>1. /\ UNCHANGED <<session, taskState, messages, snapshot>> /\ ~broken
        /\ \/ status[r] = "queued"
              /\ status' = [status EXCEPT ![r] = "cancelled"]
           \/ status[r] = "running"
              /\ status' = [status EXCEPT ![r] = "cancel_requested"]
           \/ status' = status
    BY <1>2 DEF CancelCommits, CancelRun
  <2>2. /\ \A q \in Runs : status'[q] = "absent" <=> status[q] = "absent"
        /\ \A q \in Runs : status[q] \in {"running", "cancel_requested"} =>
                             status'[q] \in {"running", "cancel_requested"}
    BY <2>1 DEF TypeOK
  <2>3. QED BY <2>1, <2>2 DEF Unheard
<1>3. QED BY <1>1, <1>2

\* Every step keeps the states of the sessions current.
LEMMA StepCurrent ==
  ASSUME Base, Queued, Halting, \A q \in Runs : Standing(q), Told,
         TaskStateCurrent, Late, [Next]_vars
  PROVE  Told' /\ TaskStateCurrent' /\ Late'
<1> USE DEF Base
<1>1. ASSUME NEW r \in Runs, RunTask(r)
      PROVE  Told' /\ TaskStateCurrent' /\ Late'
  BY <1>1, RunTaskStep, TaskCurrent
<1>2. UNCHANGED <<status, session, messages, taskState>> => Unheard
  BY DEF Unheard
<1>3. ASSUME \/ \E s \in Sessions : Submit(s)
             \/ SubmitGetSession \/ SubmitConflict \/ SubmitFails
             \/ ShutdownBegins \/ ShutdownForces \/ ShutdownEnds \/ ProcessEnds
             \/ \E a \in DOMAIN attempts : Reconcile(a)
      PROVE  Told' /\ TaskStateCurrent' /\ Late'
  <2>1. UNCHANGED <<status, session, messages, taskState>>
    BY <1>3
    DEF Submit, SubmitGetSession, SubmitConflict, SubmitFails, ShutdownBegins,
        ShutdownForces, ShutdownEnds, ProcessEnds, Reconcile, ResolveAttempt,
        storeVars, dbVars
  <2>2. sub'.pc # "create_run"
    <3>1. CASE \/ \E s \in Sessions : Submit(s)
               \/ SubmitGetSession \/ SubmitConflict \/ SubmitFails
               \/ ProcessEnds
      BY <3>1
      DEF Submit, SubmitGetSession, SubmitConflict, SubmitFails, SubmitTo,
          ProcessEnds, NoSub, Control
    <3>2. CASE \/ ShutdownBegins \/ ShutdownForces \/ ShutdownEnds
               \/ \E a \in DOMAIN attempts : Reconcile(a)
      <4>1. sub' = sub /\ sub.pc = "idle"
        BY <3>2
        DEF ShutdownBegins, ShutdownForces, ShutdownEnds, Reconcile,
            serviceVars, Halting, Down
      <4>2. QED BY <4>1
    <3>3. QED BY <1>3, <3>1, <3>2
  <2>3. QED BY <1>2, <2>1, <2>2, IdleCurrent
<1>4. ASSUME SubmitGetTaskState PROVE Told' /\ TaskStateCurrent' /\ Late'
  BY <1>4, ReadCurrent
<1>5. ASSUME NEW r \in Runs, SubmitCreate(r)
      PROVE  Told' /\ TaskStateCurrent' /\ Late'
  BY <1>5, CreateCurrent
<1>6. ASSUME NEW r \in Runs, RequestCancel(r)
      PROVE  Told' /\ TaskStateCurrent' /\ Late'
  <2>1. UNCHANGED <<storeVars, sub>>
    BY <1>6 DEF RequestCancel
  <2>2. QueueChange(CancelProc(r), TRUE)
    BY <1>6, ProcNames, RequeueFacts DEF RequestCancel, Queued
  <2>3. QED BY <1>2, <2>1, <2>2, ProcNames, OthersLate DEF storeVars
<1>7. ASSUME NEW r \in Runs, CancelAnswered(r)
      PROVE  Told' /\ TaskStateCurrent' /\ Late'
  <2>1. UNCHANGED sub /\ (CancelCommits(r) \/ CancelFails)
    BY <1>7 DEF CancelAnswered
  <2>2. QueueChange(CancelProc(r), FALSE)
    BY <1>7, LeaveFacts DEF CancelAnswered, Queued
  <2>3. QED BY <2>1, <2>2, CancelUnheard, ProcNames, OthersLate
<1>8. ASSUME ShutdownCancels PROVE Told' /\ TaskStateCurrent' /\ Late'
  <2>1. PICK r \in Runs : r = stop.run
    BY <1>8 DEF ShutdownCancels, Control
  <2>2. /\ CancelCommits(r) \/ CancelFails
        /\ sub' = sub /\ sub.pc = "idle"
    BY <1>8, <2>1 DEF ShutdownCancels, Halting
  <2>3. QED BY <2>2, CancelUnheard, IdleCurrent
<1>9. ASSUME Start PROVE Told' /\ TaskStateCurrent' /\ Late'
  <2>1. \A q \in Runs : status'[q] = "absent" <=> status[q] = "absent"
    BY <1>9 DEF Start, Recover, RecoveredStatus, Active
  <2>2. Unheard /\ sub' = sub /\ sub.pc = "idle"
    BY <1>9, <2>1 DEF Start, Recover, Unheard, Down
  <2>3. QED BY <2>2, IdleCurrent
<1>10. ASSUME UNCHANGED vars PROVE Told' /\ TaskStateCurrent' /\ Late'
  <2>1. UNCHANGED <<storeVars, sub, queue>>
    BY <1>10 DEF vars, serviceVars
  <2>2. Unheard
    BY <1>2, <2>1 DEF storeVars
  <2>3. UNCHANGED <<status, session, snapshot, broken, sub, queue>>
    BY <2>1 DEF storeVars
  <2>4. Told' /\ TaskStateCurrent'
        /\ \A s : Current(snapshot, s, 1) => Current(snapshot, s, 1)'
    BY <2>2, <2>3, UnheardCurrent
  <2>5. PICK s : s = sub.session
    OBVIOUS
  <2>6. \A q \in Runs : Busy(q) => Busy(q)'
    BY <2>3 DEF Busy
  <2>7. Late'
    BY <2>3, <2>4, <2>5, <2>6 DEF Late
  <2>8. QED BY <2>4, <2>7
<1>11. QED
  BY <1>1, <1>3, <1>4, <1>5, <1>6, <1>7, <1>8, <1>9, <1>10
  DEF Next, Submission, Shutdown

\* No update of a session's state is lost, although a submission writes back a
\* snapshot that it read under an earlier turn of the lock: a run that had a
\* result in between is still active when the submission has the lock again.
THEOREM TaskStatesAreCurrent == Spec => []TaskStateCurrent
<1>1. Init => Told /\ TaskStateCurrent /\ Late
  <2> SUFFICES ASSUME Init PROVE Told /\ TaskStateCurrent /\ Late
    OBVIOUS
  <2>1. /\ messages = <<>> /\ sub.pc = "idle"
        /\ \A r \in Runs : session[r] = NoSession
        /\ \A s \in Sessions : taskState[s] = NoTaskState
    BY DEF Init, StoreInit, NoSub
  <2>2. DOMAIN messages = {}
    BY <2>1
  <2>3. \A s \in Sessions : Members(s) = {} /\ Results(s) = {}
    BY <2>1, <2>2, SessionsAssumption DEF Members, Results
  <2>4. IsFiniteSet({}) /\ Cardinality({}) = 0
    BY FS_EmptySet
  <2>5. Told
    BY <2>1, <2>2, <2>3, <2>4 DEF Told
  <2>6. TaskStateCurrent
    <3>1. NoTaskState.revision = 0 /\ NoTaskState.observations = <<>>
      BY DEF NoTaskState
    <3>2. Newest(<<>>, {})
      BY DEF Newest
    <3>3. ASSUME NEW s \in Sessions
          PROVE  /\ taskState[s].revision =
                      Cardinality(Members(s)) + Cardinality(Results(s))
                 /\ Newest(taskState[s].observations, Results(s))
      <4>1. taskState[s].revision = 0 /\ taskState[s].observations = <<>>
        BY <2>1, <3>1
      <4>2. Cardinality(Members(s)) = 0 /\ Cardinality(Results(s)) = 0
        BY <2>3, <2>4
      <4>3. Newest(taskState[s].observations, Results(s))
        BY <2>3, <3>2, <4>1
      <4>4. 0 = 0 + 0
        OBVIOUS
      <4>5. QED BY <4>1, <4>2, <4>3, <4>4
    <3>4. QED BY <3>3 DEF TaskStateCurrent, Members
  <2>7. QED BY <2>1, <2>5, <2>6 DEF Late
<1>2. Base /\ Served /\ Told /\ TaskStateCurrent /\ Late /\ [Next]_vars =>
        Told' /\ TaskStateCurrent' /\ Late'
  BY StepCurrent DEF Served
<1>3. QED BY <1>1, <1>2, BaseHolds, ServedHolds, PTL DEF Spec

=============================================================================
