-------------------------- MODULE RunObserverProofs --------------------------
(***************************************************************************)
(* Proofs about a client that watches runs (RunObserver), for any runs,    *)
(* page size, length of a log and number of watches.                       *)
(*                                                                         *)
(* The inductive invariant adds to the properties what a watch relies on:  *)
(* a watch that was replaced has nothing left but an answer to drop, the   *)
(* present one is of the selected run and asked for what follows the       *)
(* cursor, and the last page of a run that has ended reaches its terminal  *)
(* event.                                                                  *)
(***************************************************************************)
EXTENDS RunObserver, FiniteSetTheorems, SequenceTheorems, TLAPS

\* The cursor never runs ahead of the log, and a run has its terminal event
\* once it has ended.
LogOK ==
  \A r \in Runs :
    /\ endAt[r] <= log[r] /\ cursors[r] <= log[r]
    /\ state[r] = "ended" => endAt[r] > 0

\* A watch that was replaced has at most an answer to drop.
Replaced(w) == w.pc \in {"got_run", "got_page", "yield", "over"}

\* A page follows the cursor, and the last one of a run that has ended reaches
\* its terminal event.
PageOK(w) ==
  /\ \A i \in DOMAIN w.page : w.page[i] = cursors[w.run] + i
  /\ cursors[w.run] + Len(w.page) <= log[w.run]
  /\ ~w.more /\ w.status = "ended" =>
       endAt[w.run] <= cursors[w.run] + Len(w.page)

\* What the present watch relies on.
Present(w) ==
  w.pc # "over" =>
    /\ w.run = selected
    /\ w.pc \in {"got_run", "get_page", "got_page", "yield"} => w.status # "none"
    /\ w.status = "ended" => state[w.run] = "ended"
    /\ w.pc = "get_page" => w.after = cursors[w.run]
    /\ w.pc = "got_page" => PageOK(w)

WatchesOK ==
  \A n \in DOMAIN watches :
    /\ watches[n].pc # "over" => watches[n].run \in Runs
    /\ n # current => Replaced(watches[n])
    /\ n = current => Present(watches[n])

\* A cancellation and a finished watch are of a run.
RequestsOK ==
  /\ cancel.pc # "idle" => cancel.run \in Runs
  /\ notice = "finished" => selected \in Runs

Honest == ShownInOrder /\ HistoryComplete /\ StatusWatched
Sound == ObserverTypeOK /\ LogOK /\ WatchesOK /\ RequestsOK /\ Honest

-----------------------------------------------------------------------------
(* The watches *)

\* A step of one watch.
LEMMA WatchMoved ==
  ASSUME ObserverTypeOK, NEW n \in DOMAIN watches, NEW w \in WatchRows, Becomes(n, w)
  PROVE  /\ watches' \in Seq(WatchRows) /\ Len(watches') = Len(watches)
         /\ DOMAIN watches' = DOMAIN watches
         /\ watches'[n] = w
         /\ \A m \in DOMAIN watches : m # n => watches'[m] = watches[m]
BY DEF ObserverTypeOK, Becomes

\* The rows a watch begins and ends with.
LEMMA RowTypes ==
  /\ Over \in WatchRows /\ Over.pc = "over" /\ Over.run = NoRun
  /\ Over.page = <<>> /\ Over.status = "none"
  /\ \A r \in Runs :
       /\ NewWatch(r) \in WatchRows
       /\ NewWatch(r).pc = "get_run" /\ NewWatch(r).run = r
       /\ NewWatch(r).status = "none"
<1>1. <<>> \in Seq(1..MaxEvents)
  OBVIOUS
<1>2. /\ Over \in WatchRows /\ Over.pc = "over" /\ Over.run = NoRun
      /\ Over.page = <<>> /\ Over.status = "none"
  BY <1>1 DEF Over, WatchRows, Points, InFlight
<1> QED
  BY <1>2 DEF NewWatch, WatchRows, Points, InFlight

\* stop() leaves the other watches nothing but an answer to drop.
LEMMA OutdatedRows ==
  ASSUME ObserverTypeOK, WatchesOK
  PROVE  /\ Outdated \in Seq(WatchRows) /\ Len(Outdated) = Len(watches)
         /\ \A n \in 1..Len(watches) :
              /\ Replaced(Outdated[n])
              /\ Outdated[n].pc # "over" => Outdated[n].run \in Runs
<1> DEFINE out(n) ==
      IF client = "console" \/ watches[n].pc \in {"get_run", "get_page", "sleep"}
      THEN Over ELSE watches[n]
<1>1. /\ watches \in Seq(WatchRows) /\ DOMAIN watches = 1..Len(watches)
      /\ Len(watches) \in Nat
  BY DEF ObserverTypeOK
<1>2. ASSUME NEW n \in 1..Len(watches)
      PROVE  /\ out(n) \in WatchRows /\ Replaced(out(n))
             /\ out(n).pc # "over" => out(n).run \in Runs
  <2>1. watches[n] \in WatchRows
    BY <1>1
  <2>2. watches[n].pc # "over" => watches[n].run \in Runs
    BY <1>1 DEF WatchesOK
  <2> QED
    BY <2>1, <2>2, RowTypes DEF Replaced, WatchRows, Points, InFlight
<1> HIDE DEF out
<1>3. Outdated = [n \in 1..Len(watches) |-> out(n)]
  BY <1>1 DEF Outdated, out
<1>4. Outdated \in [1..Len(watches) -> WatchRows]
  BY <1>2, <1>3
<1>5. \A n \in 1..Len(watches) : Outdated[n] = out(n)
  BY <1>3
<1> HIDE DEF Outdated
<1>6. Outdated \in Seq(WatchRows) /\ Len(Outdated) = Len(watches)
  BY <1>1, <1>4
<1> QED
  BY <1>2, <1>5, <1>6

\* The watches after stop().
LEMMA StopsWatches ==
  ASSUME ObserverTypeOK, WatchesOK, Stops
  PROVE  /\ watches' \in Seq(WatchRows) /\ Len(watches') = started'
         /\ current' = 0 /\ started' = started /\ started' \in 0..MaxStarts
         /\ WatchesOK'
<1>1. /\ watches' = Outdated /\ current' = 0 /\ started' = started
  BY DEF Stops
<1>2. watches' \in Seq(WatchRows) /\ Len(watches') = started /\ started \in 0..MaxStarts
      /\ Len(watches) = started
  BY <1>1, OutdatedRows DEF ObserverTypeOK
<1>3. DOMAIN watches' = 1..Len(watches)
  BY <1>2
<1>4. \A n \in DOMAIN watches' :
        /\ Replaced(watches'[n]) /\ n # current'
        /\ watches'[n].pc # "over" => watches'[n].run \in Runs
  BY <1>1, <1>3, OutdatedRows DEF ObserverTypeOK
<1>5. WatchesOK'
  BY <1>4 DEF WatchesOK, Replaced
<1> QED
  BY <1>1, <1>2, <1>5

\* The watches after start().
LEMMA StartsWatches ==
  ASSUME ObserverTypeOK, WatchesOK, NEW r \in Runs, Starts(r), selected' = r
  PROVE  /\ watches' \in Seq(WatchRows) /\ Len(watches') = started'
         /\ started' \in 0..MaxStarts /\ current' \in 0..started'
         /\ WatchesOK' /\ Watching(r)'
<1>1. /\ watches' = Append(Outdated, NewWatch(r))
      /\ started' = started + 1 /\ current' = started + 1 /\ started < MaxStarts
  BY DEF Starts
<1>2. /\ Outdated \in Seq(WatchRows) /\ Len(Outdated) = started /\ started \in Nat
      /\ started \in 0..MaxStarts /\ Len(watches) = started
  BY OutdatedRows DEF ObserverTypeOK
<1>3. NewWatch(r) \in WatchRows /\ NewWatch(r).pc = "get_run" /\ NewWatch(r).run = r
      /\ NewWatch(r).status = "none"
  BY RowTypes
<1>4. PICK out \in Seq(WatchRows), new \in WatchRows : out = Outdated /\ new = NewWatch(r)
  BY <1>2, <1>3
<1>5. /\ watches' \in Seq(WatchRows) /\ Len(watches') = started + 1
      /\ \A i \in 1..started : watches'[i] = out[i]
      /\ watches'[started + 1] = new
      /\ DOMAIN watches' = 1..(started + 1)
  BY <1>1, <1>2, <1>4, AppendProperties
<1>6. Watching(r)'
  BY <1>1, <1>2, <1>3, <1>4, <1>5 DEF Watching
<1>7. ASSUME NEW n \in DOMAIN watches', NEW w, w = watches'[n]
      PROVE  /\ w.pc # "over" => w.run \in Runs
             /\ n # current' => Replaced(w)
             /\ n = current' => Present(w)'
  <2>1. CASE n = started + 1
    BY <1>1, <1>3, <1>4, <1>5, <1>7, <2>1 DEF Present
  <2>2. CASE n # started + 1
    <3>1. n \in 1..Len(watches) /\ w = out[n]
      BY <1>2, <1>5, <1>7, <2>2
    <3> QED
      BY <1>1, <1>4, <2>2, <3>1, OutdatedRows
  <2> QED
    BY <2>1, <2>2
<1>8. WatchesOK'
  BY <1>7 DEF WatchesOK, Replaced, Present, PageOK
<1>9. started' \in 0..MaxStarts /\ current' \in 0..started'
  BY <1>1, <1>2, SizesAssumption
<1> QED
  BY <1>1, <1>5, <1>6, <1>8, <1>9

-----------------------------------------------------------------------------
(* The server *)

\* Logs grow, and a run that has ended stays so with its terminal event.
Grown ==
  /\ state' \in [Runs -> {"active", "ended"}]
  /\ log' \in [Runs -> 0 .. MaxEvents] /\ endAt' \in [Runs -> 0 .. MaxEvents]
  /\ \A r \in Runs :
       /\ log[r] <= log'[r]
       /\ state[r] = "ended" => state'[r] = "ended" /\ endAt'[r] = endAt[r]

\* The server commits an event or ends a run.
LEMMA ServerGrows ==
  ASSUME ObserverTypeOK, LogOK, NEW r \in Runs, CommitEvent(r) \/ EndRun(r),
         UNCHANGED cursors
  PROVE  Grown /\ LogOK'
<1>1. /\ state \in [Runs -> {"active", "ended"}]
      /\ log \in [Runs -> 0 .. MaxEvents] /\ endAt \in [Runs -> 0 .. MaxEvents]
      /\ cursors \in [Runs -> 0 .. MaxEvents] /\ MaxEvents \in Nat
  BY SizesAssumption DEF ObserverTypeOK
<1>2. /\ log[r] < MaxEvents /\ log' = [log EXCEPT ![r] = @ + 1]
  BY DEF CommitEvent, EndRun
<1>3. /\ log' \in [Runs -> 0 .. MaxEvents] /\ log'[r] = log[r] + 1
      /\ \A q \in Runs : log[q] <= log'[q]
  BY <1>1, <1>2
<1>4. \/ UNCHANGED <<state, endAt>>
      \/ /\ state[r] = "active"
         /\ endAt' = [endAt EXCEPT ![r] = log[r] + 1]
         /\ state' = [state EXCEPT ![r] = "ended"]
  BY <1>3 DEF CommitEvent, EndRun
<1>5. Grown
  <2>1. endAt' \in [Runs -> 0 .. MaxEvents] /\ state' \in [Runs -> {"active", "ended"}]
    BY <1>1, <1>2, <1>4
  <2> QED
    BY <1>1, <1>3, <1>4, <2>1 DEF Grown
<1>6. ASSUME NEW q \in Runs
      PROVE  /\ endAt'[q] <= log'[q] /\ cursors[q] <= log'[q]
             /\ state'[q] = "ended" => endAt'[q] > 0
  <2>1. /\ endAt[q] <= log[q] /\ cursors[q] <= log[q] /\ log[q] <= log'[q]
        /\ state[q] = "ended" => endAt[q] > 0
        /\ log[q] \in Nat /\ log'[q] \in Nat /\ endAt[q] \in Nat /\ cursors[q] \in Nat
    BY <1>1, <1>3 DEF LogOK
  <2>2. CASE UNCHANGED <<state, endAt>>
    BY <2>1, <2>2
  <2>3. CASE /\ endAt' = [endAt EXCEPT ![r] = log[r] + 1]
             /\ state' = [state EXCEPT ![r] = "ended"]
    BY <1>1, <1>3, <2>1, <2>3
  <2> QED
    BY <1>4, <2>2, <2>3
<1> QED
  BY <1>5, <1>6 DEF LogOK

\* What the server does changes nothing that a client relies on or shows.
LEMMA GrownKeeps ==
  ASSUME Sound, Grown, LogOK',
         UNCHANGED <<client, screenVars, cursors, started, current, watches>>
  PROVE  WatchesOK' /\ Honest'
<1> USE DEF screenVars
<1>1. /\ cursors \in [Runs -> 0 .. MaxEvents] /\ MaxEvents \in Nat
      /\ log \in [Runs -> 0 .. MaxEvents] /\ endAt \in [Runs -> 0 .. MaxEvents]
      /\ watches \in Seq(WatchRows)
  BY SizesAssumption DEF Sound, ObserverTypeOK
<1>2. ASSUME NEW n \in DOMAIN watches, NEW w, w = watches[n]
      PROVE  /\ w.pc # "over" => w.run \in Runs
             /\ n # current => Replaced(w)
             /\ n = current => Present(w)'
  <2>1. /\ w.pc # "over" => w.run \in Runs
        /\ n # current => Replaced(w)
        /\ n = current => Present(w)
    BY <1>2 DEF Sound, WatchesOK
  <2>2. w \in WatchRows
    BY <1>1, <1>2
  <2>3. w.run \in Runs /\ Present(w) /\ w.pc # "over" => Present(w)'
    <3> SUFFICES ASSUME w.run \in Runs, Present(w), w.pc # "over" PROVE Present(w)'
      OBVIOUS
    <3>1. PICK r \in Runs : r = w.run
      OBVIOUS
    <3>2. /\ log[r] <= log'[r] /\ log[r] \in Nat /\ log'[r] \in Nat
          /\ cursors[r] \in Nat /\ Len(w.page) \in Nat
          /\ state[r] = "ended" => state'[r] = "ended" /\ endAt'[r] = endAt[r]
      BY <1>1, <2>2 DEF Grown, WatchRows
    <3>3. w.status = "ended" => state[r] = "ended"
      BY <3>1 DEF Present
    <3>4. w.pc = "got_page" => PageOK(w)'
      BY <3>1, <3>2, <3>3 DEF Present, PageOK
    <3> QED
      BY <3>1, <3>2, <3>3, <3>4 DEF Present
  <2>4. w.pc = "over" => Present(w)'
    BY DEF Present
  <2> QED
    BY <2>1, <2>3, <2>4
<1>3. WatchesOK'
  BY <1>2 DEF WatchesOK, Replaced, Present, PageOK
<1>4. ShownInOrder' /\ StatusWatched'
  BY DEF Sound, Honest, ShownInOrder, StatusWatched, Watching
<1>5. HistoryComplete'
  BY DEF Sound, Honest, RequestsOK, HistoryComplete, Grown
<1> QED
  BY <1>3, <1>4, <1>5 DEF Honest

\* A step of the server keeps the invariant, whether or not it answers a
\* cancellation.
LEMMA ServerSound ==
  ASSUME Sound, NEW r \in Runs, CommitEvent(r) \/ EndRun(r) \/ UNCHANGED serverVars,
         UNCHANGED <<client, screenVars, cursors, started, current, watches>>,
         cancel' \in Cancels, cancel'.pc # "idle" => cancel'.run \in Runs
  PROVE  Sound'
<1>1. Grown /\ LogOK'
  <2>1. CASE CommitEvent(r) \/ EndRun(r)
    BY <2>1, ServerGrows DEF Sound
  <2>2. CASE UNCHANGED serverVars
    <3>1. Grown
      BY <2>2, SizesAssumption DEF serverVars, Grown, Sound, ObserverTypeOK
    <3>2. LogOK'
      BY <2>2 DEF serverVars, Sound, LogOK
    <3> QED
      BY <3>1, <3>2
  <2> QED
    BY <2>1, <2>2
<1>2. ObserverTypeOK'
  BY <1>1 DEF Sound, ObserverTypeOK, Grown, screenVars
<1>3. RequestsOK'
  BY DEF Sound, RequestsOK, screenVars
<1> QED
  BY <1>1, <1>2, <1>3, GrownKeeps DEF Sound

-----------------------------------------------------------------------------
(* The user *)

\* Nothing moves but the request of a cancellation.
LEMMA CancelMoves ==
  ASSUME Sound, NEW r \in Runs, UNCHANGED <<serverVars, client, screenVars>>,
         UNCHANGED <<cursors, started, current, watches>>,
         cancel' \in Cancels, cancel'.pc # "idle" => cancel'.run \in Runs
  PROVE  Sound'
BY ServerSound

\* A cancellation before it is asked for.
LEMMA NoCancelType == NoCancel \in Cancels /\ NoCancel.pc = "idle"
BY DEF NoCancel, Cancels

\* A new watch keeps the invariant.
LEMMA StartsSound ==
  ASSUME Sound, NEW r \in Runs, Starts(r), selected' = r,
         UNCHANGED <<serverVars, client, cursors>>,
         cancel' \in Cancels, cancel'.pc # "idle" => cancel'.run \in Runs,
         shown' \in {"none", "active", "ended"},
         notice' \in {"none", "observing", "paused", "disconnected", "finished"},
         notice' = "finished" =>
           shown' = shown /\ notice = "finished" /\ selected = r,
         \/ UNCHANGED view /\ (client = "browser" => r = selected)
         \/ view' = [q \in Runs |-> <<>>]
  PROVE  Sound'
<1>1. /\ watches' \in Seq(WatchRows) /\ Len(watches') = started'
      /\ started' \in 0..MaxStarts /\ current' \in 0..started'
      /\ WatchesOK' /\ Watching(r)'
  BY StartsWatches DEF Sound
<1>2. view' \in [Runs -> Seq(1 .. MaxEvents)]
  <2>1. <<>> \in Seq(1 .. MaxEvents)
    OBVIOUS
  <2> QED
    BY <2>1 DEF Sound, ObserverTypeOK
<1>3. ObserverTypeOK'
  BY <1>1, <1>2 DEF Sound, ObserverTypeOK, serverVars
<1>4. LogOK' /\ RequestsOK'
  BY DEF Sound, LogOK, RequestsOK, serverVars
<1>5. ShownInOrder'
  <2>1. CASE UNCHANGED view /\ (client = "browser" => r = selected)
    BY <2>1 DEF Sound, Honest, ShownInOrder
  <2>2. CASE view' = [q \in Runs |-> <<>>]
    BY <2>2 DEF ShownInOrder
  <2> QED
    BY <2>1, <2>2
<1>6. HistoryComplete'
  BY DEF Sound, Honest, HistoryComplete, serverVars
<1>7. StatusWatched'
  BY <1>1 DEF StatusWatched, Watching
<1> QED
  BY <1>1, <1>3, <1>4, <1>5, <1>6, <1>7 DEF Sound, Honest

\* stop() keeps the invariant; the user is told, or sees nothing of the run.
LEMMA StopsSound ==
  ASSUME Sound, Stops, UNCHANGED <<serverVars, client, cursors, cancel>>,
         selected' \in Runs \cup {NoRun},
         shown' \in {"none", shown}, notice' \in {"none", "paused"},
         notice' = "paused" \/ shown' = "none",
         \/ UNCHANGED view /\ (client = "browser" => selected' = selected)
         \/ view' = [q \in Runs |-> <<>>]
  PROVE  Sound'
<1>1. /\ watches' \in Seq(WatchRows) /\ Len(watches') = started'
      /\ started' \in 0..MaxStarts /\ current' \in 0..started'
      /\ WatchesOK'
  BY StopsWatches DEF Sound
<1>2. view' \in [Runs -> Seq(1 .. MaxEvents)]
  <2>1. <<>> \in Seq(1 .. MaxEvents)
    OBVIOUS
  <2> QED
    BY <2>1 DEF Sound, ObserverTypeOK
<1>3. ObserverTypeOK'
  BY <1>1, <1>2 DEF Sound, ObserverTypeOK, serverVars
<1>4. LogOK' /\ RequestsOK'
  BY DEF Sound, LogOK, RequestsOK, serverVars
<1>5. ShownInOrder'
  <2>1. CASE UNCHANGED view /\ (client = "browser" => selected' = selected)
    BY <2>1 DEF Sound, Honest, ShownInOrder
  <2>2. CASE view' = [q \in Runs |-> <<>>]
    BY <2>2 DEF ShownInOrder
  <2> QED
    BY <2>1, <2>2
<1>6. HistoryComplete' /\ StatusWatched'
  BY DEF HistoryComplete, StatusWatched
<1> QED
  BY <1>1, <1>3, <1>4, <1>5, <1>6 DEF Sound, Honest

\* What the user does, and what becomes of a cancellation.
LEMMA UserSound ==
  ASSUME Sound, User \/ CancelServed \/ CancelAnswered \/ CancelLost
  PROVE  Sound'
<1> USE DEF screenVars
<1>1. /\ cancel \in Cancels /\ shown \in {"none", "active", "ended"}
      /\ selected \in Runs \cup {NoRun}
      /\ notice \in {"none", "observing", "paused", "disconnected", "finished"}
      /\ cancel.pc # "idle" => cancel.run \in Runs
      /\ state \in [Runs -> {"active", "ended"}]
  BY DEF Sound, ObserverTypeOK, RequestsOK
<1>2. ASSUME NEW r \in Runs, Watch(r) PROVE Sound'
  BY <1>1, <1>2, StartsSound DEF Watch, Sound, RequestsOK
<1>3. CASE StopWatch
  BY <1>1, <1>3, StopsSound DEF StopWatch
<1>4. CASE ClearRun
  BY <1>1, <1>4, StopsSound DEF ClearRun
<1>5. CASE CancelRun
  <2>1. cancel' \in Cancels /\ cancel'.run = selected /\ selected \in Runs
    BY <1>1, <1>5 DEF CancelRun, NoCancel, Cancels
  <2> QED
    BY <1>5, <2>1, CancelMoves DEF CancelRun
<1>6. CASE CancelServed
  <2>1. PICK r \in Runs : r = cancel.run
    BY <1>1, <1>6 DEF CancelServed
  <2>2. CommitEvent(r) \/ EndRun(r) \/ UNCHANGED serverVars
    BY <1>6, <2>1 DEF CancelServed
  <2>3. UNCHANGED <<client, screenVars, cursors, started, current, watches>>
    BY <1>6 DEF CancelServed
  <2>4. state'[r] \in {"active", "ended"}
    BY <1>1, <2>2 DEF CommitEvent, EndRun, serverVars
  <2>5. cancel' \in Cancels /\ cancel'.run = r
    BY <1>1, <1>6, <2>1, <2>4 DEF CancelServed, Cancels
  <2> QED
    BY <2>2, <2>3, <2>5, ServerSound
<1>7. CASE CancelAnswered
  <2>1. PICK r \in Runs : r = cancel.run
    BY <1>1, <1>7 DEF CancelAnswered
  <2>2. cancel' \in Cancels /\ cancel'.pc = "idle"
    BY <1>7, NoCancelType DEF CancelAnswered
  <2>3. CASE client = "browser" /\ cancel.run = selected
    <3>1. /\ shown' = cancel.status /\ notice' = "observing" /\ Starts(r)
          /\ UNCHANGED <<serverVars, client, selected, view, cursors>>
      BY <1>7, <2>1, <2>3 DEF CancelAnswered
    <3>2. cancel.status \in {"none", "active", "ended"}
      BY <1>1 DEF Cancels
    <3> QED
      BY <2>1, <2>2, <2>3, <3>1, <3>2, StartsSound
  <2>4. CASE ~(client = "browser" /\ cancel.run = selected)
    BY <1>7, <2>1, <2>2, <2>4, CancelMoves DEF CancelAnswered
  <2> QED
    BY <2>3, <2>4
<1>8. CASE CancelLost
  <2>1. cancel.run \in Runs
    BY <1>1, <1>8 DEF CancelLost
  <2> QED
    BY <1>8, <2>1, NoCancelType, CancelMoves DEF CancelLost
<1> QED
  BY <1>2, <1>3, <1>4, <1>5, <1>6, <1>7, <1>8 DEF User

-----------------------------------------------------------------------------
(* A watch *)

\* A step of one watch keeps the invariant if its row, what it shows and the
\* cursors do.
LEMMA PollSound ==
  ASSUME Sound, NEW n \in DOMAIN watches, NEW v \in WatchRows, Becomes(n, v),
         UNCHANGED <<serverVars, client, selected, started, current, cancel>>,
         shown' \in {"none", "active", "ended"},
         notice' \in {"none", "observing", "paused", "disconnected", "finished"},
         view' \in [Runs -> Seq(1 .. MaxEvents)], cursors' \in [Runs -> 0 .. MaxEvents],
         LogOK', RequestsOK', ShownInOrder', HistoryComplete',
         n # current => UNCHANGED <<cursors, shown, notice>>,
         v.pc # "over" => v.run = watches[n].run /\ watches[n].pc # "over",
         n # current => Replaced(v), n = current => Present(v)',
         n = current /\ v.pc = "over" /\ shown' = "active" => notice' = "disconnected",
         n = current /\ v.pc # "over" /\ shown' = "active" =>
           (shown = "active" /\ notice \notin {"paused", "disconnected"}) \/ v.run = selected
           \/ notice' \in {"paused", "disconnected"}
  PROVE  Sound'
<1>1. /\ watches' \in Seq(WatchRows) /\ Len(watches') = Len(watches)
      /\ DOMAIN watches' = DOMAIN watches
      /\ watches'[n] = v
      /\ \A m \in DOMAIN watches : m # n => watches'[m] = watches[m]
  BY WatchMoved DEF Sound
<1>2. ObserverTypeOK'
  BY <1>1 DEF Sound, ObserverTypeOK, serverVars
<1>3. ASSUME NEW m \in DOMAIN watches, NEW w, w = watches'[m]
      PROVE  /\ w.pc # "over" => w.run \in Runs
             /\ m # current' => Replaced(w)
             /\ m = current' => Present(w)'
  <2>1. CASE m = n
    BY <1>1, <1>3, <2>1 DEF Sound, WatchesOK
  <2>2. CASE m # n
    <3>1. w = watches[m]
      BY <1>1, <1>3, <2>2
    <3>2. m = current => UNCHANGED cursors
      BY <2>2
    <3>3. /\ w.pc # "over" => w.run \in Runs
          /\ m # current => Replaced(w)
          /\ m = current => Present(w)
      BY <3>1 DEF Sound, WatchesOK
    <3> QED
      BY <3>2, <3>3 DEF Present, PageOK, serverVars
  <2> QED
    BY <2>1, <2>2
<1>4. WatchesOK'
  BY <1>1, <1>3 DEF WatchesOK, Replaced, Present, PageOK
<1>5. StatusWatched'
  <2> SUFFICES ASSUME shown' = "active", notice' \notin {"paused", "disconnected"}
               PROVE  Watching(selected)'
    BY DEF StatusWatched
  <2>1. CASE n = current
    <3>1. v.pc # "over"
      BY <2>1
    <3>2. v.run = selected
      BY <2>1, <3>1 DEF Sound, WatchesOK, Present
    <3>3. n \in Nat /\ n # 0
      BY DEF Sound, ObserverTypeOK
    <3> QED
      BY <1>1, <2>1, <3>1, <3>2, <3>3 DEF Watching
  <2>2. CASE n # current
    <3>1. Watching(selected)
      BY <2>2 DEF Sound, Honest, StatusWatched
    <3>2. current \in DOMAIN watches
      BY <3>1 DEF Watching, Sound, ObserverTypeOK
    <3> QED
      BY <1>1, <2>2, <3>1, <3>2 DEF Watching
  <2> QED
    BY <2>1, <2>2
<1> QED
  BY <1>2, <1>4, <1>5 DEF Sound, Honest

\* A step of one watch that shows nothing.
LEMMA UnseenSound ==
  ASSUME Sound, NEW n \in DOMAIN watches, NEW v \in WatchRows, Becomes(n, v),
         UNCHANGED <<serverVars, client, screenVars, cursors, started, current,
                     cancel>>,
         v.pc # "over" => v.run = watches[n].run /\ watches[n].pc # "over",
         n # current => Replaced(v), n = current => Present(v)',
         n = current => v.pc # "over"
  PROVE  Sound'
<1> USE DEF screenVars
<1>1. LogOK' /\ RequestsOK'
  BY DEF Sound, LogOK, RequestsOK, serverVars
<1>2. ShownInOrder' /\ HistoryComplete'
  BY DEF Sound, Honest, ShownInOrder, HistoryComplete, serverVars
<1>3. /\ shown' \in {"none", "active", "ended"}
      /\ notice' \in {"none", "observing", "paused", "disconnected", "finished"}
      /\ view' \in [Runs -> Seq(1 .. MaxEvents)] /\ cursors' \in [Runs -> 0 .. MaxEvents]
  BY DEF Sound, ObserverTypeOK
<1>4. n = current /\ v.pc # "over" => v.run = selected
  BY DEF Sound, WatchesOK, Present
<1> QED
  BY <1>1, <1>2, <1>3, <1>4, PollSound

\* A page is a stretch of the log from the cursor, and all of the rest unless
\* there are more.
LEMMA PageFacts ==
  ASSUME NEW r \in Runs, NEW after \in Nat, log \in [Runs -> 0 .. MaxEvents],
         after <= log[r]
  PROVE  /\ Page(r, after) \in Seq(1 .. MaxEvents)
         /\ after + Len(Page(r, after)) <= log[r]
         /\ \A i \in DOMAIN Page(r, after) : Page(r, after)[i] = after + i
         /\ ~HasMore(r, after) => after + Len(Page(r, after)) = log[r]
         /\ HasMore(r, after) \in BOOLEAN
<1> DEFINE n == LastOf(r, after) - after
<1>1. /\ n \in Nat /\ after + n <= log[r] /\ log[r] <= MaxEvents /\ log[r] \in Nat
      /\ ~HasMore(r, after) => after + n = log[r]
      /\ HasMore(r, after) \in BOOLEAN
  BY SizesAssumption DEF LastOf, HasMore
<1>2. Page(r, after) = [i \in 1 .. n |-> after + i]
  BY DEF Page
<1> HIDE DEF n
<1>3. \A i \in 1 .. n : after + i \in 1 .. MaxEvents
  BY <1>1, SizesAssumption
<1>4. Page(r, after) \in [1 .. n -> 1 .. MaxEvents]
  BY <1>2, <1>3
<1>5. \A i \in 1 .. n : Page(r, after)[i] = after + i
  BY <1>2
<1>6. DOMAIN Page(r, after) = 1 .. n
  BY <1>2
<1> HIDE DEF Page
<1>7. Page(r, after) \in Seq(1 .. MaxEvents) /\ Len(Page(r, after)) = n
  <2>1. PICK page : page = Page(r, after)
    OBVIOUS
  <2>2. page \in Seq(1 .. MaxEvents)
    BY <1>1, <1>4, <2>1, SeqDef
  <2>3. Len(page) = n
    BY <1>1, <1>6, <2>1, <2>2, LenProperties
  <2> QED
    BY <2>1, <2>2, <2>3
<1> QED
  BY <1>1, <1>5, <1>6, <1>7

\* All of a page that follows the cursor is accepted.
LEMMA AcceptedAll ==
  ASSUME NEW page \in Seq(1 .. MaxEvents), NEW cursor \in Nat,
         \A i \in DOMAIN page : page[i] = cursor + i
  PROVE  Accepted(page, cursor) = page
<1>1. {i \in DOMAIN page : page[i] <= cursor} = {}
  BY DEF Accepted
<1>2. Cardinality({i \in DOMAIN page : page[i] <= cursor}) = 0
  BY <1>1, FS_EmptySet
<1>3. PICK known : known = Cardinality({i \in DOMAIN page : page[i] <= cursor})
  OBVIOUS
<1>4. Accepted(page, cursor) = SubSeq(page, known + 1, Len(page)) /\ known + 1 = 1
  BY <1>2, <1>3 DEF Accepted
<1> QED
  BY <1>4, SubSeqFull

\* The events of a page follow those on display.
LEMMA PageShown ==
  ASSUME ObserverTypeOK, LogOK, ShownInOrder, NEW r \in Runs, r = selected,
         NEW page \in Seq(1 .. MaxEvents),
         \A i \in DOMAIN page : page[i] = cursors[r] + i,
         cursors[r] + Len(page) <= log[r],
         view' = [view EXCEPT ![r] = @ \o page],
         cursors' = [cursors EXCEPT ![r] =
                       IF page = <<>> THEN @ ELSE page[Len(page)]],
         UNCHANGED <<client, selected, log, state, endAt>>
  PROVE  /\ view' \in [Runs -> Seq(1 .. MaxEvents)]
         /\ cursors' \in [Runs -> 0 .. MaxEvents]
         /\ cursors'[r] = cursors[r] + Len(page)
         /\ LogOK' /\ ShownInOrder'
<1>1. /\ cursors[r] \in Nat /\ Len(page) \in Nat /\ log[r] \in 0 .. MaxEvents
      /\ MaxEvents \in Nat /\ view[r] \in Seq(1 .. MaxEvents) /\ Len(view[r]) \in Nat
      /\ DOMAIN page = 1 .. Len(page) /\ DOMAIN view[r] = 1 .. Len(view[r])
  BY SizesAssumption DEF ObserverTypeOK
<1>2. cursors'[r] = cursors[r] + Len(page)
  <2>1. CASE page = <<>>
    <3>1. Len(page) = 0 /\ cursors'[r] = cursors[r]
      BY <2>1 DEF ObserverTypeOK
    <3> QED
      BY <1>1, <3>1
  <2>2. CASE page # <<>>
    <3>1. Len(page) \in DOMAIN page
      BY <1>1, <2>2
    <3>2. cursors'[r] = page[Len(page)]
      BY <2>2 DEF ObserverTypeOK
    <3> QED
      BY <3>1, <3>2
  <2> QED
    BY <2>1, <2>2
<1>3. \A q \in Runs : q # r => cursors'[q] = cursors[q] /\ view'[q] = view[q]
  BY DEF ObserverTypeOK
<1>4. PICK old \in Seq(1 .. MaxEvents) : old = view[r]
  BY <1>1
<1>5. PICK new : new = old \o page
  OBVIOUS
<1>6. /\ new \in Seq(1 .. MaxEvents) /\ Len(new) = Len(old) + Len(page)
      /\ \A i \in 1 .. Len(old) + Len(page) :
           new[i] = IF i <= Len(old) THEN old[i] ELSE page[i - Len(old)]
  BY <1>4, <1>5, ConcatProperties
<1>7. view'[r] = new
  BY <1>4, <1>5 DEF ObserverTypeOK
<1>8. view' \in [Runs -> Seq(1 .. MaxEvents)]
  BY <1>3, <1>6, <1>7 DEF ObserverTypeOK
<1>9. cursors' \in [Runs -> 0 .. MaxEvents]
  <2>1. cursors'[r] \in 0 .. MaxEvents
    BY <1>1, <1>2
  <2>2. \A q \in Runs : cursors'[q] \in 0 .. MaxEvents
    BY <1>3, <2>1 DEF ObserverTypeOK
  <2>3. cursors' = [q \in Runs |-> cursors'[q]]
    BY DEF ObserverTypeOK
  <2> QED
    BY <2>2, <2>3
<1>10. LogOK'
  BY <1>1, <1>2, <1>3 DEF LogOK
<1>11. ASSUME NEW i \in DOMAIN new
       PROVE  new[i] = cursors'[r] - (Len(new) - i)
  <2>1. i \in 1 .. Len(old) + Len(page) /\ Len(old) \in Nat
    <3>1. DOMAIN new = 1 .. Len(new) /\ Len(old) \in Nat
      BY <1>4, <1>6, LenProperties
    <3> QED
      BY <1>6, <1>11, <3>1
  <2>2. CASE i <= Len(old)
    <3>1. i \in DOMAIN view[r]
      BY <1>1, <1>4, <2>1, <2>2
    <3>2. old[i] = cursors[r] - (Len(old) - i)
      BY <1>4, <3>1 DEF ShownInOrder
    <3>3. new[i] = old[i]
      BY <1>6, <2>1, <2>2
    <3>4. cursors'[r] - (Len(new) - i) = cursors[r] - (Len(old) - i)
      BY <1>1, <1>2, <1>6, <2>1
    <3> QED
      BY <3>2, <3>3, <3>4
  <2>3. CASE i > Len(old)
    <3>1. i - Len(old) \in DOMAIN page
      BY <1>1, <2>1, <2>3
    <3>2. page[i - Len(old)] = cursors[r] + (i - Len(old))
      BY <3>1
    <3> QED
      BY <1>1, <1>2, <1>6, <2>1, <2>3, <3>2
  <2> QED
    BY <2>1, <2>2, <2>3
<1>12. ShownInOrder'
  <2> SUFFICES ASSUME NEW q \in Runs
               PROVE  /\ \A i \in DOMAIN view'[q] :
                           view'[q][i] = cursors'[q] - (Len(view'[q]) - i)
                      /\ client = "browser" /\ q # selected => view'[q] = <<>>
    BY DEF ShownInOrder
  <2>1. CASE q = r
    BY <1>7, <1>11, <2>1
  <2>2. CASE q # r
    BY <1>3, <2>2 DEF ShownInOrder
  <2> QED
    BY <2>1, <2>2
<1> QED
  BY <1>2, <1>8, <1>9, <1>10, <1>12

\* The server answers the present watch.
LEMMA ServesSound ==
  ASSUME Sound, NEW n \in DOMAIN watches, Serves(n)
  PROVE  Sound'
<1>1. PICK w \in WatchRows : w = watches[n]
  BY DEF Sound, ObserverTypeOK
<1>2. w.pc \in {"get_run", "get_page"} /\ UNCHANGED <<serverVars, client>>
      /\ UNCHANGED screenVars
      /\ UNCHANGED <<cursors, started, current, cancel>>
  BY <1>1 DEF Serves
<1>3. n = current /\ w.run \in Runs /\ Present(w)
  BY <1>1, <1>2 DEF Sound, WatchesOK, Replaced
<1>4. PICK r \in Runs : r = w.run
  BY <1>3
<1>5. /\ log \in [Runs -> 0 .. MaxEvents] /\ log[r] \in Nat /\ cursors[r] \in Nat
      /\ cursors[r] <= log[r] /\ endAt[r] <= log[r]
      /\ state[r] \in {"active", "ended"}
  BY SizesAssumption DEF Sound, ObserverTypeOK, LogOK
<1>6. CASE w.pc = "get_run" /\ Becomes(n, [w EXCEPT !.pc = "got_run", !.status = state[w.run]])
  <2>0. PICK v : v = [w EXCEPT !.pc = "got_run", !.status = state[w.run]]
    OBVIOUS
  <2>1. v \in WatchRows /\ v.pc = "got_run" /\ v.run = r /\ v.status = state[r]
    BY <1>4, <1>5, <2>0 DEF WatchRows, Points, InFlight
  <2>2. Becomes(n, v)
    BY <1>6, <2>0
  <2>3. Present(v)'
    BY <1>2, <1>3, <1>4, <1>5, <1>6, <2>1 DEF Present, serverVars, screenVars
  <2> QED
    BY <1>1, <1>2, <1>3, <1>4, <1>6, <2>1, <2>2, <2>3, UnseenSound
<1>7. CASE /\ w.pc = "get_page"
           /\ Becomes(n, [w EXCEPT !.pc = "got_page", !.after = 0,
                                   !.page = Page(w.run, w.after),
                                   !.more = HasMore(w.run, w.after)])
  <2>0. PICK v : v = [w EXCEPT !.pc = "got_page", !.after = 0,
                               !.page = Page(w.run, w.after),
                               !.more = HasMore(w.run, w.after)]
    OBVIOUS
  <2>1. w.after = cursors[r]
    BY <1>3, <1>4, <1>7 DEF Present
  <2>2. PICK page : page = Page(r, w.after)
    OBVIOUS
  <2>3. PICK more : more = HasMore(r, w.after)
    OBVIOUS
  <2>4. /\ page \in Seq(1 .. MaxEvents) /\ cursors[r] + Len(page) <= log[r]
        /\ \A i \in DOMAIN page : page[i] = cursors[r] + i
        /\ ~more => cursors[r] + Len(page) = log[r]
        /\ more \in BOOLEAN
    BY <1>5, <2>1, <2>2, <2>3, PageFacts
  <2>5. /\ v \in WatchRows /\ v.pc = "got_page" /\ v.run = r /\ v.status = w.status
        /\ v.page = page /\ v.more = more
    BY <1>4, <2>0, <2>2, <2>3, <2>4 DEF WatchRows, Points, InFlight
  <2>6. Becomes(n, v)
    BY <1>7, <2>0
  <2>7. PageOK(v)
    BY <1>5, <2>4, <2>5 DEF PageOK
  <2>8. Present(v)
    BY <1>3, <1>4, <1>7, <2>5, <2>7 DEF Present
  <2>9. Present(v)'
    BY <1>2, <2>8 DEF Present, PageOK, serverVars, screenVars
  <2> QED
    BY <1>1, <1>2, <1>3, <1>4, <1>7, <2>5, <2>6, <2>9, UnseenSound
<1> QED
  BY <1>1, <1>6, <1>7 DEF Serves

\* The present watch asks for the page after the cursor.
LEMMA AsksRow ==
  ASSUME ObserverTypeOK, NEW n \in DOMAIN watches, NEW r \in Runs,
         AsksPage(n, cursors[r])
  PROVE  \E v \in WatchRows :
           /\ Becomes(n, v) /\ v.pc = "get_page" /\ v.after = cursors[r]
           /\ v.run = watches[n].run /\ v.status = watches[n].status
<1> DEFINE v == [watches[n] EXCEPT !.pc = "get_page", !.after = cursors[r]]
<1>1. watches[n] \in WatchRows /\ cursors[r] \in Nat
  BY SizesAssumption DEF ObserverTypeOK
<1>2. v \in WatchRows /\ v.pc = "get_page" /\ v.after = cursors[r]
      /\ v.run = watches[n].run /\ v.status = watches[n].status
  BY <1>1 DEF WatchRows, Points, InFlight
<1>3. Becomes(n, v)
  BY DEF AsksPage
<1> QED
  BY <1>2, <1>3

\* The snapshot arrives.
LEMMA SnapshotSound ==
  ASSUME Sound, NEW n \in DOMAIN watches, Snapshot(n)
  PROVE  Sound'
<1>1. PICK w \in WatchRows : w = watches[n]
  BY DEF Sound, ObserverTypeOK
<1>2. /\ w.pc = "got_run" /\ n = current
      /\ shown' = w.status /\ notice' = "observing" /\ AsksPage(n, cursors[w.run])
      /\ UNCHANGED <<serverVars, client, selected, view, cursors, started,
                     current, cancel>>
  BY <1>1 DEF Snapshot, IsCurrent
<1>3. /\ w.run \in Runs /\ Present(w) /\ w.run = selected
      /\ w.status \in {"active", "ended"}
  BY <1>1, <1>2 DEF Sound, WatchesOK, Present, WatchRows
<1>4. PICK v \in WatchRows :
        /\ Becomes(n, v) /\ v.pc = "get_page" /\ v.after = cursors[w.run]
        /\ v.run = w.run /\ v.status = w.status
  BY <1>1, <1>2, <1>3, AsksRow DEF Sound
<1>5. Present(v)'
  BY <1>2, <1>3, <1>4 DEF Present, serverVars
<1>6. LogOK' /\ RequestsOK' /\ ShownInOrder' /\ HistoryComplete'
  BY <1>2 DEF Sound, LogOK, RequestsOK, Honest, ShownInOrder, HistoryComplete,
     serverVars
<1>7. view' \in [Runs -> Seq(1 .. MaxEvents)] /\ cursors' \in [Runs -> 0 .. MaxEvents]
  BY <1>2 DEF Sound, ObserverTypeOK
<1> QED
  BY <1>1, <1>2, <1>3, <1>4, <1>5, <1>6, <1>7, PollSound

\* A page arrives.
LEMMA EventsSound ==
  ASSUME Sound, NEW n \in DOMAIN watches, Events(n)
  PROVE  Sound'
<1>1. PICK w \in WatchRows : w = watches[n]
  BY DEF Sound, ObserverTypeOK
<1>2. PICK page : page = w.page
  OBVIOUS
<1>3. w.pc = "got_page" /\ n = current
      /\ UNCHANGED <<serverVars, client, selected, started, current, cancel>>
  BY <1>1 DEF Events, IsCurrent
<1>4. /\ w.run \in Runs /\ Present(w) /\ PageOK(w) /\ w.run = selected
      /\ w.status \in {"active", "ended"} /\ page \in Seq(1 .. MaxEvents)
      /\ w.more \in BOOLEAN
  BY <1>1, <1>2, <1>3 DEF Sound, WatchesOK, Present, WatchRows
<1>5. PICK r \in Runs : r = w.run
  BY <1>4
<1>6. /\ \A i \in DOMAIN page : page[i] = cursors[r] + i
      /\ cursors[r] + Len(page) <= log[r] /\ cursors[r] \in Nat
  BY <1>2, <1>4, <1>5, SizesAssumption DEF PageOK, Sound, ObserverTypeOK
<1>7. Accepted(page, cursors[r]) = page
  BY <1>4, <1>6, AcceptedAll
<1>8. /\ view' = [view EXCEPT ![r] = @ \o page]
      /\ cursors' = [cursors EXCEPT ![r] = IF page = <<>> THEN @ ELSE page[Len(page)]]
  BY <1>1, <1>2, <1>5, <1>7 DEF Events
<1>9. /\ view' \in [Runs -> Seq(1 .. MaxEvents)]
      /\ cursors' \in [Runs -> 0 .. MaxEvents]
      /\ cursors'[r] = cursors[r] + Len(page)
      /\ LogOK' /\ ShownInOrder'
  BY <1>3, <1>4, <1>5, <1>6, <1>8, PageShown DEF Sound, Honest, serverVars
<1>10. shown \in {"none", "active", "ended"}
  BY DEF Sound, ObserverTypeOK
<1>11. CASE /\ w.more /\ notice' = "observing" /\ UNCHANGED shown
            /\ Becomes(n, [w EXCEPT !.pc = "yield", !.page = <<>>, !.more = FALSE])
  <2> DEFINE v == [w EXCEPT !.pc = "yield", !.page = <<>>, !.more = FALSE]
  <2>1. v \in WatchRows /\ v.pc = "yield" /\ v.run = r /\ v.status = w.status
    <3>1. <<>> \in Seq(1 .. MaxEvents)
      OBVIOUS
    <3> QED
      BY <1>5, <3>1 DEF WatchRows, Points, InFlight
  <2>2. Becomes(n, v)
    BY <1>11
  <2> HIDE DEF v
  <2>3. Present(v)'
    BY <1>3, <1>4, <1>5, <2>1 DEF Present, serverVars
  <2>4. RequestsOK' /\ HistoryComplete'
    BY <1>3, <1>11 DEF Sound, RequestsOK, HistoryComplete
  <2> QED
    BY <1>1, <1>3, <1>4, <1>5, <1>9, <1>10, <1>11, <2>1, <2>2, <2>3, <2>4,
       PollSound
<1>12. CASE /\ w.status = "active" /\ notice' = "observing" /\ UNCHANGED shown
            /\ Becomes(n, [NewWatch(w.run) EXCEPT !.pc = "sleep"])
  <2> DEFINE v == [NewWatch(w.run) EXCEPT !.pc = "sleep"]
  <2>1. v \in WatchRows /\ v.pc = "sleep" /\ v.run = r /\ v.status = "none"
    BY <1>5, RowTypes DEF WatchRows, Points
  <2>2. Becomes(n, v)
    BY <1>12
  <2> HIDE DEF v
  <2>3. Present(v)'
    BY <1>3, <1>4, <1>5, <2>1 DEF Present
  <2>4. RequestsOK' /\ HistoryComplete'
    BY <1>3, <1>12 DEF Sound, RequestsOK, HistoryComplete
  <2> QED
    BY <1>1, <1>3, <1>4, <1>5, <1>9, <1>10, <1>12, <2>1, <2>2, <2>3, <2>4,
       PollSound
<1>13. CASE /\ ~w.more /\ w.status = "ended" /\ notice' = "finished"
            /\ shown' = w.status /\ Becomes(n, Over)
  <2>1. Over \in WatchRows /\ Over.pc = "over"
    BY RowTypes
  <2>2. Present(Over)'
    BY <2>1 DEF Present, Over
  <2>3. RequestsOK'
    BY <1>3, <1>4 DEF Sound, RequestsOK
  <2>4. state[r] = "ended" /\ endAt[r] <= cursors[r] + Len(page)
    BY <1>2, <1>3, <1>4, <1>5, <1>13 DEF Present, PageOK
  <2>5. cursors'[r] >= endAt[r]
    <3>1. cursors'[r] \in Nat /\ endAt[r] \in Nat
      BY <1>9, SizesAssumption DEF Sound, ObserverTypeOK
    <3> QED
      BY <1>9, <2>4, <3>1
  <2>6. HistoryComplete'
    BY <1>3, <1>4, <1>5, <1>13, <2>4, <2>5 DEF HistoryComplete, serverVars
  <2> QED
    BY <1>1, <1>3, <1>9, <1>13, <2>1, <2>2, <2>3, <2>6, PollSound
<1> QED
  BY <1>1, <1>4, <1>11, <1>12, <1>13 DEF Events, Drains

\* The next page, the next snapshot, an answer to drop.
LEMMA NextSound ==
  ASSUME Sound, NEW n \in DOMAIN watches, NextPage(n) \/ NextPoll(n) \/ Drops(n)
  PROVE  Sound'
<1>1. PICK w \in WatchRows : w = watches[n]
  BY DEF Sound, ObserverTypeOK
<1>2. /\ w.pc # "over" => w.run \in Runs
      /\ n # current => Replaced(w)
      /\ n = current => Present(w)
  BY <1>1 DEF Sound, WatchesOK
<1>3. UNCHANGED <<serverVars, client, screenVars, cursors, started, current,
                  cancel>>
  BY DEF NextPage, NextPoll, Drops
<1>4. CASE NextPage(n)
  <2>1. w.pc = "yield" /\ n = current /\ AsksPage(n, cursors[w.run])
    BY <1>1, <1>4 DEF NextPage, IsCurrent
  <2>2. PICK v \in WatchRows :
          /\ Becomes(n, v) /\ v.pc = "get_page" /\ v.after = cursors[w.run]
          /\ v.run = w.run /\ v.status = w.status
    BY <1>1, <1>2, <2>1, AsksRow DEF Sound
  <2>3. Present(v)'
    BY <1>2, <1>3, <2>1, <2>2 DEF Present, serverVars, screenVars
  <2> QED
    BY <1>1, <1>3, <2>1, <2>2, <2>3, UnseenSound
<1>5. CASE NextPoll(n)
  <2>1. w.pc = "sleep" /\ n = current /\ Becomes(n, NewWatch(w.run)) /\ w.run \in Runs
    BY <1>1, <1>2, <1>5 DEF NextPoll, Replaced
  <2>2. PICK v \in WatchRows :
          v = NewWatch(w.run) /\ v.pc = "get_run" /\ v.run = w.run /\ v.status = "none"
    BY <2>1, RowTypes
  <2>3. w.run = selected
    BY <1>2, <2>1 DEF Present
  <2>4. Present(v)'
    <3>1. v.pc = "get_run" /\ v.run = selected' /\ v.status = "none"
      BY <1>3, <2>2, <2>3 DEF screenVars
    <3> QED
      BY <3>1 DEF Present
  <2> QED
    BY <1>1, <1>3, <2>1, <2>2, <2>4, UnseenSound
<1>6. CASE Drops(n)
  <2>1. n # current /\ Becomes(n, Over)
    BY <1>6 DEF Drops, IsCurrent
  <2>2. Over \in WatchRows /\ Over.pc = "over" /\ Replaced(Over)
    BY RowTypes DEF Replaced
  <2> QED
    BY <1>3, <2>1, <2>2, UnseenSound
<1> QED
  BY <1>4, <1>5, <1>6

\* The watch ends and says so.
LEMMA DisconnectsSound ==
  ASSUME Sound, NEW n \in DOMAIN watches, Disconnects(n)
  PROVE  Sound'
<1>1. /\ n = current /\ notice' = "disconnected" /\ Becomes(n, Over)
      /\ UNCHANGED <<serverVars, client, selected, shown, view, cursors,
                     started,
                     current, cancel>>
  BY DEF Disconnects, IsCurrent
<1>2. Over \in WatchRows /\ Over.pc = "over"
  BY RowTypes
<1>3. Present(Over)'
  BY <1>2 DEF Present, Over
<1>4. LogOK' /\ RequestsOK' /\ ShownInOrder' /\ HistoryComplete'
  BY <1>1 DEF Sound, LogOK, RequestsOK, Honest, ShownInOrder, HistoryComplete,
     serverVars
<1>5. /\ view' \in [Runs -> Seq(1 .. MaxEvents)] /\ cursors' \in [Runs -> 0 .. MaxEvents]
      /\ shown' \in {"none", "active", "ended"}
  BY <1>1 DEF Sound, ObserverTypeOK
<1> QED
  BY <1>1, <1>2, <1>3, <1>4, <1>5, PollSound

-----------------------------------------------------------------------------
(* The invariant holds *)

\* Nothing is watched yet.
LEMMA InitSound == ObserverInit => Sound
<1> SUFFICES ASSUME ObserverInit PROVE Sound
  OBVIOUS
<1> USE DEF ObserverInit
<1>1. /\ 1 \in 0 .. MaxEvents /\ 0 \in 0 .. MaxEvents /\ 0 \in 0 .. MaxStarts
      /\ <<>> \in Seq(1 .. MaxEvents) /\ <<>> \in Seq(WatchRows) /\ 0 \in 0 .. 0
  BY SizesAssumption
<1>2. state \in [Runs -> {"active", "ended"}]
  OBVIOUS
<1>3. log \in [Runs -> 0 .. MaxEvents] /\ endAt \in [Runs -> 0 .. MaxEvents]
      /\ cursors \in [Runs -> 0 .. MaxEvents] /\ view \in [Runs -> Seq(1 .. MaxEvents)]
  BY <1>1
<1>4. watches \in Seq(WatchRows) /\ Len(watches) = 0 /\ DOMAIN watches = {}
  BY <1>1
<1>5. ObserverTypeOK
  BY <1>1, <1>2, <1>3, <1>4, NoCancelType DEF ObserverTypeOK
<1>6. LogOK /\ WatchesOK /\ RequestsOK
  BY <1>4, NoCancelType DEF LogOK, WatchesOK, RequestsOK
<1>7. Honest
  BY DEF Honest, ShownInOrder, HistoryComplete, StatusWatched
<1> QED
  BY <1>5, <1>6, <1>7 DEF Sound

\* Every step keeps the invariant.
LEMMA StepSound == Sound /\ [ObserverNext]_observerVars => Sound'
<1> SUFFICES ASSUME Sound, [ObserverNext]_observerVars PROVE Sound'
  OBVIOUS
<1>1. ASSUME NEW r \in Runs, CommitEvent(r) \/ EndRun(r),
             UNCHANGED <<client, screenVars, cursors, started, current,
                         watches, cancel>>
      PROVE  Sound'
  BY <1>1, ServerSound DEF Sound, ObserverTypeOK, RequestsOK
<1>2. CASE Server
  BY <1>1, <1>2 DEF Server
<1>3. CASE User \/ CancelServed \/ CancelAnswered \/ CancelLost
  BY <1>3, UserSound
<1>4. ASSUME NEW n \in DOMAIN watches, Polls(n) PROVE Sound'
  BY <1>4, ServesSound, SnapshotSound, EventsSound, NextSound,
     DisconnectsSound DEF Polls
<1>5. CASE UNCHANGED observerVars
  <2> USE <1>5 DEF observerVars, serverVars, screenVars
  <2>1. ObserverTypeOK' /\ LogOK' /\ RequestsOK'
    BY DEF Sound, ObserverTypeOK, LogOK, RequestsOK
  <2>2. WatchesOK'
    BY DEF Sound, WatchesOK, Replaced, Present, PageOK
  <2>3. Honest'
    BY DEF Sound, Honest, ShownInOrder, HistoryComplete, StatusWatched, Watching
  <2> QED
    BY <2>1, <2>2, <2>3 DEF Sound
<1> QED
  BY <1>2, <1>3, <1>4, <1>5 DEF ObserverNext

\* What a watch relies on holds in every reachable state.
THEOREM ObserverSound == ObserverSpec => []Sound
<1> QED
  BY InitSound, StepSound, PTL DEF ObserverSpec

\* The client is always in one of its states.
THEOREM ObserverTypeCorrect == ObserverSpec => []ObserverTypeOK
<1>1. Sound => ObserverTypeOK
  BY DEF Sound
<1> QED
  BY <1>1, ObserverSound, PTL

\* What is shown of a run is a stretch of its log up to the cursor, without a
\* gap or a repetition (web/client.js:59, observation.py:14).
THEOREM ShowsInOrder == ObserverSpec => []ShownInOrder
<1>1. Sound => ShownInOrder
  BY DEF Sound, Honest
<1> QED
  BY <1>1, ObserverSound, PTL

\* A run that is said to be over is over and its history was read
\* (web/client.js:104).
THEOREM HistoriesAreComplete == ObserverSpec => []HistoryComplete
<1>1. Sound => HistoryComplete
  BY DEF Sound, Honest
<1> QED
  BY <1>1, ObserverSound, PTL

\* A run that is shown as active is watched, or the user was told that it is
\* not.
THEOREM ActiveRunsAreWatched == ObserverSpec => []StatusWatched
<1>1. Sound => StatusWatched
  BY DEF Sound, Honest
<1> QED
  BY <1>1, ObserverSound, PTL
=============================================================================
