----------------------------- MODULE RunObserver -----------------------------
(***************************************************************************)
(* A client that watches runs over RPC: the page (RunWatcher of            *)
(* web/client.js and its callbacks in web/app.js) or the console           *)
(* (watch_run of observation.py and TerminalClient of cli.py).             *)
(*                                                                         *)
(* Both poll: get_run, then pages of list_run_events from a cursor they    *)
(* keep per run, then, if the snapshot was active, the same again after an *)
(* interval.  A request and its answer are separate steps, so an answer    *)
(* may be old, or belong to a watch that was replaced meanwhile.  Events   *)
(* are their sequence numbers; of the statuses a client only tells active  *)
(* from ended.                                                             *)
(***************************************************************************)
EXTENDS Naturals, Sequences, FiniteSets

CONSTANTS
  Runs, NoRun,
  Clients,    \* {"browser", "console"}
  PageSize,   \* events in a page, 100 in the code
  MaxEvents,  \* bound: events of a run
  MaxStarts   \* bound: watches started

ASSUME ClientsAssumption == Clients \subseteq {"browser", "console"}
ASSUME SizesAssumption ==
  PageSize \in Nat \ {0} /\ MaxEvents \in Nat \ {0} /\ MaxStarts \in Nat
ASSUME NoRunAssumption == NoRun \notin Runs

VARIABLES
  state,     \* server: "active" or "ended", per run
  log,       \* server: number of committed events, per run
  endAt,     \* server: sequence number of the terminal event, 0 before
  client,    \* which client this is
  selected,  \* run_id of the client
  shown,     \* status in the snapshot on display, "none" without one
  view,      \* events on display, per run
  notice,    \* what the user was last told about the watch
  cursors,   \* cursors
  started,   \* watches started
  current,   \* the watch whose generation is the present one, 0 if stopped
  watches,   \* every watch that was started
  cancel     \* the cancel_run request of this client

serverVars == <<state, log, endAt>>
screenVars == <<selected, shown, view, notice>>
observerVars == <<serverVars, client, screenVars, cursors, started, current,
                  watches, cancel>>

-----------------------------------------------------------------------------

\* A watch waits for the server (its request is out, or the answer is on its
\* way), for the event loop between two pages, or for the interval.
InFlight == {"get_run", "got_run", "get_page", "got_page"}
Points == InFlight \cup {"yield", "sleep", "over"}
WatchRows == [pc : Points, run : Runs \cup {NoRun}, after : Nat,
              status : {"none", "active", "ended"},
              page : Seq(1 .. MaxEvents), more : BOOLEAN]
Over == [pc |-> "over", run |-> NoRun, after |-> 0, status |-> "none",
         page |-> <<>>, more |-> FALSE]
NewWatch(r) == [Over EXCEPT !.pc = "get_run", !.run = r]
Cancels == [pc : {"idle", "asked", "answered"}, run : Runs \cup {NoRun},
            status : {"none", "active", "ended"}]
NoCancel == [pc |-> "idle", run |-> NoRun, status |-> "none"]

Watching(r) ==
  /\ current # 0
  /\ watches[current].run = r
  /\ watches[current].pc # "over"

\* list_run_events: the events after the cursor, one page of them, and
\* whether there are more.
LastOf(r, after) ==
  IF log[r] < after + PageSize THEN log[r] ELSE after + PageSize
Page(r, after) == [i \in 1 .. LastOf(r, after) - after |-> after + i]
HasMore(r, after) == log[r] > after + PageSize

\* stop(): the present watch is outdated, its timer is cleared and a request
\* that is out is aborted; an answer that is there already still comes.  The
\* console cancels the task instead, and waits for it.
Outdated ==
  [n \in DOMAIN watches |->
     IF client = "console" \/ watches[n].pc \in {"get_run", "get_page", "sleep"}
     THEN Over ELSE watches[n]]
Stops == current' = 0 /\ watches' = Outdated /\ UNCHANGED started
Starts(r) ==
  /\ started < MaxStarts
  /\ started' = started + 1
  /\ current' = started'
  /\ watches' = Append(Outdated, NewWatch(r))

\* generation === this.generation: is watch n still the present one?
IsCurrentAlways(n) == TRUE
IsCurrent(n) == n = current

-----------------------------------------------------------------------------
(* The server *)

CommitEvent(r) ==
  /\ log[r] < MaxEvents
  /\ log' = [log EXCEPT ![r] = @ + 1]
  /\ UNCHANGED <<state, endAt>>

EndRun(r) ==
  /\ state[r] = "active"
  /\ log[r] < MaxEvents
  /\ log' = [log EXCEPT ![r] = @ + 1]
  /\ endAt' = [endAt EXCEPT ![r] = log'[r]]
  /\ state' = [state EXCEPT ![r] = "ended"]

Server ==
  /\ \E r \in Runs : CommitEvent(r) \/ EndRun(r)
  /\ UNCHANGED <<client, screenVars, cursors, started, current, watches,
                 cancel>>

-----------------------------------------------------------------------------
(* The user *)

\* The console reads the next command when the last one was answered.
Listens == client = "browser" \/ cancel.pc = "idle"

\* selectRun, `run watch`: the page clears what it shows of another run, the
\* console what it remembers of the last snapshot.
Watch(r) ==
  /\ Listens
  /\ Starts(r)
  /\ selected' = r
  /\ IF client = "browser"
     THEN IF r = selected THEN UNCHANGED <<shown, view, notice>>
          ELSE /\ shown' = "none"
               /\ notice' = "none"
               /\ view' = [q \in Runs |-> <<>>]
     ELSE shown' = "none" /\ notice' = "none" /\ UNCHANGED view
  /\ UNCHANGED <<serverVars, client, cursors, cancel>>

StopWatch ==
  /\ Listens
  /\ current # 0
  /\ Stops
  /\ notice' = "paused"
  /\ UNCHANGED <<serverVars, client, selected, shown, view, cursors, cancel>>

\* clearRun, `session new`, `session use`.
ClearRun ==
  /\ Listens
  /\ selected # NoRun
  /\ Stops
  /\ selected' = NoRun
  /\ IF client = "browser"
     THEN /\ shown' = "none"
          /\ notice' = "none"
          /\ view' = [q \in Runs |-> <<>>]
     ELSE notice' = "paused" /\ UNCHANGED <<shown, view>>
  /\ UNCHANGED <<serverVars, client, cursors, cancel>>

\* The button is there while the snapshot is active; the console always takes
\* the command.
CancelRun ==
  /\ cancel.pc = "idle"
  /\ selected # NoRun
  /\ client = "browser" => shown = "active"
  /\ cancel' = [NoCancel EXCEPT !.pc = "asked", !.run = selected]
  /\ UNCHANGED <<serverVars, client, screenVars, cursors, started, current,
                 watches>>

\* cancel_run: the request is in the log of a run that is active, or the run,
\* still queued, ends at once.
CancelServed ==
  LET r == cancel.run IN
  /\ cancel.pc = "asked"
  /\ \/ state[r] = "active" /\ (CommitEvent(r) \/ EndRun(r))
     \/ state[r] = "ended" /\ UNCHANGED serverVars
  /\ cancel' = [cancel EXCEPT !.pc = "answered", !.status = state'[r]]
  /\ UNCHANGED <<client, screenVars, cursors, started, current, watches>>

\* The page shows the answer, which may be older than the snapshot it shows,
\* and starts to watch again; the console prints it.
CancelAnsweredNoRestart ==
  /\ cancel.pc = "answered"
  /\ cancel' = NoCancel
  /\ IF client = "browser" /\ cancel.run = selected
     THEN shown' = cancel.status /\ notice' = "observing"
     ELSE UNCHANGED <<shown, notice>>
  /\ UNCHANGED <<serverVars, client, selected, view, cursors, started,
                 current, watches>>
CancelAnswered ==
  /\ cancel.pc = "answered"
  /\ cancel' = NoCancel
  /\ IF client = "browser" /\ cancel.run = selected
     THEN /\ shown' = cancel.status
          /\ notice' = "observing"
          /\ Starts(cancel.run)
     ELSE UNCHANGED <<shown, notice, started, current, watches>>
  /\ UNCHANGED <<serverVars, client, selected, view, cursors>>

\* The request or its answer is lost; nobody repeats it.
CancelLost ==
  /\ cancel.pc # "idle"
  /\ cancel' = NoCancel
  /\ UNCHANGED <<serverVars, client, screenVars, cursors, started, current,
                 watches>>

User ==
  \/ \E r \in Runs : Watch(r)
  \/ StopWatch \/ ClearRun \/ CancelRun

-----------------------------------------------------------------------------
(* A watch: RunWatcher.start's tick, watch_run *)

Becomes(n, w) == watches' = [watches EXCEPT ![n] = w]
AsksPage(n, cursor) ==
  Becomes(n, [watches[n] EXCEPT !.pc = "get_page", !.after = cursor])

\* The server answers, with what is committed now.
Serves(n) ==
  LET w == watches[n] IN
  /\ \/ /\ w.pc = "get_run"
        /\ Becomes(n, [w EXCEPT !.pc = "got_run", !.status = state[w.run]])
     \/ /\ w.pc = "get_page"
        /\ Becomes(n, [w EXCEPT !.pc = "got_page", !.after = 0,
                                !.page = Page(w.run, w.after),
                                !.more = HasMore(w.run, w.after)])
  /\ UNCHANGED <<serverVars, client, screenVars, cursors, started, current,
                 cancel>>

\* The snapshot arrives.
Snapshot(n) ==
  LET w == watches[n] IN
  /\ w.pc = "got_run"
  /\ IsCurrent(n)
  /\ shown' = w.status
  /\ notice' = "observing"
  /\ AsksPage(n, cursors[w.run])
  /\ UNCHANGED <<serverVars, client, selected, view, cursors, started,
                 current, cancel>>

\* acceptPage sorts the page and keeps the events past the cursor, its end.
Accepted(page, cursor) ==
  LET known == Cardinality({i \in DOMAIN page : page[i] <= cursor})
  IN  SubSeq(page, known + 1, Len(page))

\* Is another page read before the status of the snapshot counts?
DrainsFirstPage(w) == FALSE
Drains(w) == w.more

\* A page arrives: another one is read, or the interval begins, or the
\* snapshot was terminal and all of its history has been read.
Events(n) ==
  LET w == watches[n]
      news == Accepted(w.page, cursors[w.run]) IN
  /\ w.pc = "got_page"
  /\ IsCurrent(n)
  /\ view' = [view EXCEPT ![w.run] = @ \o news]
  /\ cursors' = [cursors EXCEPT ![w.run] =
                   IF news = <<>> THEN @ ELSE news[Len(news)]]
  /\ IF Drains(w)
     THEN /\ Becomes(n, [w EXCEPT !.pc = "yield", !.page = <<>>,
                                  !.more = FALSE])
          /\ notice' = "observing"
          /\ UNCHANGED shown
     ELSE IF w.status = "active"
     THEN /\ Becomes(n, [NewWatch(w.run) EXCEPT !.pc = "sleep"])
          /\ notice' = "observing"
          /\ UNCHANGED shown
     ELSE /\ Becomes(n, Over)
          /\ shown' = w.status
          /\ notice' = "finished"
  /\ UNCHANGED <<serverVars, client, selected, started, current, cancel>>

\* The next page, or the next snapshot.
NextPage(n) ==
  /\ watches[n].pc = "yield"
  /\ IsCurrent(n)
  /\ AsksPage(n, cursors[watches[n].run])
  /\ UNCHANGED <<serverVars, client, screenVars, cursors, started, current,
                 cancel>>
NextPollPagesOnly(n) ==
  /\ watches[n].pc = "sleep"
  /\ Becomes(n, [watches[n] EXCEPT !.pc = "get_page", !.status = "active",
                                   !.after = cursors[watches[n].run]])
  /\ UNCHANGED <<serverVars, client, screenVars, cursors, started, current,
                 cancel>>
NextPoll(n) ==
  /\ watches[n].pc = "sleep"
  /\ Becomes(n, NewWatch(watches[n].run))
  /\ UNCHANGED <<serverVars, client, screenVars, cursors, started, current,
                 cancel>>

\* The request fails, or its ten seconds are over: the watch ends, and says
\* so.
Disconnects(n) ==
  /\ watches[n].pc \in InFlight
  /\ IsCurrent(n)
  /\ notice' = "disconnected"
  /\ Becomes(n, Over)
  /\ UNCHANGED <<serverVars, client, selected, shown, view, cursors, started,
                 current, cancel>>

\* Whatever comes for a watch that was replaced is dropped.
Drops(n) ==
  /\ watches[n].pc \in {"got_run", "got_page", "yield"}
  /\ ~IsCurrent(n)
  /\ Becomes(n, Over)
  /\ UNCHANGED <<serverVars, client, screenVars, cursors, started, current,
                 cancel>>

Polls(n) ==
  \/ Serves(n) \/ Snapshot(n) \/ Events(n) \/ NextPage(n) \/ NextPoll(n)
  \/ Disconnects(n) \/ Drops(n)

-----------------------------------------------------------------------------
(* Specification *)

ObserverInit ==
  /\ state = [r \in Runs |-> "active"]
  /\ log = [r \in Runs |-> 1]  \* run_queued
  /\ endAt = [r \in Runs |-> 0]
  /\ client \in Clients
  /\ selected = NoRun
  /\ shown = "none"
  /\ view = [r \in Runs |-> <<>>]
  /\ notice = "none"
  /\ cursors = [r \in Runs |-> 0]
  /\ started = 0
  /\ current = 0
  /\ watches = <<>>
  /\ cancel = NoCancel

ObserverNext ==
  \/ Server
  \/ User
  \/ CancelServed \/ CancelAnswered \/ CancelLost
  \/ \E n \in DOMAIN watches : Polls(n)

\* The requests of the present watch are answered or time out, and its timers
\* fire.  No user need act, and no run need end.
ObserverFairness == WF_observerVars(current # 0 /\ Polls(current))
ObserverSpec ==
  ObserverInit /\ [][ObserverNext]_observerVars /\ ObserverFairness

-----------------------------------------------------------------------------
(* Properties *)

ObserverTypeOK ==
  /\ state \in [Runs -> {"active", "ended"}]
  /\ log \in [Runs -> 0 .. MaxEvents] /\ endAt \in [Runs -> 0 .. MaxEvents]
  /\ client \in Clients
  /\ selected \in Runs \cup {NoRun}
  /\ shown \in {"none", "active", "ended"}
  /\ view \in [Runs -> Seq(1 .. MaxEvents)]
  /\ notice \in {"none", "observing", "paused", "disconnected", "finished"}
  /\ cursors \in [Runs -> 0 .. MaxEvents]
  /\ started \in 0 .. MaxStarts /\ current \in 0 .. started
  /\ watches \in Seq(WatchRows) /\ Len(watches) = started
  /\ cancel \in Cancels

\* What a client shows of a run is a stretch of its log without a gap, a
\* repetition or a step back, up to the cursor, whatever polls, pages,
\* replaced watches, losses and returns to a run overlap; the page shows
\* events of the selected run only.
ShownInOrder ==
  \A r \in Runs :
    /\ \A i \in DOMAIN view[r] :
         view[r][i] = cursors[r] - (Len(view[r]) - i)
    /\ client = "browser" /\ r # selected => view[r] = <<>>

\* When a client says that a run is over and its history was read, the run is
\* over and the cursor is past its terminal event, however many pages were
\* left when the snapshot was taken.
HistoryComplete ==
  notice = "finished" =>
    /\ shown = "ended"
    /\ state[selected] = "ended"
    /\ cursors[selected] >= endAt[selected]

\* While a run is shown as active, a watch goes on that will correct it,
\* unless the user was told that it stopped: an acknowledgement of a
\* cancellation that comes after the end of the run is no exception.
StatusWatched ==
  shown = "active" /\ notice \notin {"paused", "disconnected"} =>
    Watching(selected)

\* Nobody watches a run that ended for ever: the watch finds out, reads the
\* rest of the history and is over, if it was not stopped or lost before.
WatchesEnded == \E r \in Runs : Watching(r) /\ state[r] = "ended"
WatchEnds == WatchesEnded ~> ~WatchesEnded
=============================================================================
