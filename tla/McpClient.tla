------------------------------ MODULE McpClient ------------------------------
(***************************************************************************)
(* SDKMCPClient (mcp/client.py), the one connection to the tool server     *)
(* that all runs share, with the catalog MCPToolExecutor (mcp/executor.py) *)
(* keeps of it.                                                            *)
(*                                                                         *)
(* A task of its own, the owner, opens a connection, serves it until it is *)
(* told to stop and closes it.  Callers discover tools and call them;      *)
(* discovery finds or makes a connection while it holds the client's lock. *)
(* A version counts the changes of the catalog, and a call is refused when *)
(* the version it was validated against is not the current one.  aclose    *)
(* may come at any time.                                                   *)
(*                                                                         *)
(* An action runs from one await to the next.  The lock and the capacity   *)
(* semaphore are granted in any order, which allows more than asyncio      *)
(* does.  What the server answers is external and may be anything.         *)
(***************************************************************************)
EXTENDS Integers, FiniteSets

CONSTANTS
  Callers,        \* calls of MCPToolExecutor.execute
  RetrySafe,      \* those of a tool that is safe to retry
  Refreshers,     \* calls of discover_tools(refresh=True)
  Opener,         \* the call of __aenter__
  MaxAttempts,    \* MCPToolExecutor._max_attempts
  MaxInFlight,    \* max_in_flight
  MaxConnections  \* bound: connections in one behaviour

ASSUME ClientBoundsAssumption ==
  /\ MaxAttempts \in Nat \ {0}
  /\ MaxInFlight \in Nat \ {0}
  /\ MaxConnections \in Nat
ASSUME ProcessesAssumption ==
  /\ IsFiniteSet(Callers) /\ IsFiniteSet(Refreshers)
  /\ Opener \notin Callers \cup Refreshers
  /\ Callers \cap Refreshers = {} /\ RetrySafe \subseteq Callers

VARIABLES
  closed,     \* _closed
  version,    \* _version
  catalog,    \* _catalog: which fetch it came from, 0 when it is empty
  client,     \* _client: the connection it belongs to, 0 for None
  owner,      \* _owner: the connection of the last owner task, 0 for None
  ownerPc,    \* where the owner task of each connection is
  stop,       \* _stop of the last connection is set
  ready,      \* _ready of the last connection is set
  dropped,    \* the SDK ended the last connection although nobody asked for it
  fetched,    \* catalogs received so far
  exCatalog,  \* MCPToolExecutor._catalog
  exVersion,  \* MCPToolExecutor._catalog_version
  call,       \* where each caller is, and its local variables
  closing     \* where aclose is

connection == <<owner, ownerPc, stop, ready, dropped>>
contents == <<version, catalog, client, fetched>>
executor == <<exCatalog, exVersion>>
clientVars == <<closed, connection, contents, executor, call, closing>>

Processes == Callers \cup Refreshers \cup {Opener}
Connections == 1..MaxConnections

HoldsLock == {"await_owner", "await_ready", "fetch"}
InDiscovery == {"list", "unwinding"} \cup HoldsLock
InCall == {"slot", "call", "sent"}
CallPoints == {"idle", "attempt", "failed", "ended"} \cup InDiscovery \cup InCall
LiveOwner == {"created", "starting", "serving", "closing"}

\* Requests that hold a place of _slots.
InFlight == {c \in Processes : call[c].pc \in {"call", "sent"}}

\* A connection changes the version when it begins to serve, when it is
\* invalidated and when it ends; a refresh changes it once.  No more requests
\* are in flight than there are places.
ClientTypeOK ==
  /\ closed \in BOOLEAN
  /\ version \in 0..(3 * MaxConnections + Cardinality(Refreshers))
  /\ fetched \in 0..(MaxConnections + Cardinality(Refreshers))
  /\ catalog \in 0..fetched /\ exCatalog \in 0..fetched
  /\ client \in {0, owner} /\ owner \in 0..MaxConnections
  /\ ownerPc \in [Connections -> LiveOwner \cup {"absent", "done"}]
  /\ stop \in BOOLEAN /\ ready \in BOOLEAN /\ dropped \in BOOLEAN
  /\ exVersion \in -1..version
  /\ call \in [Processes -> [pc : CallPoints, seen : 0..fetched, ver : -1..version,
                             client : 0..MaxConnections, attempt : 1..MaxAttempts]]
  /\ closing \in {"open", "lock", "await", "closed"}
  /\ Cardinality(InFlight) <= MaxInFlight

-----------------------------------------------------------------------------
(* Parts *)

At(c, pc) == call[c].pc = pc
Goto(c, pc) == call' = [call EXCEPT ![c].pc = pc]

\* A caller before it begins, and when it is over, has no local variables.
NoCall(pc) == [pc |-> pc, seen |-> 0, ver |-> -1, client |-> 0, attempt |-> 1]
Leaves(c, pc) == call' = [call EXCEPT ![c] = NoCall(pc)]

IsReady == ~closed /\ client # 0 /\ ~stop

\* _lock is held across the awaits of discovery and of aclose only.
LockFree == closing # "await" /\ \A c \in Processes : call[c].pc \notin HoldsLock

\* _invalidate: the first caller that meets the loss of the current connection
\* ends it.
Invalidate(k) ==
  IF k = client /\ ~stop
  THEN /\ version' = version + 1
       /\ stop' = TRUE
       /\ UNCHANGED <<owner, ownerPc, ready, dropped, catalog, client, fetched>>
  ELSE UNCHANGED <<connection, contents>>

\* _connection_error: what the watcher of a request ends it for.
Interruption(k) == closed \/ (k # 0 /\ (client # k \/ stop))

\* A caller has left the lock with the catalog and is on its way out of the
\* task group of cancellable; MCPToolExecutor reads the version only after
\* that.  This takes two turns of the event loop.  Assumed: no exchange with the
\* server and no teardown of an owner ends in between.  One that begins there
\* takes more turns; of an exchange or a teardown that is already under way it is
\* assumed that its last turns do not fall into these two.
Settled == \A c \in Processes : call[c].pc # "unwinding"

\* An error out of list_tools ends the caller; __aenter__ closes the client.
DiscoveryFails(c) == Leaves(c, IF c = Opener THEN "failed" ELSE "ended")

\* list_tools returns a catalog.
Returned(c, cat) == call' = [call EXCEPT ![c].pc = "unwinding", ![c].seen = cat]

\* _validated_tool: the call goes on, unless the catalog has no such tool or
\* does not fit its arguments.
Validated(c, cat, ver) ==
  \/ call' = [call EXCEPT ![c].pc = "slot", ![c].seen = cat, ![c].ver = ver]
  \/ Leaves(c, "ended")

\* An error out of call_tool is retried, or ends the call: _can_retry.
Again(c) ==
  \/ Leaves(c, "ended")
  \/ /\ c \in RetrySafe /\ call[c].attempt < MaxAttempts
     /\ call' = [call EXCEPT ![c].pc = "attempt", ![c].attempt = @ + 1, ![c].client = 0]

-----------------------------------------------------------------------------
(* The owner of a connection: _serve_connection *)

OwnerAt(k, pc) == ownerPc[k] = pc
OwnerGoes(k, pc) == ownerPc' = [ownerPc EXCEPT ![k] = pc]

OwnerEnters(k) ==
  /\ OwnerAt(k, "created")
  /\ OwnerGoes(k, "starting")
  /\ UNCHANGED <<closed, owner, stop, ready, dropped, contents, executor, call, closing>>

OwnerServes(k) ==
  /\ OwnerAt(k, "starting") /\ Settled
  /\ OwnerGoes(k, "serving")
  /\ fetched' = fetched + 1 /\ catalog' = fetched + 1
  /\ client' = k
  /\ version' = version + 1
  /\ ready' = TRUE
  /\ UNCHANGED <<closed, owner, stop, dropped, executor, call, closing>>

\* The startup timeout, or an error of the SDK, before the connection serves.
OwnerFails(k) ==
  /\ OwnerAt(k, "starting")
  /\ OwnerGoes(k, "closing")
  /\ UNCHANGED <<closed, owner, stop, ready, dropped, contents, executor, call, closing>>

OwnerStops(k) ==
  /\ OwnerAt(k, "serving") /\ stop
  /\ OwnerGoes(k, "closing")
  /\ UNCHANGED <<closed, owner, stop, ready, dropped, contents, executor, call, closing>>

\* The SDK's context raises while the owner waits for _stop.  is_ready stays
\* true until the owner has left it.
OwnerDrops(k) ==
  /\ OwnerAt(k, "serving") /\ ~stop
  /\ OwnerGoes(k, "closing")
  /\ dropped' = TRUE
  /\ UNCHANGED <<closed, owner, stop, ready, contents, executor, call, closing>>

\* The finally of the owner.  A teardown that this client started, for a close or
\* an invalidation, is assumed not to end while a catalog is on its way to the
\* executor (Settled), whether it began before that or not: after the event it
\* waits for, the SDK has its streams, tasks and session to wind up.  A connection
\* the SDK ended by itself may have been winding up for long.
OwnerDoneUnversioned(k) ==
  /\ OwnerAt(k, "closing") /\ (dropped \/ Settled)
  /\ OwnerGoes(k, "done")
  /\ client' = 0 /\ catalog' = 0 /\ ready' = TRUE
  /\ UNCHANGED <<closed, owner, stop, dropped, version, fetched, executor,
                 call, closing>>
OwnerDoneSilent(k) ==
  /\ OwnerAt(k, "closing") /\ (dropped \/ Settled)
  /\ OwnerGoes(k, "done")
  /\ client' = 0 /\ catalog' = 0 /\ version' = version + 1
  /\ UNCHANGED <<closed, owner, stop, ready, dropped, fetched, executor,
                 call, closing>>
OwnerDone(k) ==
  /\ OwnerAt(k, "closing") /\ (dropped \/ Settled)
  /\ OwnerGoes(k, "done")
  /\ client' = 0 /\ catalog' = 0
  /\ version' = version + 1
  /\ ready' = TRUE
  /\ UNCHANGED <<closed, owner, stop, dropped, fetched, executor, call, closing>>

OwnerStep(k) ==
  OwnerEnters(k) \/ OwnerServes(k) \/ OwnerFails(k) \/ OwnerStops(k) \/ OwnerDone(k)

-----------------------------------------------------------------------------
(* Discovery: discover_tools, list_tools, _connect_locked *)

Arrives(c) ==
  /\ At(c, "idle") /\ At(Opener, "ended")
  /\ Goto(c, "attempt")
  /\ UNCHANGED <<closed, connection, contents, executor, closing>>

\* The beginning of an attempt: the version the call was validated against,
\* else the executor's catalog if it is current, else discovery.
Discovers(c) ==
  /\ At(c, "attempt")
  /\ IF c \in Refreshers THEN Goto(c, "list")
     ELSE IF call[c].ver = version THEN Goto(c, "slot")
     ELSE IF exCatalog # 0 /\ exVersion = version
     THEN Validated(c, exCatalog, exVersion)
     ELSE Goto(c, "list")
  /\ UNCHANGED <<closed, connection, contents, executor, closing>>

\* A new owner task with new events; the one before it is done.
Connects(c) ==
  /\ owner < MaxConnections
  /\ owner' = owner + 1
  /\ ownerPc' = [ownerPc EXCEPT ![owner + 1] = "created"]
  /\ stop' = FALSE /\ ready' = FALSE /\ dropped' = FALSE
  /\ Goto(c, "await_ready")

\* Discovery has the lock.  A refresh fetches again only on a connection that
\* was already there.
Lists(c) ==
  /\ At(c, "list") /\ LockFree
  /\ \/ /\ closed
        /\ DiscoveryFails(c) /\ UNCHANGED connection
     \/ /\ IsReady
        /\ IF c \in Refreshers
           THEN call' = [call EXCEPT ![c].pc = "fetch", ![c].client = client]
           ELSE Returned(c, catalog)
        /\ UNCHANGED connection
     \/ /\ ~closed /\ ~IsReady
        /\ IF owner # 0 /\ ~stop /\ ownerPc[owner] # "done"
           THEN Goto(c, "await_ready") /\ UNCHANGED connection
           ELSE IF owner # 0 /\ ownerPc[owner] # "done"
           THEN Goto(c, "await_owner") /\ UNCHANGED connection
           ELSE Connects(c)
  /\ UNCHANGED <<closed, contents, executor, closing>>

\* The last owner has ended.  The client may have been closed meanwhile.
OwnerAwaitedAtOnce(c) ==
  /\ At(c, "await_owner")
  /\ IF closed THEN DiscoveryFails(c) /\ UNCHANGED connection ELSE Connects(c)
  /\ UNCHANGED <<closed, contents, executor, closing>>
OwnerAwaitedUnchecked(c) ==
  /\ At(c, "await_owner") /\ ownerPc[owner] = "done"
  /\ Connects(c)
  /\ UNCHANGED <<closed, contents, executor, closing>>
OwnerAwaited(c) ==
  /\ At(c, "await_owner") /\ ownerPc[owner] = "done"
  /\ IF closed THEN DiscoveryFails(c) /\ UNCHANGED connection ELSE Connects(c)
  /\ UNCHANGED <<closed, contents, executor, closing>>

ReadyAwaited(c) ==
  /\ At(c, "await_ready") /\ ready
  /\ IF IsReady THEN Returned(c, catalog) ELSE DiscoveryFails(c)
  /\ UNCHANGED <<closed, connection, contents, executor, closing>>

\* The answer to a refresh.  Nothing checks that the client is still the
\* current one.
RefreshedUnversioned(c) ==
  /\ At(c, "fetch") /\ Settled /\ ownerPc[call[c].client] \in {"serving", "closing"}
  /\ fetched' = fetched + 1 /\ catalog' = fetched + 1
  /\ Returned(c, fetched + 1)
  /\ UNCHANGED <<closed, connection, version, client, executor, closing>>
Refreshed(c) ==
  /\ At(c, "fetch") /\ Settled /\ ownerPc[call[c].client] \in {"serving", "closing"}
  /\ fetched' = fetched + 1 /\ catalog' = fetched + 1
  /\ version' = version + 1
  /\ Returned(c, fetched + 1)
  /\ UNCHANGED <<closed, connection, client, executor, closing>>

RefreshFails(c) ==
  /\ At(c, "fetch")
  /\ DiscoveryFails(c)
  /\ Invalidate(call[c].client) \/ UNCHANGED <<connection, contents>>
  /\ UNCHANGED <<closed, executor, closing>>

\* discover_tools keeps the catalog it got with the version it reads now.
Discovered(c) ==
  /\ At(c, "unwinding")
  /\ IF c = Opener
     THEN Leaves(c, "ended") /\ UNCHANGED executor
     ELSE /\ exCatalog' = call[c].seen /\ exVersion' = version
          /\ IF c \in Refreshers THEN Leaves(c, "ended")
             ELSE Validated(c, call[c].seen, version)
  /\ UNCHANGED <<closed, connection, contents, closing>>

-----------------------------------------------------------------------------
(* call_tool *)

EntersUnbounded(c) ==
  /\ At(c, "slot")
  /\ Goto(c, "call")
  /\ UNCHANGED <<closed, connection, contents, executor, closing>>
Enters(c) ==
  /\ At(c, "slot") /\ Cardinality(InFlight) < MaxInFlight
  /\ Goto(c, "call")
  /\ UNCHANGED <<closed, connection, contents, executor, closing>>

\* Under the lock: the connection is ready and the catalog is the one the call
\* was validated against, and the request leaves; or nothing was sent.
Dispatches(c) ==
  /\ At(c, "call") /\ LockFree
  /\ IF IsReady /\ call[c].ver = version
     THEN call' = [call EXCEPT ![c].pc = "sent", ![c].client = client]
     ELSE Again(c)
  /\ UNCHANGED <<closed, connection, contents, executor, closing>>

Answered(c) ==
  /\ At(c, "sent") /\ ownerPc[call[c].client] \in {"serving", "closing"}
  /\ Leaves(c, "ended")
  /\ UNCHANGED <<closed, connection, contents, executor, closing>>

\* The SDK reports that the connection is lost.
Lost(c) ==
  /\ At(c, "sent")
  /\ Again(c)
  /\ Invalidate(call[c].client)
  /\ UNCHANGED <<closed, executor, closing>>

\* The watcher of cancellable ends a request whose connection is gone.
Interrupted(c) ==
  /\ call[c].pc \in InDiscovery \cup InCall
  /\ Interruption(call[c].client)
  /\ IF call[c].pc \in InDiscovery THEN DiscoveryFails(c) ELSE Again(c)
  /\ UNCHANGED <<closed, connection, contents, executor, closing>>

\* It ends a request for its timeout or its token at any time.
Aborted(c) ==
  /\ call[c].pc \in InDiscovery \cup InCall
  /\ IF call[c].pc \in InDiscovery THEN DiscoveryFails(c) ELSE Again(c)
  /\ UNCHANGED <<closed, connection, contents, executor, closing>>

\* What a caller does without a timeout or a cancellation.
CallerStep(c) ==
  \/ Discovers(c) \/ Lists(c) \/ OwnerAwaited(c) \/ ReadyAwaited(c)
  \/ Refreshed(c) \/ RefreshFails(c) \/ Discovered(c)
  \/ Enters(c) \/ Dispatches(c) \/ Answered(c) \/ Lost(c) \/ Interrupted(c)

-----------------------------------------------------------------------------
(* aclose *)

\* It cancels the owner's scope, which exists from the owner's first step.
CloseBegins ==
  /\ closing = "open" /\ call[Opener].pc \in {"ended", "failed"}
  /\ closed' = TRUE
  /\ closing' = "lock"
  /\ stop' = TRUE
  /\ IF owner # 0 /\ ownerPc[owner] \in {"starting", "serving"}
     THEN OwnerGoes(owner, "closing") ELSE UNCHANGED ownerPc
  /\ UNCHANGED <<owner, ready, dropped, contents, executor, call>>

CloseAwaits ==
  /\ closing = "lock" /\ LockFree
  /\ closing' = IF owner = 0 THEN "closed" ELSE "await"
  /\ UNCHANGED <<closed, connection, contents, executor, call>>

CloseEndsAtOnce ==
  /\ closing = "await"
  /\ owner' = 0 /\ closing' = "closed"
  /\ UNCHANGED <<closed, ownerPc, stop, ready, dropped, contents, executor, call>>
CloseEnds ==
  /\ closing = "await" /\ ownerPc[owner] = "done"
  /\ owner' = 0 /\ closing' = "closed"
  /\ UNCHANGED <<closed, ownerPc, stop, ready, dropped, contents, executor, call>>

CloseStep ==
  \/ CloseAwaits \/ CloseEnds
  \/ At(Opener, "failed") /\ CloseBegins

-----------------------------------------------------------------------------

\* __aenter__ has found the client closed and begins its discovery.
ClientInit ==
  /\ closed = FALSE /\ closing = "open"
  /\ version = 0 /\ catalog = 0 /\ client = 0 /\ fetched = 0
  /\ owner = 0 /\ ownerPc = [k \in Connections |-> "absent"]
  /\ stop = FALSE /\ ready = FALSE /\ dropped = FALSE
  /\ exCatalog = 0 /\ exVersion = -1
  /\ call = [c \in Processes |->
       NoCall(IF c = Opener THEN "list" ELSE "idle")]

ClientNext ==
  \/ \E k \in Connections : OwnerStep(k) \/ OwnerDrops(k)
  \/ \E c \in Processes : Arrives(c) \/ CallerStep(c) \/ Aborted(c)
  \/ CloseBegins \/ CloseStep

ClientSpec == ClientInit /\ [][ClientNext]_clientVars

\* The event loop runs what is ready; a server that does not answer is a
\* startup timeout or a lost request.  Timeouts, cancellations, dropped
\* connections and aclose need not happen.
FairClientSpec ==
  /\ ClientSpec
  /\ WF_clientVars(\E k \in Connections : OwnerStep(k))
  /\ \A c \in Processes : WF_clientVars(CallerStep(c))
  /\ WF_clientVars(CloseStep)

-----------------------------------------------------------------------------
(* Properties *)

\* A call leaves only with the catalog it was validated against, whatever
\* reconnections and refreshes came between the two (client.py:139).
DispatchedValidated ==
  [][\A c \in Callers :
       call[c].pc = "call" /\ call'[c].pc = "sent"
         => catalog # 0 /\ call[c].seen = catalog]_clientVars

\* Callers that reconnect together or time out on the way never have two
\* connections open (client.py:186, the "single lifecycle owner").
OneConnection ==
  \A j, k \in Connections :
    ownerPc[j] \in LiveOwner /\ ownerPc[k] \in LiveOwner => j = k

\* When aclose has returned no owner task is left, and none is made later,
\* whoever was connecting when it began (client.py:80, client.py:192).
ClosedForGood ==
  closing = "closed" => client = 0 /\ \A k \in Connections : ownerPc[k] \notin LiveOwner

\* An executor that takes its catalog for current, so that it will not discover
\* and reconnect, has a connection in the making or open; the exception is one
\* the SDK ended by itself while a catalog was on its way (executor.py:70).
Reconnects ==
  ~closed /\ exCatalog # 0 /\ exVersion = version
    => owner # 0 /\ (ownerPc[owner] \in LiveOwner \/ dropped)

\* A caller that waits for the lock, for an old connection to close, for a new
\* one to serve or fail, or for a place ends without its own timeout, provided
\* each request gets an answer or is lost (client.py:133, client.py:188).
CallersEnd == \A c \in Callers : At(c, "attempt") ~> At(c, "ended")

\* aclose comes to an end although callers hold the lock and wait for the
\* connection it takes away (client.py:78).
CloseCompletes == closing = "lock" ~> closing = "closed"
=============================================================================
