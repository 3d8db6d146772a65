--------------------------- MODULE McpClientProofs ---------------------------
(***************************************************************************)
(* Proofs about SDKMCPClient and the catalog of MCPToolExecutor            *)
(* (McpClient), for any callers, refreshers, places and connections, and   *)
(* whatever the server answers or drops.                                   *)
(*                                                                         *)
(* The inductive invariant is Typed, Locked, Owned, Stamped and Rows: one  *)
(* holder of the lock, one owner that is not done, a catalog that changes  *)
(* with its version only, and for every caller what its own place in the   *)
(* code lets it rely on.  Counted and Placed add the bounds.               *)
(***************************************************************************)
EXTENDS McpClient, FiniteSetTheorems, TLAPS

CallRows(cats, ver) ==
  [pc : CallPoints, seen : 0..cats, ver : -1..ver,
   client : 0..MaxConnections, attempt : 1..MaxAttempts]

\* ClientTypeOK without its bounds on the counters.
Shared ==
  /\ closed \in BOOLEAN
  /\ version \in Nat /\ fetched \in Nat
  /\ catalog \in 0..fetched /\ exCatalog \in 0..fetched
  /\ client \in {0, owner} /\ owner \in 0..MaxConnections
  /\ ownerPc \in [Connections -> LiveOwner \cup {"absent", "done"}]
  /\ stop \in BOOLEAN /\ ready \in BOOLEAN /\ dropped \in BOOLEAN
  /\ exVersion \in -1..version
  /\ closing \in {"open", "lock", "await", "closed"}
Typed == Shared /\ call \in [Processes -> CallRows(fetched, version)]

\* One caller at most holds the lock, and none once aclose waits under it.
Locked ==
  /\ closed <=> closing # "open"
  /\ closing \in {"await", "closed"} =>
       \A c \in Processes : call[c].pc \notin HoldsLock
  /\ \A c, d \in Processes :
       call[c].pc \in HoldsLock /\ call[d].pc \in HoldsLock => c = d

\* The last owner is the only one that is not done, and the client is its
\* client while it serves.
Owned ==
  /\ \A k \in Connections : ownerPc[k] \in LiveOwner => k = owner
  /\ closing # "closed" =>
       \A k \in Connections : ownerPc[k] = "absent" <=> k > owner
  /\ client # 0 =>
       owner # 0 /\ client = owner /\ ownerPc[owner] \in {"serving", "closing"}
  /\ closing = "await" => owner # 0
  /\ closing = "closed" => owner = 0
  /\ closed => stop

\* A connection is in the making or open, or the SDK ended it by itself.
Tended == owner # 0 /\ (ownerPc[owner] \in LiveOwner \/ dropped)

\* A catalog that is as old as the version is the present one, or the
\* connection has ended since.
Stamped ==
  /\ client # 0 => catalog # 0
  /\ exVersion = version => catalog \in {0, exCatalog}
  /\ Reconnects

\* What caller c can rely on with the local variables w.
RowOK(c, w) ==
  /\ w.pc \in {"await_owner", "await_ready"} => owner # 0
  /\ w.pc \in {"fetch", "sent"} => w.client # 0
  /\ w.pc = "fetch" => c \in Refreshers
  /\ w.ver = version => catalog \in {0, w.seen}
  /\ w.pc = "unwinding" => catalog \in {0, w.seen} /\ (closed \/ Tended)
Rows == \A c \in Processes : RowOK(c, call[c])

Sound == Typed /\ Locked /\ Owned /\ Stamped /\ Rows

-----------------------------------------------------------------------------
(* Steps of a caller *)

Moved(c, w) == call' = [call EXCEPT ![c] = w]

\* A caller that goes on keeps its local variables.
LEMMA Goes ==
  ASSUME Typed, NEW c \in Processes, NEW pc \in CallPoints, Goto(c, pc)
  PROVE  \E w \in CallRows(fetched, version) :
           /\ Moved(c, w)
           /\ w.pc = pc /\ w.seen = call[c].seen /\ w.ver = call[c].ver
           /\ w.client = call[c].client
<1> DEFINE w == [call[c] EXCEPT !.pc = pc]
<1>1. call[c] \in CallRows(fetched, version)
  BY DEF Typed
<1>2. w \in CallRows(fetched, version)
  BY <1>1 DEF CallRows
<1>3. /\ w.pc = pc /\ w.seen = call[c].seen /\ w.ver = call[c].ver
      /\ w.client = call[c].client
  BY <1>1 DEF CallRows
<1>4. Moved(c, w)
  BY DEF Goto, Moved
<1> QED
  BY <1>2, <1>3, <1>4

\* A caller that leaves forgets its local variables.
LEMMA Leaving ==
  ASSUME Typed, NEW c \in Processes, NEW pc \in CallPoints, Leaves(c, pc)
  PROVE  \E w \in CallRows(fetched, version) :
           Moved(c, w) /\ w.pc = pc /\ w.ver = -1
<1>1. NoCall(pc) \in CallRows(fetched, version)
  BY ClientBoundsAssumption DEF NoCall, CallRows, Typed, Shared
<1> QED
  BY <1>1 DEF Leaves, Moved, NoCall

\* Discovery that fails ends its caller.
LEMMA Failing ==
  ASSUME Typed, NEW c \in Processes, DiscoveryFails(c)
  PROVE  \E w \in CallRows(fetched, version) :
           /\ Moved(c, w) /\ w.ver = -1
           /\ w.pc \in {"failed", "ended"} /\ (c # Opener => w.pc = "ended")
<1>1. {"failed", "ended"} \subseteq CallPoints
  BY DEF CallPoints
<1> QED
  BY <1>1, Leaving DEF DiscoveryFails

\* A call that failed begins again or ends.
LEMMA Retrying ==
  ASSUME Typed, NEW c \in Processes, Again(c)
  PROVE  \E w \in CallRows(fetched, version) :
           /\ Moved(c, w)
           /\ \/ w.pc = "ended" /\ w.ver = -1
              \/ /\ w.pc = "attempt" /\ c \in RetrySafe
                 /\ w.seen = call[c].seen /\ w.ver = call[c].ver
<1> DEFINE w == [call[c] EXCEPT !.pc = "attempt", !.attempt = @ + 1, !.client = 0]
<1>1. call[c] \in CallRows(fetched, version)
  BY DEF Typed
<1>2. CASE Leaves(c, "ended")
  <2>1. "ended" \in CallPoints
    BY DEF CallPoints
  <2> QED
    BY <1>2, <2>1, Leaving
<1>3. CASE /\ c \in RetrySafe /\ call[c].attempt < MaxAttempts
           /\ call' = [call EXCEPT ![c].pc = "attempt", ![c].attempt = @ + 1,
                                   ![c].client = 0]
  <2>1. w \in CallRows(fetched, version)
    BY <1>1, <1>3, ClientBoundsAssumption
       DEF CallRows, CallPoints, Typed, Shared
  <2>2. w.pc = "attempt" /\ w.seen = call[c].seen /\ w.ver = call[c].ver
    BY <1>1 DEF CallRows
  <2>3. Moved(c, w)
    BY <1>3 DEF Moved, Typed
  <2> QED
    BY <1>3, <2>1, <2>2, <2>3
<1> QED
  BY <1>2, <1>3 DEF Again

\* list_tools gives its caller a catalog.
LEMMA Returning ==
  ASSUME Typed, NEW c \in Processes, NEW cat \in 0..fetched',
         fetched' \in Nat, fetched <= fetched', Returned(c, cat)
  PROVE  \E w \in CallRows(fetched', version) :
           /\ Moved(c, w)
           /\ w.pc = "unwinding" /\ w.seen = cat /\ w.ver = call[c].ver
<1> DEFINE w == [call[c] EXCEPT !.pc = "unwinding", !.seen = cat]
<1>1. call[c] \in CallRows(fetched, version)
  BY DEF Typed
<1>2. w \in CallRows(fetched', version)
  BY <1>1 DEF CallRows, CallPoints, InDiscovery, Typed, Shared
<1>3. w.pc = "unwinding" /\ w.seen = cat /\ w.ver = call[c].ver
  BY <1>1 DEF CallRows
<1>4. Moved(c, w)
  BY DEF Returned, Moved, Typed
<1> QED
  BY <1>2, <1>3, <1>4

\* A call that fits the catalog keeps it with the version.
LEMMA Validating ==
  ASSUME Typed, NEW c \in Processes, NEW cat \in 0..fetched,
         NEW ver \in -1..version, Validated(c, cat, ver)
  PROVE  \E w \in CallRows(fetched, version) :
           /\ Moved(c, w)
           /\ \/ w.pc = "ended" /\ w.ver = -1
              \/ w.pc = "slot" /\ w.seen = cat /\ w.ver = ver
<1> DEFINE w == [call[c] EXCEPT !.pc = "slot", !.seen = cat, !.ver = ver]
<1>1. call[c] \in CallRows(fetched, version)
  BY DEF Typed
<1>2. CASE Leaves(c, "ended")
  <2>1. "ended" \in CallPoints
    BY DEF CallPoints
  <2> QED
    BY <1>2, <2>1, Leaving
<1>3. CASE call' = [call EXCEPT ![c].pc = "slot", ![c].seen = cat, ![c].ver = ver]
  <2>1. w \in CallRows(fetched, version)
    BY <1>1 DEF CallRows, CallPoints, InCall
  <2>2. w.pc = "slot" /\ w.seen = cat /\ w.ver = ver
    BY <1>1 DEF CallRows
  <2>3. Moved(c, w)
    BY <1>3 DEF Moved, Typed
  <2> QED
    BY <2>1, <2>2, <2>3
<1> QED
  BY <1>2, <1>3 DEF Validated

\* The rows after a step of one caller.
LEMMA RowsMoved ==
  ASSUME Typed, NEW c \in Processes, fetched' \in Nat, version' \in Nat,
         fetched <= fetched', version <= version',
         NEW w \in CallRows(fetched', version'), Moved(c, w)
  PROVE  /\ call' \in [Processes -> CallRows(fetched', version')]
         /\ call'[c] = w
         /\ \A d \in Processes : d # c => call'[d] = call[d]
<1>1. \A d \in Processes : call[d] \in CallRows(fetched', version')
  BY DEF Typed, Shared, CallRows
<1> QED
  BY <1>1 DEF Moved, Typed

\* A caller gets the lock only when nobody has it and the client is open.
LEMMA LockMoved ==
  ASSUME Typed, Locked, NEW c \in Processes, NEW w, Moved(c, w),
         UNCHANGED <<closed, closing>>,
         w.pc \in HoldsLock => call[c].pc \in HoldsLock \/ (LockFree /\ ~closed)
  PROVE  Locked'
<1>1. /\ call'[c] = w
      /\ \A d \in Processes : d # c => call'[d] = call[d]
  BY DEF Moved, Typed
<1>2. CASE w.pc \in HoldsLock /\ call[c].pc \in HoldsLock
  BY <1>1, <1>2 DEF Locked
<1>3. CASE w.pc \in HoldsLock /\ LockFree /\ ~closed
  BY <1>1, <1>3 DEF Locked, LockFree
<1>4. CASE w.pc \notin HoldsLock
  BY <1>1, <1>4 DEF Locked
<1> QED
  BY <1>2, <1>3, <1>4

-----------------------------------------------------------------------------
(* Steps of a caller that keep Sound *)

\* What is shared, and what the other callers may still rely on.
Keeps(c) ==
  /\ fetched <= fetched' /\ version <= version'
  /\ Shared' /\ Owned' /\ Stamped'
  /\ \A d \in Processes : d # c => RowOK(d, call[d])'

\* A step of one caller keeps the invariant if its own row and what is shared
\* do.
LEMMA SoundStep ==
  ASSUME Sound, NEW c \in Processes, NEW w \in CallRows(fetched', version'),
         Moved(c, w), UNCHANGED <<closed, closing>>,
         Keeps(c), RowOK(c, w)',
         w.pc \in HoldsLock => call[c].pc \in HoldsLock \/ (LockFree /\ ~closed)
  PROVE  Sound'
<1>1. Locked'
  BY LockMoved DEF Sound
<1>2. fetched' \in Nat /\ version' \in Nat /\ fetched <= fetched' /\ version <= version'
  BY DEF Keeps, Shared
<1>3. /\ call' \in [Processes -> CallRows(fetched', version')]
      /\ call'[c] = w
  BY <1>2, RowsMoved DEF Sound
<1>4. Typed'
  BY <1>3 DEF Typed, Keeps
<1>5. RowOK(c, call[c])'
  BY <1>3 DEF RowOK, Tended
<1>6. Rows'
  BY <1>5 DEF Rows, Keeps
<1> QED
  BY <1>1, <1>4, <1>6 DEF Sound, Keeps

\* A step of one caller that changes nothing that is shared.
LEMMA QuietStep ==
  ASSUME Sound, NEW c \in Processes, NEW w \in CallRows(fetched, version),
         Moved(c, w), UNCHANGED <<closed, connection, contents, executor,
                                  closing>>,
         RowOK(c, w),
         w.pc \in HoldsLock => call[c].pc \in HoldsLock \/ (LockFree /\ ~closed)
  PROVE  Sound'
<1> USE DEF connection, contents, executor
<1>1. Shared'
  BY DEF Sound, Typed, Shared
<1>2. Owned'
  BY DEF Sound, Owned
<1>3. Stamped'
  BY DEF Sound, Stamped, Reconnects
<1>4. \A d \in Processes : d # c => call'[d] = call[d]
  BY DEF Moved, Sound, Typed
<1>5. \A d \in Processes : d # c => RowOK(d, call[d])'
  BY <1>4 DEF RowOK, Tended, Sound, Rows
<1>6. Keeps(c)
  BY <1>1, <1>2, <1>3, <1>5 DEF Keeps, Sound, Typed, Shared
<1>7. RowOK(c, w)'
  BY DEF RowOK, Tended
<1> QED
  BY <1>6, <1>7, SoundStep

\* A caller that gives up, or whose request is interrupted or answered.
LEMMA EndsSound ==
  ASSUME Sound, NEW c \in Processes,
         UNCHANGED <<closed, connection, contents, executor, closing>>,
         DiscoveryFails(c) \/ Again(c) \/ Leaves(c, "ended")
  PROVE  Sound'
<1>1. PICK w \in CallRows(fetched, version) :
        /\ Moved(c, w) /\ w.pc \in {"failed", "ended", "attempt"}
        /\ w.ver = -1 \/ (w.seen = call[c].seen /\ w.ver = call[c].ver)
  <2>1. CASE DiscoveryFails(c)
    BY <2>1, Failing DEF Sound
  <2>2. CASE Again(c)
    BY <2>2, Retrying DEF Sound
  <2>3. CASE Leaves(c, "ended")
    <3>1. "ended" \in CallPoints
      BY DEF CallPoints
    <3> QED
      BY <2>3, <3>1, Leaving DEF Sound
  <2> QED
    BY <2>1, <2>2, <2>3
<1>2. RowOK(c, call[c]) /\ version \in Nat
  BY DEF Sound, Rows, Typed, Shared
<1>3. RowOK(c, w)
  BY <1>1, <1>2 DEF RowOK
<1>4. w.pc \notin HoldsLock
  BY <1>1 DEF HoldsLock
<1> QED
  BY <1>1, <1>3, <1>4, QuietStep

\* A caller that only goes on.
LEMMA GoesSound ==
  ASSUME Sound, NEW c \in Processes, NEW pc \in {"attempt", "list", "slot", "call"},
         Goto(c, pc), UNCHANGED <<closed, connection, contents, executor,
                                  closing>>
  PROVE  Sound'
<1>1. pc \in CallPoints
  BY DEF CallPoints, InDiscovery, InCall
<1>2. PICK w \in CallRows(fetched, version) :
        /\ Moved(c, w)
        /\ w.pc = pc /\ w.seen = call[c].seen /\ w.ver = call[c].ver
  BY <1>1, Goes DEF Sound
<1>3. RowOK(c, call[c])
  BY DEF Sound, Rows
<1>4. RowOK(c, w)
  BY <1>2, <1>3 DEF RowOK
<1>5. w.pc \notin HoldsLock
  BY <1>2 DEF HoldsLock
<1> QED
  BY <1>2, <1>4, <1>5, QuietStep

\* A call that was validated against the executor's catalog.
LEMMA ValidatedSound ==
  ASSUME Sound, NEW c \in Processes, exVersion = version,
         Validated(c, exCatalog, exVersion),
         UNCHANGED <<closed, connection, contents, executor, closing>>
  PROVE  Sound'
<1>1. exCatalog \in 0..fetched /\ exVersion \in -1..version
  BY DEF Sound, Typed, Shared
<1>2. PICK w \in CallRows(fetched, version) :
           /\ Moved(c, w)
           /\ \/ w.pc = "ended" /\ w.ver = -1
              \/ w.pc = "slot" /\ w.seen = exCatalog /\ w.ver = exVersion
  BY <1>1, Validating DEF Sound
<1>3. catalog \in {0, exCatalog} /\ version \in Nat
  BY DEF Sound, Stamped, Typed, Shared
<1>4. RowOK(c, w)
  BY <1>2, <1>3 DEF RowOK
<1>5. w.pc \notin HoldsLock
  BY <1>2 DEF HoldsLock
<1> QED
  BY <1>2, <1>4, <1>5, QuietStep

\* list_tools returns the catalog of a ready connection.
LEMMA ReturnedSound ==
  ASSUME Sound, NEW c \in Processes, IsReady, Returned(c, catalog),
         UNCHANGED <<closed, connection, contents, executor, closing>>
  PROVE  Sound'
<1>1. catalog \in 0..fetched /\ fetched \in Nat /\ fetched' = fetched
  BY DEF Sound, Typed, Shared, contents
<1>2. PICK w \in CallRows(fetched, version) :
           /\ Moved(c, w)
           /\ w.pc = "unwinding" /\ w.seen = catalog /\ w.ver = call[c].ver
  BY <1>1, Returning DEF Sound
<1>3. Tended
  BY DEF Sound, Owned, IsReady, Tended, LiveOwner
<1>4. RowOK(c, w)
  BY <1>2, <1>3 DEF RowOK
<1>5. w.pc \notin HoldsLock
  BY <1>2 DEF HoldsLock
<1> QED
  BY <1>2, <1>4, <1>5, QuietStep

\* A caller that holds the lock makes the next connection.
LEMMA ConnectsSound ==
  ASSUME Sound, NEW c \in Processes, ~closed,
         owner = 0 \/ ownerPc[owner] = "done",
         call[c].pc \in HoldsLock \/ LockFree,
         Connects(c), UNCHANGED <<closed, contents, executor, closing>>
  PROVE  Sound'
<1> USE DEF contents, executor
<1>1. "await_ready" \in CallPoints
  BY DEF CallPoints, InDiscovery, HoldsLock
<1>2. PICK w \in CallRows(fetched, version) :
        /\ Moved(c, w)
        /\ w.pc = "await_ready" /\ w.seen = call[c].seen /\ w.ver = call[c].ver
  BY <1>1, Goes DEF Sound, Connects
<1>3. /\ owner \in 0..MaxConnections /\ owner + 1 \in Connections
      /\ owner' = owner + 1 /\ MaxConnections \in Nat
      /\ ownerPc \in [Connections -> LiveOwner \cup {"absent", "done"}]
  BY ClientBoundsAssumption DEF Sound, Typed, Shared, Connects, Connections
<1>4. /\ ownerPc' \in [Connections -> LiveOwner \cup {"absent", "done"}]
      /\ ownerPc'[owner'] = "created"
      /\ \A k \in Connections : k # owner' => ownerPc'[k] = ownerPc[k]
  BY <1>3 DEF Connects, LiveOwner
<1>5. client = 0
  BY DEF Sound, Owned
<1>6. Shared'
  <2>1. owner' \in 0..MaxConnections
    BY <1>3 DEF Connections
  <2>2. stop' \in BOOLEAN /\ ready' \in BOOLEAN /\ dropped' \in BOOLEAN
    BY DEF Connects
  <2> QED
    BY <1>4, <1>5, <2>1, <2>2 DEF Sound, Typed, Shared
<1>7. Tended'
  BY <1>3, <1>4 DEF Tended, LiveOwner
<1>8. \A k \in Connections : ownerPc[k] \notin LiveOwner
  BY <1>3 DEF Sound, Owned, LiveOwner, Connections
<1>9. closing = "open" /\ \A k \in Connections : ownerPc[k] = "absent" <=> k > owner
  BY DEF Sound, Locked, Owned, Typed, Shared
<1>10. \A k \in Connections : ownerPc'[k] = "absent" <=> k > owner'
  BY <1>3, <1>4, <1>9 DEF Connections
<1>11. Owned'
  BY <1>3, <1>4, <1>5, <1>8, <1>9, <1>10 DEF Owned
<1>12. Stamped'
  BY <1>7 DEF Sound, Stamped, Reconnects, Tended
<1>13. \A d \in Processes : d # c => call'[d] = call[d]
  BY <1>2 DEF Moved, Sound, Typed
<1>14. \A d \in Processes : d # c => RowOK(d, call[d])'
  <2> SUFFICES ASSUME NEW d \in Processes, d # c PROVE RowOK(d, call[d])'
    OBVIOUS
  <2>1. RowOK(d, call[d])
    BY DEF Sound, Rows
  <2>2. owner' # 0
    BY <1>3
  <2> QED
    BY <2>1, <2>2, <1>7, <1>13 DEF RowOK
<1>15. Keeps(c)
  BY <1>6, <1>11, <1>12, <1>14 DEF Keeps, Sound, Typed, Shared
<1>16. RowOK(c, w)'
  <2>1. RowOK(c, call[c])
    BY DEF Sound, Rows
  <2>2. owner' # 0
    BY <1>3
  <2> QED
    BY <1>2, <2>1, <2>2, <1>7 DEF RowOK
<1> QED
  BY <1>2, <1>15, <1>16, SoundStep

\* The connection a request belongs to was lost.
LEMMA InvalidatedSound ==
  ASSUME Sound, NEW c \in Processes, NEW w \in CallRows(fetched, version),
         Moved(c, w), w.pc \in {"failed", "ended", "attempt"},
         w.ver = -1 \/ (w.seen = call[c].seen /\ w.ver = call[c].ver),
         call[c].client # 0, Invalidate(call[c].client),
         UNCHANGED <<closed, executor, closing>>
  PROVE  Sound'
<1> USE DEF connection, contents, executor
<1>1. \/ UNCHANGED <<connection, contents>>
      \/ /\ client # 0 /\ version' = version + 1 /\ stop' = TRUE
         /\ UNCHANGED <<owner, ownerPc, ready, dropped, catalog, client,
                        fetched>>
  BY DEF Invalidate
<1>2. version \in Nat /\ fetched \in Nat /\ fetched' = fetched
      /\ version' \in Nat /\ version <= version'
      /\ (version' # version => version' = version + 1)
  BY <1>1 DEF Sound, Typed, Shared
<1>3. /\ UNCHANGED <<owner, ownerPc, ready, dropped, catalog, client, fetched>>
      /\ stop' = TRUE \/ stop' = stop
  BY <1>1
<1>4. Shared'
  <2>1. exVersion' \in -1..version'
    BY <1>2 DEF Sound, Typed, Shared
  <2> QED
    BY <1>2, <1>3, <2>1 DEF Sound, Typed, Shared
<1>5. Owned'
  BY <1>3 DEF Sound, Owned
<1>6. /\ exVersion' = version' => exVersion = version
      /\ \A d \in Processes : call[d].ver = version' => call[d].ver = version
  <2>1. \A d \in Processes : call[d].ver \in -1..version
    BY DEF Sound, Typed, CallRows
  <2> QED
    BY <1>2, <2>1 DEF Sound, Typed, Shared
<1>7. Stamped'
  BY <1>3, <1>6 DEF Sound, Stamped, Reconnects
<1>8. \A d \in Processes : d # c => call'[d] = call[d]
  BY DEF Moved, Sound, Typed
<1>9. \A d \in Processes : d # c => RowOK(d, call[d])'
  BY <1>3, <1>6, <1>8 DEF RowOK, Tended, Sound, Rows
<1>10. Keeps(c)
  BY <1>2, <1>4, <1>5, <1>7, <1>9 DEF Keeps
<1>11. RowOK(c, w)'
  <2>1. RowOK(c, call[c])
    BY DEF Sound, Rows
  <2>2. w.ver = version' => catalog \in {0, w.seen}
    BY <2>1, <1>2, <1>6 DEF RowOK
  <2> QED
    BY <2>2, <1>3 DEF RowOK
<1>12. w \in CallRows(fetched', version')
  BY <1>2 DEF CallRows
<1>13. w.pc \notin HoldsLock
  BY DEF HoldsLock
<1> QED
  BY <1>10, <1>11, <1>12, <1>13, SoundStep

\* The answer to a refresh changes the catalog and the version together.
LEMMA RefreshedSound ==
  ASSUME Sound, NEW c \in Processes, Refreshed(c)
  PROVE  Sound'
<1> USE DEF connection, executor
<1>1. /\ version \in Nat /\ fetched \in Nat
      /\ version' = version + 1 /\ fetched' = fetched + 1 /\ catalog' = fetched + 1
      /\ UNCHANGED <<closed, owner, ownerPc, stop, ready, dropped, client,
                     exCatalog, exVersion, closing>>
  BY DEF Sound, Typed, Shared, Refreshed
<1>2. fetched + 1 \in 0..fetched' /\ fetched' \in Nat /\ version' \in Nat
      /\ fetched <= fetched' /\ version <= version'
  BY <1>1
<1>3. PICK w \in CallRows(fetched', version) :
        /\ Moved(c, w)
        /\ w.pc = "unwinding" /\ w.seen = fetched + 1 /\ w.ver = call[c].ver
  BY <1>2, Returning DEF Sound, Refreshed
<1>4. w \in CallRows(fetched', version')
  BY <1>1 DEF CallRows
<1>5. Tended
  <2>1. At(c, "fetch") /\ ownerPc[call[c].client] \in {"serving", "closing"}
    BY DEF Refreshed
  <2>2. call[c].client \in Connections
    BY <2>1, ClientBoundsAssumption DEF At, Sound, Rows, RowOK, Typed,
       CallRows, Connections
  <2> QED
    BY <2>1, <2>2 DEF Sound, Owned, Tended, LiveOwner, Connections
<1>6. /\ exVersion # version'
      /\ \A d \in Processes : call[d].ver # version'
  <2>1. \A d \in Processes : call[d].ver \in -1..version
    BY DEF Sound, Typed, CallRows
  <2> QED
    BY <1>1, <2>1 DEF Sound, Typed, Shared
<1>7. Shared'
  <2>1. exVersion' \in -1..version' /\ exCatalog' \in 0..fetched'
    BY <1>1 DEF Sound, Typed, Shared
  <2> QED
    BY <1>1, <1>2, <2>1 DEF Sound, Typed, Shared
<1>8. Owned'
  BY <1>1 DEF Sound, Owned
<1>9. Stamped'
  <2>1. catalog' # 0
    BY <1>1
  <2> QED
    BY <1>1, <1>6, <2>1 DEF Stamped, Reconnects
<1>10. \A d \in Processes : d # c => call'[d] = call[d]
  BY <1>3 DEF Moved, Sound, Typed
<1>11. \A d \in Processes : call[d].pc # "unwinding"
  BY DEF Refreshed, Settled
<1>12. \A d \in Processes : d # c => RowOK(d, call[d])'
  BY <1>1, <1>6, <1>10, <1>11 DEF RowOK, Tended, Sound, Rows
<1>13. Keeps(c)
  BY <1>2, <1>7, <1>8, <1>9, <1>12 DEF Keeps
<1>14. RowOK(c, w)'
  BY <1>1, <1>3, <1>5, <1>6 DEF RowOK, Tended
<1>15. w.pc \notin HoldsLock
  BY <1>3 DEF HoldsLock
<1>16. UNCHANGED <<closed, closing>>
  BY <1>1
<1> QED
  BY <1>3, <1>4, <1>13, <1>14, <1>15, <1>16, SoundStep

\* discover_tools keeps the catalog with the version of the moment.
LEMMA DiscoveredSound ==
  ASSUME Sound, NEW c \in Processes, Discovered(c)
  PROVE  Sound'
<1> USE DEF connection, contents
<1>1. RowOK(c, call[c]) /\ call[c].pc = "unwinding"
  BY DEF Sound, Rows, Discovered, At
<1>2. /\ version \in Nat /\ fetched \in Nat
      /\ call[c].seen \in 0..fetched /\ version \in -1..version
      /\ UNCHANGED <<closed, connection, contents, closing>>
  BY DEF Sound, Typed, Shared, CallRows, Discovered
<1>3. "ended" \in CallPoints
  BY DEF CallPoints
<1>4. PICK w \in CallRows(fetched, version) :
        /\ Moved(c, w)
        /\ \/ w.pc = "ended" /\ w.ver = -1
           \/ w.pc = "slot" /\ w.seen = call[c].seen /\ w.ver = version
  <2>1. CASE Leaves(c, "ended")
    BY <2>1, <1>3, Leaving DEF Sound
  <2>2. CASE Validated(c, call[c].seen, version)
    BY <2>2, <1>2, Validating DEF Sound
  <2> QED
    BY <2>1, <2>2 DEF Discovered
<1>5. \/ UNCHANGED executor
      \/ exCatalog' = call[c].seen /\ exVersion' = version
  BY DEF Discovered
<1>6. Shared'
  BY <1>2, <1>5 DEF Sound, Typed, Shared, executor
<1>7. Owned'
  BY <1>2 DEF Sound, Owned
<1>8. Stamped'
  <2>1. CASE UNCHANGED executor
    BY <2>1, <1>2 DEF Sound, Stamped, Reconnects, executor
  <2>2. CASE exCatalog' = call[c].seen /\ exVersion' = version
    BY <2>2, <1>1, <1>2 DEF Sound, Stamped, Reconnects, RowOK, Tended
  <2> QED
    BY <2>1, <2>2, <1>5
<1>9. \A d \in Processes : d # c => call'[d] = call[d]
  BY <1>4 DEF Moved, Sound, Typed
<1>10. \A d \in Processes : d # c => RowOK(d, call[d])'
  BY <1>2, <1>9 DEF RowOK, Tended, Sound, Rows
<1>11. Keeps(c)
  BY <1>2, <1>6, <1>7, <1>8, <1>10 DEF Keeps
<1>12. RowOK(c, w)'
  BY <1>1, <1>2, <1>4 DEF RowOK, Tended
<1>13. w.pc \notin HoldsLock
  BY <1>4 DEF HoldsLock
<1>14. w \in CallRows(fetched', version')
  BY <1>2
<1> QED
  BY <1>2, <1>4, <1>11, <1>12, <1>13, <1>14, SoundStep

\* Discovery with the lock in hand.
LEMMA ListsSound ==
  ASSUME Sound, NEW c \in Processes, Lists(c)
  PROVE  Sound'
<1> USE DEF connection
<1>1. At(c, "list") /\ LockFree /\ UNCHANGED <<closed, contents, executor,
                                               closing>>
  BY DEF Lists
<1>2. CASE closed /\ DiscoveryFails(c) /\ UNCHANGED connection
  BY <1>1, <1>2, EndsSound
<1>3. CASE IsReady /\ UNCHANGED connection /\ c \notin Refreshers /\ Returned(c, catalog)
  BY <1>1, <1>3, ReturnedSound
<1>4. CASE /\ IsReady /\ UNCHANGED connection /\ c \in Refreshers
           /\ call' = [call EXCEPT ![c].pc = "fetch", ![c].client = client]
  <2> DEFINE w == [call[c] EXCEPT !.pc = "fetch", !.client = client]
  <2>1. call[c] \in CallRows(fetched, version)
    BY DEF Sound, Typed
  <2>2. w \in CallRows(fetched, version)
    <3>1. client \in 0..MaxConnections
      BY ClientBoundsAssumption DEF Sound, Typed, Shared
    <3> QED
      BY <2>1, <3>1 DEF CallRows, CallPoints, InDiscovery, HoldsLock
  <2>3. w.pc = "fetch" /\ w.ver = call[c].ver /\ w.seen = call[c].seen /\ w.client = client
    BY <2>1 DEF CallRows
  <2>4. Moved(c, w)
    BY <1>4 DEF Moved, Sound, Typed
  <2>5. RowOK(c, call[c])
    BY DEF Sound, Rows
  <2> HIDE DEF w
  <2>6. RowOK(c, w)
    BY <1>4, <2>3, <2>5 DEF RowOK, IsReady
  <2> QED
    BY <1>1, <1>4, <2>2, <2>4, <2>6, QuietStep DEF IsReady
<1>5. CASE /\ ~closed /\ ~IsReady /\ owner # 0 /\ ownerPc[owner] # "done"
           /\ \E pc \in {"await_owner", "await_ready"} : Goto(c, pc)
           /\ UNCHANGED connection
  <2>1. PICK pc \in {"await_owner", "await_ready"} : Goto(c, pc)
    BY <1>5
  <2>2. pc \in CallPoints
    BY DEF CallPoints, InDiscovery, HoldsLock
  <2>3. PICK w \in CallRows(fetched, version) :
           /\ Moved(c, w)
           /\ w.pc = pc /\ w.seen = call[c].seen /\ w.ver = call[c].ver
    BY <2>1, <2>2, Goes DEF Sound
  <2>4. RowOK(c, call[c])
    BY DEF Sound, Rows
  <2>5. RowOK(c, w)
    BY <1>5, <2>3, <2>4 DEF RowOK
  <2> QED
    BY <1>1, <1>5, <2>3, <2>5, QuietStep
<1>6. CASE ~closed /\ (owner = 0 \/ ownerPc[owner] = "done") /\ Connects(c)
  BY <1>1, <1>6, ConnectsSound
<1> QED
  <2>1. CASE ~closed /\ ~IsReady
    BY <2>1, <1>5, <1>6 DEF Lists
  <2>2. CASE IsReady
    BY <2>2, <1>2, <1>3, <1>4 DEF Lists
  <2>3. CASE closed
    BY <2>3, <1>2, <1>3, <1>4 DEF Lists
  <2> QED
    BY <2>1, <2>2, <2>3

\* Discovery goes on after the last owner has ended.
LEMMA OwnerAwaitedSound ==
  ASSUME Sound, NEW c \in Processes, OwnerAwaited(c)
  PROVE  Sound'
<1>1. CASE closed
  BY <1>1, EndsSound DEF OwnerAwaited
<1>2. CASE ~closed
  <2>1. call[c].pc \in HoldsLock
    BY DEF OwnerAwaited, At, HoldsLock
  <2> QED
    BY <1>2, <2>1, ConnectsSound DEF OwnerAwaited
<1> QED
  BY <1>1, <1>2

\* A request leaves, or nothing was sent.
LEMMA DispatchesSound ==
  ASSUME Sound, NEW c \in Processes, Dispatches(c)
  PROVE  Sound'
<1>1. UNCHANGED <<closed, connection, contents, executor, closing>>
  BY DEF Dispatches
<1>2. CASE IsReady /\ call' = [call EXCEPT ![c].pc = "sent", ![c].client = client]
  <2> DEFINE w == [call[c] EXCEPT !.pc = "sent", !.client = client]
  <2>1. call[c] \in CallRows(fetched, version)
    BY DEF Sound, Typed
  <2>2. w \in CallRows(fetched, version)
    <3>1. client \in 0..MaxConnections
      BY ClientBoundsAssumption DEF Sound, Typed, Shared
    <3> QED
      BY <2>1, <3>1 DEF CallRows, CallPoints, InCall
  <2>3. w.pc = "sent" /\ w.ver = call[c].ver /\ w.seen = call[c].seen /\ w.client = client
    BY <2>1 DEF CallRows
  <2>4. Moved(c, w)
    BY <1>2 DEF Moved, Sound, Typed
  <2>5. RowOK(c, call[c])
    BY DEF Sound, Rows
  <2> HIDE DEF w
  <2>6. RowOK(c, w)
    BY <1>2, <2>3, <2>5 DEF RowOK, IsReady
  <2>7. w.pc \notin HoldsLock
    BY <2>3 DEF HoldsLock
  <2> QED
    BY <1>1, <2>2, <2>4, <2>6, <2>7, QuietStep
<1>3. CASE Again(c)
  BY <1>1, <1>3, EndsSound
<1> QED
  BY <1>2, <1>3 DEF Dispatches

\* Every step of a caller keeps the invariant.
LEMMA CallerSound ==
  ASSUME Sound, NEW c \in Processes, Arrives(c) \/ CallerStep(c) \/ Aborted(c)
  PROVE  Sound'
<1>1. CASE Arrives(c)
  BY <1>1, GoesSound DEF Arrives
<1>2. CASE Discovers(c)
  BY <1>2, GoesSound, ValidatedSound DEF Discovers
<1>3. CASE Lists(c)
  BY <1>3, ListsSound
<1>4. CASE OwnerAwaited(c)
  BY <1>4, OwnerAwaitedSound
<1>5. CASE ReadyAwaited(c)
  BY <1>5, ReturnedSound, EndsSound DEF ReadyAwaited
<1>6. CASE Refreshed(c)
  BY <1>6, RefreshedSound
<1>7. CASE RefreshFails(c)
  <2>1. CASE UNCHANGED <<connection, contents>>
    BY <1>7, <2>1, EndsSound DEF RefreshFails
  <2>2. CASE Invalidate(call[c].client)
    <3>1. PICK w \in CallRows(fetched, version) :
            Moved(c, w) /\ w.ver = -1 /\ w.pc \in {"failed", "ended"}
      BY <1>7, Failing DEF RefreshFails, Sound
    <3>2. call[c].client # 0
      BY <1>7 DEF RefreshFails, At, Sound, Rows, RowOK
    <3> QED
      BY <1>7, <2>2, <3>1, <3>2, InvalidatedSound DEF RefreshFails
  <2> QED
    BY <1>7, <2>1, <2>2 DEF RefreshFails
<1>8. CASE Discovered(c)
  BY <1>8, DiscoveredSound
<1>9. CASE Enters(c)
  BY <1>9, GoesSound DEF Enters
<1>10. CASE Dispatches(c)
  BY <1>10, DispatchesSound
<1>11. CASE Answered(c)
  BY <1>11, EndsSound DEF Answered
<1>12. CASE Lost(c)
  <2>1. PICK w \in CallRows(fetched, version) :
           /\ Moved(c, w)
           /\ \/ w.pc = "ended" /\ w.ver = -1
              \/ w.pc = "attempt" /\ w.seen = call[c].seen /\ w.ver = call[c].ver
    BY <1>12, Retrying DEF Lost, Sound
  <2>2. call[c].client # 0
    BY <1>12 DEF Lost, At, Sound, Rows, RowOK
  <2> QED
    BY <1>12, <2>1, <2>2, InvalidatedSound DEF Lost
<1>13. CASE Interrupted(c) \/ Aborted(c)
  BY <1>13, EndsSound DEF Interrupted, Aborted
<1> QED
  BY <1>1, <1>2, <1>3, <1>4, <1>5, <1>6, <1>7, <1>8, <1>9, <1>10, <1>11,
     <1>12, <1>13 DEF CallerStep

-----------------------------------------------------------------------------
(* Steps of the owner and of aclose *)

\* A step that leaves the callers alone.
LEMMA OthersSound ==
  ASSUME Sound, UNCHANGED call, version <= version', fetched <= fetched',
         Shared', Owned', Stamped',
         closed' <=> closing' # "open",
         closing' \in {"await", "closed"} =>
           LockFree \/ closing \in {"await", "closed"},
         \A c \in Processes : RowOK(c, call[c]) => RowOK(c, call[c])'
  PROVE  Sound'
<1>1. call' \in [Processes -> CallRows(fetched', version')]
  <2>1. \A c \in Processes : call[c] \in CallRows(fetched', version')
    BY DEF Sound, Typed, Shared, CallRows
  <2> QED
    BY <2>1 DEF Sound, Typed
<1>2. Locked'
  BY DEF Sound, Locked, LockFree
<1>3. Rows'
  BY DEF Sound, Rows
<1> QED
  BY <1>1, <1>2, <1>3 DEF Sound, Typed

\* The owner of a connection that moves towards its end.
LEMMA OwnerGoesSound ==
  ASSUME Sound, NEW k \in Connections,
         NEW pc \in {"starting", "closing"}, OwnerGoes(k, pc),
         \/ OwnerAt(k, "created")
         \/ OwnerAt(k, "starting") /\ pc = "closing"
         \/ OwnerAt(k, "serving") /\ pc = "closing",
         dropped' = dropped \/ dropped' = TRUE,
         UNCHANGED <<closed, owner, stop, ready, contents, executor, call,
                     closing>>
  PROVE  Sound'
<1> USE DEF contents, executor
<1>1. k = owner
  BY DEF Sound, Owned, OwnerAt, LiveOwner
<1>2. /\ ownerPc' \in [Connections -> LiveOwner \cup {"absent", "done"}]
      /\ ownerPc'[k] = pc
      /\ \A j \in Connections : j # k => ownerPc'[j] = ownerPc[j]
  BY DEF Sound, Typed, Shared, OwnerGoes, LiveOwner
<1>3. Shared'
  <2>1. dropped' \in BOOLEAN
    BY DEF Sound, Typed, Shared
  <2> QED
    BY <1>2, <2>1 DEF Sound, Typed, Shared
<1>4. client # 0 => ownerPc[k] \in {"serving", "closing"} /\ client = owner
  BY <1>1 DEF Sound, Owned
<1>5. Owned'
  <2>1. ownerPc[k] \in LiveOwner /\ pc \in LiveOwner
    BY DEF OwnerAt, LiveOwner
  <2>2. client # 0 => pc \in {"serving", "closing"}
    BY <1>4 DEF OwnerAt
  <2>3. \A j \in Connections : ownerPc'[j] = "absent" <=> ownerPc[j] = "absent"
    BY <1>2, <2>1 DEF LiveOwner
  <2>4. \A j \in Connections : ownerPc'[j] \in LiveOwner => ownerPc[j] \in LiveOwner
    BY <1>2, <2>1
  <2> QED
    BY <1>1, <1>2, <2>2, <2>3, <2>4 DEF Sound, Owned
<1>6. Tended'
  BY <1>1, <1>2, ClientBoundsAssumption DEF Tended, LiveOwner, Connections
<1>7. Stamped'
  BY <1>6 DEF Sound, Stamped, Reconnects, Tended
<1>8. \A c \in Processes : RowOK(c, call[c]) => RowOK(c, call[c])'
  BY <1>6 DEF RowOK
<1>9. version <= version' /\ fetched <= fetched'
  BY DEF Sound, Typed, Shared
<1> QED
  BY <1>3, <1>5, <1>7, <1>8, <1>9, OthersSound DEF Sound, Locked

\* The connection begins to serve, with a new catalog and a new version.
LEMMA OwnerServesSound ==
  ASSUME Sound, NEW k \in Connections, OwnerServes(k)
  PROVE  Sound'
<1> USE DEF executor
<1>1. k = owner /\ k # 0
  BY DEF Sound, Owned, OwnerServes, OwnerAt, LiveOwner, Connections
<1>2. /\ ownerPc' \in [Connections -> LiveOwner \cup {"absent", "done"}]
      /\ ownerPc'[k] = "serving"
      /\ \A j \in Connections : j # k => ownerPc'[j] = ownerPc[j]
  BY DEF Sound, Typed, Shared, OwnerServes, OwnerGoes, LiveOwner
<1>3. /\ version \in Nat /\ fetched \in Nat
      /\ version' = version + 1 /\ fetched' = fetched + 1 /\ catalog' = fetched + 1
      /\ client' = k /\ ready' = TRUE
      /\ UNCHANGED <<closed, owner, stop, dropped, exCatalog, exVersion, call,
                     closing>>
  BY DEF Sound, Typed, Shared, OwnerServes
<1>4. /\ exVersion # version'
      /\ \A c \in Processes : call[c].ver # version'
  <2>1. \A c \in Processes : call[c].ver \in -1..version
    BY DEF Sound, Typed, CallRows
  <2> QED
    BY <1>3, <2>1 DEF Sound, Typed, Shared
<1>5. Shared'
  <2>1. exVersion' \in -1..version' /\ exCatalog' \in 0..fetched' /\ catalog' \in 0..fetched'
    BY <1>3 DEF Sound, Typed, Shared
  <2>2. version' \in Nat /\ fetched' \in Nat
    BY <1>3
  <2> QED
    BY <1>1, <1>2, <1>3, <2>1, <2>2 DEF Sound, Typed, Shared
<1>6. Owned'
  <2>1. ownerPc[k] = "starting"
    BY DEF OwnerServes, OwnerAt
  <2>2. \A j \in Connections : ownerPc'[j] = "absent" <=> ownerPc[j] = "absent"
    BY <1>2, <2>1
  <2>3. \A j \in Connections : ownerPc'[j] \in LiveOwner => ownerPc[j] \in LiveOwner
    BY <1>2, <2>1 DEF LiveOwner
  <2> QED
    BY <1>1, <1>2, <1>3, <2>2, <2>3 DEF Sound, Owned
<1>7. Stamped'
  <2>1. catalog' # 0
    BY <1>3
  <2> QED
    BY <1>3, <1>4, <2>1 DEF Stamped, Reconnects
<1>8. \A c \in Processes : call[c].pc # "unwinding"
  BY DEF OwnerServes, Settled
<1>9. \A c \in Processes : RowOK(c, call[c]) => RowOK(c, call[c])'
  BY <1>3, <1>4, <1>8 DEF RowOK
<1>10. version <= version' /\ fetched <= fetched'
  BY <1>3
<1> QED
  BY <1>3, <1>5, <1>6, <1>7, <1>9, <1>10, OthersSound DEF Sound, Locked

\* The connection has ended.
LEMMA OwnerDoneSound ==
  ASSUME Sound, NEW k \in Connections, OwnerDone(k)
  PROVE  Sound'
<1> USE DEF executor
<1>1. k = owner /\ k # 0
  BY DEF Sound, Owned, OwnerDone, OwnerAt, LiveOwner, Connections
<1>2. /\ ownerPc' \in [Connections -> LiveOwner \cup {"absent", "done"}]
      /\ ownerPc'[k] = "done"
      /\ \A j \in Connections : j # k => ownerPc'[j] = ownerPc[j]
  BY DEF Sound, Typed, Shared, OwnerDone, OwnerGoes
<1>3. /\ version \in Nat /\ version' = version + 1
      /\ catalog' = 0 /\ client' = 0 /\ ready' = TRUE
      /\ UNCHANGED <<closed, owner, stop, dropped, fetched, exCatalog,
                     exVersion, call, closing>>
  BY DEF Sound, Typed, Shared, OwnerDone
<1>4. /\ exVersion # version'
      /\ \A c \in Processes : call[c].ver # version'
  <2>1. \A c \in Processes : call[c].ver \in -1..version
    BY DEF Sound, Typed, CallRows
  <2> QED
    BY <1>3, <2>1 DEF Sound, Typed, Shared
<1>5. Shared'
  <2>1. exVersion' \in -1..version' /\ catalog' \in 0..fetched' /\ version' \in Nat
    BY <1>3 DEF Sound, Typed, Shared
  <2> QED
    BY <1>2, <1>3, <2>1 DEF Sound, Typed, Shared
<1>6. Owned'
  <2>1. ownerPc[k] = "closing"
    BY DEF OwnerDone, OwnerAt
  <2>2. \A j \in Connections : ownerPc'[j] = "absent" <=> ownerPc[j] = "absent"
    BY <1>2, <2>1
  <2>3. \A j \in Connections : ownerPc'[j] \in LiveOwner => ownerPc[j] \in LiveOwner
    BY <1>2, <2>1 DEF LiveOwner
  <2> QED
    BY <1>3, <2>2, <2>3 DEF Sound, Owned
<1>7. Stamped'
  BY <1>3, <1>4 DEF Stamped, Reconnects
<1>8. dropped \/ \A c \in Processes : call[c].pc # "unwinding"
  BY DEF OwnerDone, Settled
<1>9. \A c \in Processes : RowOK(c, call[c]) => RowOK(c, call[c])'
  BY <1>1, <1>3, <1>4, <1>8 DEF RowOK, Tended
<1>10. version <= version' /\ fetched <= fetched'
  BY <1>3 DEF Sound, Typed, Shared
<1> QED
  BY <1>3, <1>5, <1>6, <1>7, <1>9, <1>10, OthersSound DEF Sound, Locked

\* aclose ends the owner's connection.
LEMMA CloseBeginsSound ==
  ASSUME Sound, CloseBegins
  PROVE  Sound'
<1> USE DEF contents, executor
<1>1. /\ closed' = TRUE /\ closing' = "lock" /\ stop' = TRUE
      /\ UNCHANGED <<owner, ready, dropped, contents, executor, call>>
  BY DEF CloseBegins
<1>2. /\ ownerPc' \in [Connections -> LiveOwner \cup {"absent", "done"}]
      /\ \A k \in Connections :
           \/ ownerPc'[k] = ownerPc[k]
           \/ /\ k = owner /\ ownerPc[k] \in {"starting", "serving"}
              /\ ownerPc'[k] = "closing"
  <2>1. CASE /\ owner # 0 /\ OwnerGoes(owner, "closing")
               /\ ownerPc[owner] \in {"starting", "serving"}
    <3>1. owner \in Connections
      BY <2>1, ClientBoundsAssumption DEF Sound, Typed, Shared, Connections
    <3> QED
      BY <2>1, <3>1 DEF Sound, Typed, Shared, OwnerGoes, LiveOwner
  <2>2. CASE UNCHANGED ownerPc
    BY <2>2 DEF Sound, Typed, Shared
  <2> QED
    BY <2>1, <2>2 DEF CloseBegins
<1>3. Shared'
  BY <1>1, <1>2 DEF Sound, Typed, Shared
<1>4. Owned'
  <2>1. \A k \in Connections : ownerPc'[k] = "absent" <=> ownerPc[k] = "absent"
    BY <1>2
  <2>2. \A k \in Connections : ownerPc'[k] \in LiveOwner => ownerPc[k] \in LiveOwner
    BY <1>2 DEF LiveOwner
  <2>3. closing = "open"
    BY DEF CloseBegins
  <2>4. client # 0 => owner \in Connections
    BY ClientBoundsAssumption DEF Sound, Typed, Shared, Connections
  <2>5. client # 0 => owner # 0 /\ client = owner /\ ownerPc'[owner] \in {"serving", "closing"}
    BY <1>2, <2>4 DEF Sound, Owned
  <2> QED
    BY <1>1, <2>1, <2>2, <2>3, <2>5 DEF Sound, Owned
<1>5. Stamped'
  BY <1>1 DEF Sound, Stamped, Reconnects
<1>6. \A c \in Processes : RowOK(c, call[c]) => RowOK(c, call[c])'
  BY <1>1 DEF RowOK
<1>7. version <= version' /\ fetched <= fetched'
  BY DEF Sound, Typed, Shared, CloseBegins
<1> QED
  BY <1>1, <1>3, <1>4, <1>5, <1>6, <1>7, OthersSound

\* aclose waits for the owner, and forgets it.
LEMMA CloseGoesSound ==
  ASSUME Sound, CloseAwaits \/ CloseEnds
  PROVE  Sound'
<1> USE DEF connection, contents, executor
<1>1. /\ closing # "open" /\ closed
      /\ closing' \in {"await", "closed"}
      /\ LockFree \/ closing = "await"
      /\ UNCHANGED <<closed, ownerPc, stop, ready, dropped, contents, executor,
                     call>>
  BY DEF CloseAwaits, CloseEnds, Sound, Locked
<1>2. \/ owner' = owner /\ (closing' = "closed" => owner = 0)
         /\ (closing' = "await" => owner # 0) /\ closing = "lock"
      \/ owner' = 0 /\ closing' = "closed" /\ closing = "await" /\ ownerPc[owner] = "done"
  BY DEF CloseAwaits, CloseEnds
<1>3. owner' = 0 => client = 0 /\ \A k \in Connections : ownerPc[k] \notin LiveOwner
  BY <1>2 DEF Sound, Owned, LiveOwner, Connections
<1>4. Shared'
  <2>1. owner' \in 0..MaxConnections /\ client' \in {0, owner'}
    BY <1>1, <1>2, <1>3, ClientBoundsAssumption DEF Sound, Typed, Shared
  <2> QED
    BY <1>1, <2>1 DEF Sound, Typed, Shared
<1>5. Owned'
  BY <1>1, <1>2, <1>3 DEF Sound, Owned
<1>6. Stamped'
  BY <1>1 DEF Sound, Stamped, Reconnects
<1>7. \A c \in Processes : call[c].pc \notin HoldsLock
  BY <1>1 DEF Sound, Locked, LockFree
<1>8. \A c \in Processes : RowOK(c, call[c]) => RowOK(c, call[c])'
  BY <1>1, <1>7 DEF RowOK, HoldsLock
<1>9. version <= version' /\ fetched <= fetched'
  BY <1>1 DEF Sound, Typed, Shared
<1>10. closed' <=> closing' # "open"
  BY <1>1
<1> QED
  BY <1>1, <1>4, <1>5, <1>6, <1>8, <1>9, <1>10, OthersSound

\* Every step of an owner keeps the invariant.
LEMMA OwnerSound ==
  ASSUME Sound, NEW k \in Connections, OwnerStep(k) \/ OwnerDrops(k)
  PROVE  Sound'
<1>1. CASE OwnerEnters(k)
  BY <1>1, OwnerGoesSound DEF OwnerEnters
<1>2. CASE OwnerServes(k)
  BY <1>2, OwnerServesSound
<1>3. CASE OwnerFails(k)
  BY <1>3, OwnerGoesSound DEF OwnerFails
<1>4. CASE OwnerStops(k)
  BY <1>4, OwnerGoesSound DEF OwnerStops
<1>5. CASE OwnerDone(k)
  BY <1>5, OwnerDoneSound
<1>6. CASE OwnerDrops(k)
  BY <1>6, OwnerGoesSound DEF OwnerDrops
<1> QED
  BY <1>1, <1>2, <1>3, <1>4, <1>5, <1>6 DEF OwnerStep

-----------------------------------------------------------------------------
(* The invariant holds *)

\* Nothing has happened yet.
LEMMA InitSound == ClientInit => Sound
<1> SUFFICES ASSUME ClientInit PROVE Sound
  OBVIOUS
<1>1. /\ closed = FALSE /\ closing = "open"
      /\ version = 0 /\ catalog = 0 /\ client = 0 /\ fetched = 0 /\ owner = 0
      /\ ownerPc = [k \in Connections |-> "absent"]
      /\ stop = FALSE /\ ready = FALSE /\ dropped = FALSE
      /\ exCatalog = 0 /\ exVersion = -1
  BY DEF ClientInit
<1>2. \A pc \in {"list", "idle"} : NoCall(pc) \in CallRows(0, 0)
  BY ClientBoundsAssumption DEF NoCall, CallRows, CallPoints, InDiscovery
<1>3. \A c \in Processes :
        call[c] \in {NoCall("list"), NoCall("idle")}
  BY DEF ClientInit
<1>4. call \in [Processes -> CallRows(0, 0)]
  BY <1>2 DEF ClientInit
<1>5. Typed
  <2>1. call \in [Processes -> CallRows(fetched, version)]
    BY <1>1, <1>4
  <2>2. Shared
    <3>1. ownerPc \in [Connections -> LiveOwner \cup {"absent", "done"}]
      BY <1>1
    <3>2. 0 \in 0..MaxConnections /\ -1 \in -1..0 /\ 0 \in 0..0
      BY ClientBoundsAssumption
    <3> QED
      BY <1>1, <3>1, <3>2 DEF Shared
  <2> QED
    BY <2>1, <2>2 DEF Typed
<1>6. \A c \in Processes : call[c].pc \in {"list", "idle"} /\ call[c].ver = -1
  BY <1>3 DEF NoCall
<1>7. Locked
  BY <1>1, <1>6 DEF Locked, HoldsLock
<1>8. Owned
  BY <1>1, ClientBoundsAssumption DEF Owned, Connections, LiveOwner
<1>9. Stamped
  BY <1>1 DEF Stamped, Reconnects
<1>10. Rows
  BY <1>1, <1>6 DEF Rows, RowOK
<1> QED
  BY <1>5, <1>7, <1>8, <1>9, <1>10 DEF Sound

\* Every step keeps the invariant.
LEMMA StepSound == Sound /\ [ClientNext]_clientVars => Sound'
<1> SUFFICES ASSUME Sound, [ClientNext]_clientVars PROVE Sound'
  OBVIOUS
<1>1. CASE \E k \in Connections : OwnerStep(k) \/ OwnerDrops(k)
  BY <1>1, OwnerSound
<1>2. CASE \E c \in Processes : Arrives(c) \/ CallerStep(c) \/ Aborted(c)
  BY <1>2, CallerSound
<1>3. CASE CloseBegins \/ CloseStep
  BY <1>3, CloseBeginsSound, CloseGoesSound DEF CloseStep
<1>4. CASE UNCHANGED clientVars
  <2> USE <1>4 DEF clientVars, connection, contents, executor
  <2>1. Typed' /\ Locked'
    BY DEF Sound, Typed, Shared, Locked
  <2>2. Owned' /\ Stamped'
    BY DEF Sound, Owned, Stamped, Reconnects
  <2>3. Rows'
    BY DEF Sound, Rows, RowOK, Tended
  <2> QED
    BY <2>1, <2>2, <2>3 DEF Sound
<1> QED
  BY <1>1, <1>2, <1>3, <1>4 DEF ClientNext

\* The lock, the owner, the catalog and what every caller relies on are
\* consistent in every reachable state.
THEOREM ClientSound == ClientSpec => []Sound
<1> QED
  BY InitSound, StepSound, PTL DEF ClientSpec

\* There are never two connections open, whoever connects or times out on the
\* way (client.py:186).
THEOREM NeverTwoConnections == ClientSpec => []OneConnection
<1>1. Sound => OneConnection
  BY DEF Sound, Owned, OneConnection
<1> QED
  BY <1>1, ClientSound, PTL

\* When aclose has returned no owner is left and none is made later
\* (client.py:80, client.py:192).
THEOREM ClosedStaysClosed == ClientSpec => []ClosedForGood
<1>1. Sound => ClosedForGood
  BY DEF Sound, Typed, Shared, Owned, ClosedForGood, Connections
<1> QED
  BY <1>1, ClientSound, PTL

\* An executor that takes its catalog for current has a connection, or lost it
\* to the SDK (executor.py:70).
THEOREM CatalogsAreTended == ClientSpec => []Reconnects
<1>1. Sound => Reconnects
  BY DEF Sound, Stamped
<1> QED
  BY <1>1, ClientSound, PTL

-----------------------------------------------------------------------------
(* Where the steps of a caller lead *)

\* A request is sent by Dispatches, which has a place; a place is taken by
\* Enters; a refresh that was answered is not sent again.
Leads(c, w) ==
  /\ w.pc = "sent" => At(c, "call") /\ IsReady /\ call[c].ver = version
  /\ w.pc = "call" => At(c, "slot") /\ Cardinality(InFlight) < MaxInFlight
  /\ c \in Refreshers /\ call[c].pc \in {"unwinding", "ended"} => w.pc = "ended"

\* The row of a caller after any of its steps.
LEMMA CallerMoves ==
  ASSUME Sound, NEW c \in Processes, Arrives(c) \/ CallerStep(c) \/ Aborted(c)
  PROVE  \E w : Moved(c, w) /\ Leads(c, w)
<1> DEFINE Goal == \E w : Moved(c, w) /\ Leads(c, w)
<1>1. ASSUME NEW pc, Goto(c, pc), pc \notin {"sent", "call"},
             call[c].pc \notin {"unwinding", "ended"}
      PROVE  Goal
  <2> DEFINE w == [call[c] EXCEPT !.pc = pc]
  <2>1. Moved(c, w)
    BY <1>1 DEF Goto, Moved
  <2>2. w.pc = pc
    BY DEF Sound, Typed, CallRows
  <2> QED
    BY <1>1, <2>1, <2>2 DEF Leads
<1>2. ASSUME DiscoveryFails(c) PROVE Goal
  <2>1. PICK w \in CallRows(fetched, version) :
          /\ Moved(c, w)
          /\ w.pc \in {"failed", "ended"} /\ (c # Opener => w.pc = "ended")
    BY <1>2, Failing DEF Sound
  <2> QED
    BY <2>1, ProcessesAssumption DEF Leads
<1>3. ASSUME Leaves(c, "ended") PROVE Goal
  <2> DEFINE w == NoCall("ended")
  <2>1. Moved(c, w) /\ w.pc = "ended"
    BY <1>3 DEF Leaves, Moved, NoCall
  <2> HIDE DEF w
  <2> QED
    BY <2>1 DEF Leads
<1>4. ASSUME Again(c), call[c].pc \notin {"unwinding", "ended"} PROVE Goal
  <2>1. PICK w \in CallRows(fetched, version) :
          Moved(c, w) /\ w.pc \in {"ended", "attempt"}
    BY <1>4, Retrying DEF Sound
  <2> QED
    BY <1>4, <2>1 DEF Leads
<1>5. ASSUME NEW cat, Returned(c, cat), call[c].pc \notin {"unwinding", "ended"}
      PROVE  Goal
  <2> DEFINE w == [call[c] EXCEPT !.pc = "unwinding", !.seen = cat]
  <2>1. Moved(c, w)
    BY <1>5 DEF Returned, Moved, Sound, Typed
  <2>2. w.pc = "unwinding"
    BY DEF Sound, Typed, CallRows
  <2> HIDE DEF w
  <2> QED
    BY <1>5, <2>1, <2>2 DEF Leads
<1>6. ASSUME NEW cat, NEW ver, Validated(c, cat, ver), c \notin Refreshers
      PROVE  Goal
  <2> DEFINE w == [call[c] EXCEPT !.pc = "slot", !.seen = cat, !.ver = ver]
  <2>1. CASE Leaves(c, "ended")
    BY <1>3, <2>1
  <2>2. CASE call' = [call EXCEPT ![c].pc = "slot", ![c].seen = cat, ![c].ver = ver]
    <3>1. Moved(c, w)
      BY <2>2 DEF Moved, Sound, Typed
    <3>2. w.pc = "slot"
      BY DEF Sound, Typed, CallRows
    <3> HIDE DEF w
    <3> QED
      BY <1>6, <3>1, <3>2 DEF Leads
  <2> QED
    BY <1>6, <2>1, <2>2 DEF Validated
<1>7. CASE Arrives(c)
  BY <1>7, <1>1 DEF Arrives, At
<1>8. CASE Discovers(c)
  BY <1>8, <1>1, <1>6 DEF Discovers, At
<1>9. CASE Lists(c)
  <2>1. call[c].pc = "list"
    BY <1>9 DEF Lists, At
  <2>2. CASE IsReady /\ call' = [call EXCEPT ![c].pc = "fetch", ![c].client = client]
    <3> DEFINE w == [call[c] EXCEPT !.pc = "fetch", !.client = client]
    <3>1. Moved(c, w)
      BY <2>2 DEF Moved, Sound, Typed
    <3>2. w.pc = "fetch"
      BY DEF Sound, Typed, CallRows
    <3> HIDE DEF w
    <3> QED
      BY <2>1, <3>1, <3>2 DEF Leads
  <2> QED
    BY <1>9, <1>1, <1>2, <1>5, <2>1, <2>2 DEF Lists, Connects
<1>10. CASE OwnerAwaited(c)
  BY <1>10, <1>1, <1>2 DEF OwnerAwaited, At, Connects
<1>11. CASE ReadyAwaited(c)
  BY <1>11, <1>2, <1>5 DEF ReadyAwaited, At
<1>12. CASE Refreshed(c)
  BY <1>12, <1>5 DEF Refreshed, At
<1>13. CASE RefreshFails(c)
  BY <1>13, <1>2 DEF RefreshFails
<1>14. CASE Discovered(c)
  BY <1>14, <1>3, <1>6 DEF Discovered
<1>15. CASE Enters(c)
  <2> DEFINE w == [call[c] EXCEPT !.pc = "call"]
  <2>1. Moved(c, w)
    BY <1>15 DEF Enters, Goto, Moved
  <2>2. w.pc = "call"
    BY DEF Sound, Typed, CallRows
  <2> HIDE DEF w
  <2> QED
    BY <1>15, <2>1, <2>2 DEF Leads, Enters, At
<1>16. CASE Dispatches(c)
  <2>1. CASE /\ IsReady /\ call[c].ver = version
             /\ call' = [call EXCEPT ![c].pc = "sent", ![c].client = client]
    <3> DEFINE w == [call[c] EXCEPT !.pc = "sent", !.client = client]
    <3>1. Moved(c, w)
      BY <2>1 DEF Moved, Sound, Typed
    <3>2. w.pc = "sent"
      BY DEF Sound, Typed, CallRows
    <3> HIDE DEF w
    <3> QED
      BY <1>16, <2>1, <3>1, <3>2 DEF Leads, Dispatches, At
  <2> QED
    BY <1>16, <1>4, <2>1 DEF Dispatches, At
<1>17. CASE Answered(c)
  BY <1>17, <1>3 DEF Answered
<1>18. CASE Lost(c)
  BY <1>18, <1>4 DEF Lost, At
<1>19. CASE Interrupted(c) \/ Aborted(c)
  BY <1>19, <1>2, <1>4 DEF Interrupted, Aborted, InCall
<1> QED
  BY <1>7, <1>8, <1>9, <1>10, <1>11, <1>12, <1>13, <1>14, <1>15, <1>16,
     <1>17, <1>18, <1>19 DEF CallerStep

\* Only the callers' own steps move them.
LEMMA WhoMoves ==
  ASSUME [ClientNext]_clientVars
  PROVE  \/ UNCHANGED call
         \/ \E c \in Processes : Arrives(c) \/ CallerStep(c) \/ Aborted(c)
<1>1. ASSUME NEW k \in Connections, OwnerStep(k) \/ OwnerDrops(k)
      PROVE  call' = call
  BY <1>1 DEF OwnerStep, OwnerEnters, OwnerServes, OwnerFails, OwnerStops,
              OwnerDone, OwnerDrops
<1>2. CloseBegins \/ CloseStep => call' = call
  BY DEF CloseBegins, CloseStep, CloseAwaits, CloseEnds
<1> QED
  BY <1>1, <1>2 DEF ClientNext, clientVars

\* A request leaves only with the catalog it was validated against
\* (client.py:139).
THEOREM DispatchesValidated == ClientSpec => DispatchedValidated
<1> DEFINE Checked ==
      \A c \in Callers :
        call[c].pc = "call" /\ call'[c].pc = "sent"
          => catalog # 0 /\ call[c].seen = catalog
<1>1. Sound /\ [ClientNext]_clientVars => [Checked]_clientVars
  <2> SUFFICES ASSUME Sound, [ClientNext]_clientVars,
                      NEW c \in Callers, call[c].pc = "call", call'[c].pc = "sent"
               PROVE  catalog # 0 /\ call[c].seen = catalog
    OBVIOUS
  <2>1. c \in Processes /\ call[c] \in CallRows(fetched, version)
    BY DEF Processes, Sound, Typed
  <2>2. PICK d \in Processes : Arrives(d) \/ CallerStep(d) \/ Aborted(d)
    BY WhoMoves
  <2>3. PICK w : Moved(d, w) /\ Leads(d, w)
    BY <2>2, CallerMoves
  <2>4. d = c /\ w.pc = "sent"
    BY <2>1, <2>3 DEF Moved, Sound, Typed
  <2>5. IsReady /\ call[c].ver = version
    BY <2>3, <2>4 DEF Leads
  <2>6. RowOK(c, call[c])
    BY <2>1 DEF Sound, Rows
  <2> QED
    BY <2>5, <2>6 DEF RowOK, IsReady, Sound, Stamped
<1> QED
  BY <1>1, ClientSound, PTL DEF ClientSpec, DispatchedValidated

-----------------------------------------------------------------------------
(* Requests in flight, and how far the counters go *)

\* No more requests are in flight than there are places.
Placed == Cardinality(InFlight) <= MaxInFlight

\* Refreshes that were answered, or are over.
Refreshes == {c \in Refreshers : call[c].pc \in {"unwinding", "ended"}}

\* Connections begun; the versions and catalogs the last one may still add.
Made == IF closing = "closed" THEN MaxConnections ELSE owner
Left ==
  IF owner = 0 \/ ownerPc[owner] = "done" THEN 0
  ELSE IF ownerPc[owner] \in {"created", "starting"} THEN 3
  ELSE IF stop THEN 1 ELSE 2
Unfetched ==
  IF owner # 0 /\ ownerPc[owner] \in {"created", "starting"} THEN 1 ELSE 0

Counted ==
  /\ version + Left <= 3 * Made + Cardinality(Refreshes)
  /\ fetched + Unfetched <= Made + Cardinality(Refreshes)

\* There are finitely many callers.
LEMMA Finite ==
  /\ IsFiniteSet(Processes)
  /\ IsFiniteSet(Refreshers) /\ Cardinality(Refreshers) \in Nat
  /\ IsFiniteSet(Refreshes) /\ Cardinality(Refreshes) \in Nat
  /\ Cardinality(Refreshes) <= Cardinality(Refreshers)
<1>1. IsFiniteSet({Opener}) /\ IsFiniteSet(Callers) /\ IsFiniteSet(Refreshers)
  BY FS_Singleton, ProcessesAssumption
<1>2. IsFiniteSet(Callers \cup Refreshers)
  BY <1>1, FS_Union
<1>3. IsFiniteSet(Processes)
  BY <1>1, <1>2, FS_Union DEF Processes
<1>4. Refreshes \subseteq Refreshers
  BY DEF Refreshes
<1>5. IsFiniteSet(Refreshes) /\ Cardinality(Refreshes) <= Cardinality(Refreshers)
  BY <1>1, <1>4, FS_Subset
<1> QED
  BY <1>1, <1>3, <1>5, FS_CardinalityType

\* A place is taken only while one is free (client.py:130).
LEMMA StepPlaced == Sound /\ Placed /\ [ClientNext]_clientVars => Placed'
<1> SUFFICES ASSUME Sound, Placed, [ClientNext]_clientVars PROVE Placed'
  OBVIOUS
<1>1. IsFiniteSet(InFlight) /\ Cardinality(InFlight) \in Nat
  <2>1. InFlight \subseteq Processes
    BY DEF InFlight
  <2> QED
    BY <2>1, Finite, FS_Subset, FS_CardinalityType
<1>2. CASE UNCHANGED call
  BY <1>2 DEF Placed, InFlight
<1>3. ASSUME NEW c \in Processes, Arrives(c) \/ CallerStep(c) \/ Aborted(c)
      PROVE  Placed'
  <2>1. PICK w : Moved(c, w) /\ Leads(c, w)
    BY <1>3, CallerMoves
  <2>2. call'[c] = w /\ \A d \in Processes : d # c => call'[d] = call[d]
    BY <2>1 DEF Moved, Sound, Typed
  <2>3. PICK old : old = InFlight
    OBVIOUS
  <2>4. PICK new : new = InFlight'
    OBVIOUS
  <2>5. CASE w.pc = "call"
    <3>1. new \subseteq old \cup {c} /\ c \notin old
      BY <2>1, <2>2, <2>3, <2>4, <2>5 DEF InFlight, Leads, At
    <3>2. Cardinality(old) < MaxInFlight
      BY <2>1, <2>3, <2>5 DEF Leads
    <3>3. /\ IsFiniteSet(old \cup {c})
          /\ Cardinality(old \cup {c}) = Cardinality(old) + 1
      BY <1>1, <2>3, <3>1, FS_AddElement
    <3>4. Cardinality(new) <= Cardinality(old) + 1 /\ Cardinality(new) \in Nat
      BY <3>1, <3>3, FS_Subset, FS_CardinalityType
    <3> QED
      BY <1>1, <2>3, <2>4, <3>2, <3>4, ClientBoundsAssumption DEF Placed
  <2>6. CASE w.pc # "call"
    <3>1. new \subseteq old
      BY <2>1, <2>2, <2>3, <2>4, <2>6 DEF InFlight, Leads, At
    <3>2. Cardinality(new) <= Cardinality(old) /\ Cardinality(new) \in Nat
      BY <1>1, <2>3, <3>1, FS_Subset, FS_CardinalityType
    <3> QED
      BY <1>1, <2>3, <2>4, <3>2, ClientBoundsAssumption DEF Placed
  <2> QED
    BY <2>5, <2>6
<1> QED
  BY <1>2, <1>3, WhoMoves

\* Answered refreshes only grow, and a refresh that is answered adds one.
LEMMA RefreshCounts ==
  ASSUME Sound, [ClientNext]_clientVars
  PROVE  /\ Cardinality(Refreshes) <= Cardinality(Refreshes)'
         /\ Cardinality(Refreshes) \in Nat /\ Cardinality(Refreshes)' \in Nat
         /\ \A c \in Processes :
              Refreshed(c) => Cardinality(Refreshes)' >= Cardinality(Refreshes) + 1
<1>1. PICK old : old = Refreshes
  OBVIOUS
<1>2. PICK new : new = Refreshes'
  OBVIOUS
<1>3. new \subseteq Refreshers /\ old \subseteq Refreshers /\ Refreshers \subseteq Processes
  BY <1>1, <1>2 DEF Refreshes, Processes
<1>4. /\ IsFiniteSet(new) /\ Cardinality(new) \in Nat
      /\ IsFiniteSet(old) /\ Cardinality(old) \in Nat
  BY <1>3, Finite, FS_Subset, FS_CardinalityType
<1>5. old \subseteq new
  <2>1. CASE UNCHANGED call
    BY <2>1, <1>1, <1>2 DEF Refreshes
  <2>2. ASSUME NEW c \in Processes, Arrives(c) \/ CallerStep(c) \/ Aborted(c)
        PROVE  old \subseteq new
    <3>1. PICK w : Moved(c, w) /\ Leads(c, w)
      BY <2>2, CallerMoves
    <3>2. call'[c] = w /\ \A d \in Processes : d # c => call'[d] = call[d]
      BY <3>1 DEF Moved, Sound, Typed
    <3> QED
      BY <1>1, <1>2, <1>3, <3>1, <3>2 DEF Refreshes, Leads
  <2> QED
    BY <2>1, <2>2, WhoMoves
<1>6. Cardinality(old) <= Cardinality(new)
  BY <1>4, <1>5, FS_Subset
<1>7. ASSUME NEW c \in Processes, Refreshed(c)
      PROVE  Cardinality(new) >= Cardinality(old) + 1
  <2>1. call[c].pc = "fetch" /\ c \in Refreshers
    BY <1>7 DEF Refreshed, At, Sound, Rows, RowOK
  <2>2. call'[c].pc = "unwinding"
    BY <1>7 DEF Refreshed, Returned, Sound, Typed, CallRows
  <2>3. c \in new /\ c \notin old
    BY <1>1, <1>2, <2>1, <2>2 DEF Refreshes
  <2>4. old \cup {c} \subseteq new
    BY <1>5, <2>3
  <2>5. Cardinality(old \cup {c}) = Cardinality(old) + 1
    BY <1>4, <2>3, FS_AddElement
  <2>6. Cardinality(old \cup {c}) <= Cardinality(new)
    BY <1>4, <2>4, FS_Subset
  <2> QED
    BY <1>4, <2>5, <2>6
<1> QED
  BY <1>1, <1>2, <1>4, <1>6, <1>7

\* What a step of a caller changes of the connection and of its catalog.
LEMMA CallerShares ==
  ASSUME NEW c \in Processes, Sound, Arrives(c) \/ CallerStep(c) \/ Aborted(c)
  PROVE  /\ closing' = closing
         /\ \/ UNCHANGED <<owner, ownerPc, stop, version, fetched>>
            \/ /\ Connects(c) /\ closing = "open"
               /\ owner = 0 \/ ownerPc[owner] = "done"
               /\ UNCHANGED <<version, fetched>>
            \/ /\ Refreshed(c) /\ version' = version + 1 /\ fetched' = fetched + 1
               /\ UNCHANGED <<owner, ownerPc, stop>>
            \/ /\ client # 0 /\ ~stop /\ stop' = TRUE /\ version' = version + 1
               /\ UNCHANGED <<owner, ownerPc, fetched>>
<1> USE DEF connection, contents
<1>1. ~closed => closing = "open"
  BY DEF Sound, Locked
<1>2. call[c].pc \in {"fetch", "sent"} => call[c].client # 0
  BY DEF Sound, Rows, RowOK
<1>3. CASE Arrives(c) \/ Discovers(c) \/ ReadyAwaited(c) \/ Discovered(c)
           \/ Enters(c) \/ Dispatches(c) \/ Answered(c) \/ Interrupted(c) \/ Aborted(c)
  BY <1>3 DEF Arrives, Discovers, ReadyAwaited, Discovered, Enters, Dispatches,
              Answered, Interrupted, Aborted
<1>4. CASE Lists(c)
  BY <1>1, <1>4 DEF Lists, IsReady
<1>5. CASE OwnerAwaited(c)
  BY <1>1, <1>5 DEF OwnerAwaited
<1>6. CASE Refreshed(c)
  BY <1>6 DEF Refreshed
<1>7. CASE RefreshFails(c) \/ Lost(c)
  BY <1>2, <1>7 DEF RefreshFails, Lost, Invalidate, At
<1> QED
  BY <1>3, <1>4, <1>5, <1>6, <1>7 DEF CallerStep

\* The types of what is counted.
LEMMA CountTypes ==
  ASSUME Typed
  PROVE  /\ Made \in 0..MaxConnections /\ MaxConnections \in Nat
         /\ Left \in 0..3 /\ Unfetched \in 0..1
         /\ version \in Nat /\ fetched \in Nat /\ owner \in Nat
BY ClientBoundsAssumption DEF Typed, Shared, Made, Left, Unfetched

\* Every version and every catalog was paid for by a connection or a refresh.
LEMMA StepCounted == Sound /\ Counted /\ [ClientNext]_clientVars => Counted'
<1> SUFFICES ASSUME Sound, Counted, [ClientNext]_clientVars PROVE Counted'
  OBVIOUS
<1>1. PICK n : n = Cardinality(Refreshes)
  OBVIOUS
<1>2. PICK m : m = Cardinality(Refreshes)'
  OBVIOUS
<1>3. /\ n \in Nat /\ m \in Nat /\ n <= m
      /\ \A c \in Processes : Refreshed(c) => m >= n + 1
  BY <1>1, <1>2, RefreshCounts
<1>4. PICK v0, f0, k0, l0, u0 \in Int :
        /\ v0 = version /\ f0 = fetched /\ k0 = Made /\ l0 = Left /\ u0 = Unfetched
        /\ v0 >= 0 /\ f0 >= 0 /\ 0 <= k0 /\ k0 <= MaxConnections
        /\ 0 <= l0 /\ l0 <= 3 /\ 0 <= u0 /\ u0 <= 1
  BY CountTypes DEF Sound
<1>5. v0 + l0 <= 3 * k0 + n /\ f0 + u0 <= k0 + n
  BY <1>1, <1>4 DEF Counted
<1>6. Sound'
  BY StepSound
<1>7. PICK v1, f1, k1, l1, u1 \in Int :
        /\ v1 = version' /\ f1 = fetched' /\ k1 = Made' /\ l1 = Left' /\ u1 = Unfetched'
        /\ l1 <= 3 /\ u1 <= 1
  <2>1. Typed'
    BY <1>6 DEF Sound
  <2>2. Made' \in Int /\ Left' \in Int /\ Unfetched' \in Int
        /\ version' \in Int /\ fetched' \in Int
        /\ Left' <= 3 /\ Unfetched' <= 1
    BY <2>1, ClientBoundsAssumption DEF Typed, Shared, Made, Left, Unfetched
  <2> QED
    BY <2>2
<1>0. /\ v0 \in Int /\ f0 \in Int /\ k0 \in Int /\ l0 \in Int /\ u0 \in Int
      /\ v1 \in Int /\ f1 \in Int /\ k1 \in Int /\ l1 \in Int /\ u1 \in Int
      /\ n \in Int /\ m \in Int /\ n <= m
  BY <1>3, <1>4, <1>7
<1> DEFINE Pays(v, f) ==
      /\ v1 = v0 + v /\ f1 = f0 + f
      /\ v + l1 + 3 * k0 + n <= l0 + 3 * k1 + m
      /\ f + u1 + k0 + n <= u0 + k1 + m
<1>8. ASSUME NEW v \in Nat, NEW f \in Nat, Pays(v, f)
      PROVE  v1 + l1 <= 3 * k1 + m /\ f1 + u1 <= k1 + m
  BY <1>3, <1>5, <1>8
<1>9. ASSUME NEW v \in Nat, NEW f \in Nat, Pays(v, f)
      PROVE  Counted'
  BY <1>2, <1>7, <1>8, <1>9 DEF Counted
<1>10. ASSUME NEW k \in Connections, OwnerStep(k) \/ OwnerDrops(k)
       PROVE  Counted'
  <2>1. k = owner /\ owner # 0 /\ owner' = owner /\ closing' = closing
    <3>1. ownerPc[k] \in LiveOwner
      BY <1>10 DEF OwnerStep, OwnerEnters, OwnerServes, OwnerFails, OwnerStops,
                   OwnerDone, OwnerDrops, OwnerAt, LiveOwner
    <3>2. owner' = owner /\ closing' = closing
      BY <1>10 DEF OwnerStep, OwnerEnters, OwnerServes, OwnerFails, OwnerStops,
                   OwnerDone, OwnerDrops, contents, executor
    <3> QED
      BY <3>1, <3>2 DEF Sound, Owned, Connections
  <2>2. Made' = Made
    BY <2>1 DEF Made
  <2>3. \A pc : OwnerGoes(k, pc) => ownerPc'[k] = pc
    BY DEF OwnerGoes, Sound, Typed, Shared
  <2>4. CASE OwnerEnters(k)
    <3>1. Left' = Left /\ Unfetched' = Unfetched
      BY <2>1, <2>3, <2>4 DEF OwnerEnters, OwnerAt, Left, Unfetched
    <3>2. Pays(0, 0)
      <4>1. v1 = v0 /\ f1 = f0 /\ k1 = k0 /\ l1 = l0 /\ u1 = u0
        BY <1>4, <1>7, <2>2, <2>4, <3>1 DEF OwnerEnters, contents
      <4> QED
        BY <1>0, <4>1
    <3> QED
      BY <1>9, <3>2
  <2>5. CASE OwnerServes(k)
    <3>1. Left = 3 /\ Left' <= 2 /\ Unfetched = 1 /\ Unfetched' = 0
      BY <2>1, <2>3, <2>5 DEF OwnerServes, OwnerAt, Left, Unfetched
    <3>2. Pays(1, 1)
      <4>1. v1 = v0 + 1 /\ f1 = f0 + 1 /\ k1 = k0 /\ l0 = 3 /\ l1 <= 2 /\ u0 = 1 /\ u1 = 0
        BY <1>4, <1>7, <2>2, <2>5, <3>1 DEF OwnerServes
      <4> QED
        BY <1>0, <4>1
    <3> QED
      BY <1>9, <3>2
  <2>6. CASE OwnerFails(k) \/ OwnerStops(k) \/ OwnerDrops(k)
    <3>1. Left' <= Left /\ Unfetched' <= Unfetched
      BY <2>1, <2>3, <2>6 DEF OwnerFails, OwnerStops, OwnerDrops, OwnerAt,
         Left, Unfetched
    <3>2. UNCHANGED <<version, fetched>>
      BY <2>6 DEF OwnerFails, OwnerStops, OwnerDrops, contents
    <3>3. Pays(0, 0)
      <4>1. v1 = v0 /\ f1 = f0 /\ k1 = k0 /\ l1 <= l0 /\ u1 <= u0
        BY <1>4, <1>7, <2>2, <3>1, <3>2
      <4> QED
        BY <1>0, <4>1
    <3> QED
      BY <1>9, <3>3
  <2>7. CASE OwnerDone(k)
    <3>1. Left >= 1 /\ Left' = 0 /\ Unfetched' = 0
      BY <2>1, <2>3, <2>7 DEF OwnerDone, OwnerAt, Left, Unfetched
    <3>2. Pays(1, 0)
      <4>1. v1 = v0 + 1 /\ f1 = f0 /\ k1 = k0 /\ l0 >= 1 /\ l1 = 0 /\ u0 >= 0 /\ u1 = 0
        BY <1>4, <1>7, <2>2, <2>7, <3>1 DEF OwnerDone
      <4> QED
        BY <1>0, <4>1
    <3> QED
      BY <1>9, <3>2
  <2> QED
    BY <1>10, <2>4, <2>5, <2>6, <2>7 DEF OwnerStep
<1>11. ASSUME NEW c \in Processes, Arrives(c) \/ CallerStep(c) \/ Aborted(c)
       PROVE  Counted'
  <2>1. closing' = closing
    BY <1>11, CallerShares
  <2>2. CASE UNCHANGED <<owner, ownerPc, stop, version, fetched>>
    <3>1. Left' = Left /\ Unfetched' = Unfetched /\ Made' = Made
      BY <2>1, <2>2 DEF Left, Unfetched, Made
    <3>2. Pays(0, 0)
      <4>1. v1 = v0 /\ f1 = f0 /\ k1 = k0 /\ l1 = l0 /\ u1 = u0
        BY <1>4, <1>7, <2>2, <3>1
      <4> QED
        BY <1>0, <4>1
    <3> QED
      BY <1>9, <3>2
  <2>3. CASE /\ Connects(c) /\ closing = "open"
             /\ owner = 0 \/ ownerPc[owner] = "done"
             /\ UNCHANGED <<version, fetched>>
    <3>1. owner' = owner + 1
      BY <2>3 DEF Connects
    <3>2. Left = 0 /\ Unfetched = 0 /\ Made = owner /\ Made' = owner + 1
      BY <2>1, <2>3, <3>1 DEF Left, Unfetched, Made
    <3>3. Pays(0, 0)
      <4>1. v1 = v0 /\ f1 = f0 /\ k1 = k0 + 1 /\ l0 = 0 /\ l1 <= 3 /\ u0 = 0 /\ u1 <= 1
        BY <1>4, <1>7, <2>3, <3>2
      <4> QED
        BY <1>0, <4>1
    <3> QED
      BY <1>9, <3>3
  <2>4. CASE /\ Refreshed(c) /\ version' = version + 1 /\ fetched' = fetched + 1
             /\ UNCHANGED <<owner, ownerPc, stop>>
    <3>1. Left' = Left /\ Unfetched' = Unfetched /\ Made' = Made
      BY <2>1, <2>4 DEF Left, Unfetched, Made
    <3>2. m >= n + 1
      BY <1>3, <2>4
    <3>3. Pays(1, 1)
      <4>1. v1 = v0 + 1 /\ f1 = f0 + 1 /\ k1 = k0 /\ l1 = l0 /\ u1 = u0 /\ m >= n + 1
        BY <1>4, <1>7, <2>4, <3>1, <3>2
      <4> QED
        BY <1>0, <4>1
    <3> QED
      BY <1>9, <3>3
  <2>5. CASE /\ client # 0 /\ ~stop /\ stop' = TRUE /\ version' = version + 1
             /\ UNCHANGED <<owner, ownerPc, fetched>>
    <3>1. owner # 0 /\ ownerPc[owner] \in {"serving", "closing"}
      BY <2>5 DEF Sound, Owned
    <3>2. Left = 2 /\ Left' = 1 /\ Unfetched' = Unfetched /\ Made' = Made
      BY <2>1, <2>5, <3>1 DEF Left, Unfetched, Made
    <3>3. Pays(1, 0)
      <4>1. v1 = v0 + 1 /\ f1 = f0 /\ k1 = k0 /\ l0 = 2 /\ l1 = 1 /\ u1 = u0
        BY <1>4, <1>7, <2>5, <3>2
      <4> QED
        BY <1>0, <4>1
    <3> QED
      BY <1>9, <3>3
  <2> QED
    BY <1>11, <2>2, <2>3, <2>4, <2>5, CallerShares
<1>12. CASE CloseBegins
  <2>1. Left' <= Left /\ Unfetched' <= Unfetched /\ Made' = Made
    <3>1. owner' = owner /\ stop' = TRUE /\ closing = "open" /\ closing' = "lock"
      BY <1>12 DEF CloseBegins
    <3>2. CASE /\ OwnerGoes(owner, "closing") /\ owner # 0
                 /\ ownerPc[owner] \in {"starting", "serving"}
      <4>1. ownerPc'[owner] = "closing"
        BY <3>2, ClientBoundsAssumption DEF OwnerGoes, Sound, Typed, Shared,
           Connections
      <4> QED
        BY <3>1, <3>2, <4>1 DEF Left, Unfetched, Made
    <3>3. CASE UNCHANGED ownerPc
      BY <3>1, <3>3 DEF Left, Unfetched, Made
    <3> QED
      BY <1>12, <3>2, <3>3 DEF CloseBegins
  <2>2. UNCHANGED <<version, fetched>>
    BY <1>12 DEF CloseBegins, contents
  <2>3. Pays(0, 0)
    <3>1. v1 = v0 /\ f1 = f0 /\ k1 = k0 /\ l1 <= l0 /\ u1 <= u0
      BY <1>4, <1>7, <2>1, <2>2
    <3> QED
      BY <1>0, <3>1
  <2> QED
    BY <1>9, <2>3
<1>13. CASE CloseAwaits \/ CloseEnds
  <2>1. UNCHANGED <<version, fetched>>
    BY <1>13 DEF CloseAwaits, CloseEnds, contents
  <2>2. Left' <= Left /\ Unfetched' <= Unfetched
    BY <1>4, <1>13 DEF CloseAwaits, CloseEnds, connection, Left, Unfetched
  <2>3. Made' >= Made
    <3>1. owner \in 0..MaxConnections /\ MaxConnections \in Nat
      BY ClientBoundsAssumption DEF Sound, Typed, Shared
    <3>2. CASE CloseAwaits
      <4>1. closing = "lock" /\ owner' = owner /\ closing' \in {"closed", "await"}
        BY <3>2 DEF CloseAwaits, connection
      <4> QED
        BY <3>1, <4>1 DEF Made
    <3>3. CASE CloseEnds
      <4>1. closing = "await" /\ closing' = "closed"
        BY <3>3 DEF CloseEnds
      <4> QED
        BY <3>1, <4>1 DEF Made
    <3> QED
      BY <1>13, <3>2, <3>3
  <2>4. Pays(0, 0)
    <3>1. v1 = v0 /\ f1 = f0 /\ k1 >= k0 /\ l1 <= l0 /\ u1 <= u0
      BY <1>4, <1>7, <2>1, <2>2, <2>3
    <3> QED
      BY <1>0, <3>1
  <2> QED
    BY <1>9, <2>4
<1>14. CASE UNCHANGED clientVars
  <2>1. Left' = Left /\ Unfetched' = Unfetched /\ Made' = Made
        /\ UNCHANGED <<version, fetched>>
    BY <1>14 DEF clientVars, connection, contents, Left, Unfetched, Made
  <2>2. Pays(0, 0)
    <3>1. v1 = v0 /\ f1 = f0 /\ k1 = k0 /\ l1 = l0 /\ u1 = u0
      BY <1>4, <1>7, <2>1
    <3> QED
      BY <1>0, <3>1
  <2> QED
    BY <1>9, <2>2
<1> QED
  BY <1>10, <1>11, <1>12, <1>13, <1>14 DEF ClientNext, CloseStep

\* The client is always in one of its states: the counters stay below what the
\* connections and refreshes can add, and the requests in flight below the
\* places.
THEOREM ClientTypeCorrect == ClientSpec => []ClientTypeOK
<1>1. ClientInit => Sound /\ Placed /\ Counted
  <2> SUFFICES ASSUME ClientInit PROVE Sound /\ Placed /\ Counted
    OBVIOUS
  <2>1. \A c \in Processes : call[c].pc \in {"list", "idle"}
    BY DEF ClientInit, NoCall
  <2>2. InFlight = {}
    BY <2>1 DEF InFlight
  <2>3. Placed
    BY <2>2, FS_EmptySet, ClientBoundsAssumption DEF Placed
  <2>4. Made = 0 /\ Left = 0 /\ Unfetched = 0 /\ version = 0 /\ fetched = 0
    BY DEF ClientInit, Made, Left, Unfetched
  <2>5. Cardinality(Refreshes) \in Nat
    BY Finite
  <2>6. Counted
    BY <2>4, <2>5 DEF Counted
  <2> QED
    BY <2>3, <2>6, InitSound
<1>2. Sound /\ Placed /\ Counted /\ [ClientNext]_clientVars
        => (Sound /\ Placed /\ Counted)'
  BY StepSound, StepPlaced, StepCounted
<1>3. Sound /\ Placed /\ Counted => ClientTypeOK
  <2> SUFFICES ASSUME Sound, Placed, Counted PROVE ClientTypeOK
    OBVIOUS
  <2>1. /\ Made \in 0..MaxConnections /\ MaxConnections \in Nat
        /\ Left \in 0..3 /\ Unfetched \in 0..1
        /\ version \in Nat /\ fetched \in Nat
    BY CountTypes DEF Sound
  <2>2. /\ Cardinality(Refreshers) \in Nat /\ Cardinality(Refreshes) \in Nat
        /\ Cardinality(Refreshes) <= Cardinality(Refreshers)
    BY Finite
  <2>3. /\ version \in 0..(3 * MaxConnections + Cardinality(Refreshers))
        /\ fetched \in 0..(MaxConnections + Cardinality(Refreshers))
    BY <2>1, <2>2 DEF Counted
  <2> QED
    BY <2>3 DEF Sound, Typed, Shared, CallRows, Placed, ClientTypeOK
<1> QED
  BY <1>1, <1>2, <1>3, PTL DEF ClientSpec
=============================================================================
