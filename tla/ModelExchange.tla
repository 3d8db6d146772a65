--------------------------- MODULE ModelExchange ---------------------------
(***************************************************************************)
(* What one call of the model promises about its HTTP requests, with no    *)
(* time and no retry policy: there are at most MaxRequests of them, each   *)
(* is announced in the log of the run before it leaves, the next one is    *)
(* announced only after the failure of the last is in the log, and an      *)
(* answer is given only after its success is.  A call may be stopped at    *)
(* any moment.  GeminiProvider implements this specification.              *)
(***************************************************************************)
EXTENDS Naturals

CONSTANT MaxRequests

VARIABLES
  announced,  \* requests announced in the log
  sent,       \* requests that left
  settled,    \* requests whose outcome is in the log
  succeeded,  \* one of these outcomes is a success
  verdict     \* "open", "answered", "failed" or "stopped"

exchangeVars == <<announced, sent, settled, succeeded, verdict>>

\* Every request that was announced left and has its outcome in the log.
NothingOpen == sent = announced /\ settled = announced

Init ==
  /\ announced = 0
  /\ sent = 0
  /\ settled = 0
  /\ succeeded = FALSE
  /\ verdict = "open"

Announce ==
  /\ verdict = "open"
  /\ NothingOpen
  /\ ~succeeded
  /\ announced < MaxRequests
  /\ announced' = announced + 1
  /\ UNCHANGED <<sent, settled, succeeded, verdict>>

Send ==
  /\ verdict = "open"
  /\ sent < announced
  /\ sent' = sent + 1
  /\ UNCHANGED <<announced, settled, succeeded, verdict>>

Settle ==
  /\ verdict = "open"
  /\ sent = announced
  /\ settled < announced
  /\ settled' = settled + 1
  /\ succeeded' \in BOOLEAN
  /\ UNCHANGED <<announced, sent, verdict>>

Close ==
  /\ verdict = "open"
  /\ \/ verdict' = "stopped"
     \/ NothingOpen /\ verdict' = IF succeeded THEN "answered" ELSE "failed"
  /\ UNCHANGED <<announced, sent, settled, succeeded>>

Next == Announce \/ Send \/ Settle \/ Close

Spec == Init /\ [][Next]_exchangeVars
=============================================================================
