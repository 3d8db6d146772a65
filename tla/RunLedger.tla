----------------------------- MODULE RunLedger -----------------------------
(***************************************************************************)
(* What the durable store promises about runs, with no tables: a session   *)
(* is a slot for one run; a run that got the slot keeps it until it is     *)
(* settled, once; a run whose cancellation was accepted can only be        *)
(* settled as cancelled.  ExecutionStore implements this specification.    *)
(***************************************************************************)
EXTENDS FiniteSets

CONSTANTS Runs, Sessions, NoRun, Outcomes

VARIABLES
  slot,    \* the run in progress in a session, or NoRun
  doomed,  \* runs in progress that have to end cancelled
  outcome  \* how a run was settled, "none" before

ledgerVars == <<slot, doomed, outcome>>

InProgress == {slot[s] : s \in Sessions} \ {NoRun}

Init ==
  /\ slot = [s \in Sessions |-> NoRun]
  /\ doomed = {}
  /\ outcome = [r \in Runs |-> "none"]

Admit(r, s) ==
  /\ slot[s] = NoRun
  /\ r \notin InProgress
  /\ outcome[r] = "none"
  /\ slot' = [slot EXCEPT ![s] = r]
  /\ UNCHANGED <<doomed, outcome>>

Doom(r) ==
  /\ r \in InProgress \ doomed
  /\ doomed' = doomed \cup {r}
  /\ UNCHANGED <<slot, outcome>>

\* A run ends, or a restart ends all that are in progress.
Settle(ended) ==
  /\ ended # {} /\ ended \subseteq InProgress
  /\ slot' = [s \in Sessions |-> IF slot[s] \in ended THEN NoRun ELSE slot[s]]
  /\ doomed' = doomed \ ended
  /\ \E how \in [ended -> Outcomes] :
       /\ \A r \in ended \cap doomed : how[r] = "cancelled"
       /\ outcome' = [r \in Runs |-> IF r \in ended THEN how[r] ELSE outcome[r]]

Next ==
  \/ \E r \in Runs, s \in Sessions : Admit(r, s)
  \/ \E r \in Runs : Doom(r)
  \/ \E ended \in SUBSET Runs : Settle(ended)

Spec == Init /\ [][Next]_ledgerVars
=============================================================================
