-------------------------- MODULE MCExecutionStore --------------------------
(* A small instance of ExecutionStore under an arbitrary client. *)
EXTENDS ExecutionStore, TLC

CONSTANTS r1, r2, s1, k1

CONSTANTS MaxEvents, MaxMessages, MaxRows

\* Bounds on the tables, which any client could grow for ever.
Bounded ==
  /\ Len(events[r1]) + Len(events[r2]) <= MaxEvents
  /\ Len(messages) <= MaxMessages
  /\ Len(attempts) <= MaxRows
  /\ \A s \in Sessions : taskState[s].revision <= 2

Symmetry == Permutations(Runs)
=============================================================================
