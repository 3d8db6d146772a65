--------------------------- MODULE MCAgentRuntime ---------------------------
(* Small instances of AgentRuntime. *)
EXTENDS Continuation, TLC

CONSTANTS r1, r2, s1, s2, k1, k2

Symmetry == Permutations(Runs) \cup Permutations(Sessions)

AllKinds == ProgressKinds \cup TerminalKinds
SafeCall == [key |-> k1, retry_safe |-> TRUE]
UnsafeCall == [key |-> k2, retry_safe |-> FALSE]
UnsafeOnly == {UnsafeCall}
SafeOnly == {SafeCall}
BothCalls == {SafeCall, UnsafeCall}
=============================================================================
