-------------------------- MODULE MCCircuitBreaker --------------------------
(* Model checking of CircuitBreaker: three calls, two of them synchronous. *)
EXTENDS CircuitBreaker, TLC
CONSTANTS s1, s2, a1
MCInvocations == {s1, s2, a1}
MCSync == {s1, s2}
SyncSymmetry == Permutations(MCSync)
=============================================================================
