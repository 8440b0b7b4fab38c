-------------------------- MODULE MCCircuitBreaker --------------------------
(* Model values and symmetry with which TLC checks CircuitBreaker. *)
EXTENDS CircuitBreaker, TLC

Symmetry == Permutations(Replicas) \cup Permutations(Requests)
=============================================================================
