-------------------------- MODULE MCCircuitBreaker --------------------------
(* Three requests at once; the replica of one has a clock that is ahead.   *)
EXTENDS CircuitBreaker, TLC
CONSTANTS s1, s2, s3
OneAhead == (s1 :> 0) @@ (s2 :> 0) @@ (s3 :> 1)
=============================================================================
