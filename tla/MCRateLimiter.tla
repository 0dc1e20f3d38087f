--------------------------- MODULE MCRateLimiter ----------------------------
(* Two replicas, the clock of one a tick ahead.                            *)
EXTENDS RateLimiter, TLC
CONSTANTS r1, r2
OneAhead == (r1 :> 0) @@ (r2 :> 1)
=============================================================================
