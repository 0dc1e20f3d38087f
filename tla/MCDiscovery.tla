---------------------------- MODULE MCDiscovery -----------------------------
(* One service with two replicas.                                          *)
EXTENDS Discovery, TLC
CONSTANTS orders, o1, o2
Names == (o1 :> orders) @@ (o2 :> orders)
=============================================================================
