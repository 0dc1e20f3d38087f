----------------------------- MODULE MCGateway ------------------------------
(* Two overlapping requests, one key, and a route of each kind.           *)
EXTENDS Gateway
CONSTANTS s1, s2, k1, orders, products
=============================================================================
