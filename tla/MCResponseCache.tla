-------------------------- MODULE MCResponseCache ---------------------------
(* /products and /products/1: a change of one invalidates both.            *)
EXTENDS ResponseCache
CONSTANTS s1, s2, list, one
SameResource == [p \in {list, one} |-> {list, one}]
=============================================================================
