---------------------------- MODULE MCOrderSaga -----------------------------
(* Small instances of OrderSaga.                                           *)
EXTENDS SagaRefinement, TLC
CONSTANTS r1, r2, h1, h2, p1, p2, k1, d1

Item(p, n) == [product |-> p, quantity |-> n]

\* r1 wants both products; both requests want p1, and there is enough for both.
TwoItems == (r1 :> <<Item(p1, 1), Item(p2, 2)>>) @@ (r2 :> <<Item(p1, 1)>>)
AmpleStock == (p1 :> 2) @@ (p2 :> 2)

\* Each request takes first what the other needs last, so that each may fail
\* half way because of the other; r1 names p1 twice.
Crossed == (r1 :> <<Item(p1, 1), Item(p1, 1), Item(p2, 1)>>)
        @@ (r2 :> <<Item(p2, 1), Item(p1, 1)>>)
ScarceStock == (p1 :> 2) @@ (p2 :> 1)

SameKey == (r1 :> k1) @@ (r2 :> k1)
NoKeys == (r1 :> NoKey) @@ (r2 :> NoKey)
=============================================================================
