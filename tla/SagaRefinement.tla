--------------------------- MODULE SagaRefinement ---------------------------
(***************************************************************************)
(* OrderSaga implements Reservations: where an order's units are is read   *)
(* off the reserve and release calls product-service has applied; that a   *)
(* second release of the same item is no step of Reservations is how the   *)
(* two differ (see OrderSaga's StockReleasedOnce).                         *)
(***************************************************************************)
EXTENDS OrderSaga

ItemsIn(r) == DOMAIN Items[r]
KeyUnder(r) == Key[r]

Released(r, i) == \E c \in Callers : Call("release", c, r, i) \in applied

Place(r, i) ==
  IF Released(r, i) THEN "returned"
  ELSE IF Call("reserve", r, r, i) \in applied THEN "held" ELSE "free"

Places == [r \in Requests |-> [i \in ItemsIn(r) |-> Place(r, i)]]

R == INSTANCE Reservations WITH
  Orders <- Requests, ItemsOf <- ItemsIn, KeyOf <- KeyUnder,
  status <- orders, stock <- Places,
  cancelling <- {r \in Requests : BeingCancelled(r)}, contested <- disturbed

(* Every behaviour of the saga, with calls lost, late or never answered    *)
(* and processes that stop half way, is one in which units move from the   *)
(* shelf to an order once and back once, an order is placed only with all  *)
(* of its units, and they go back only for a reason.                       *)
ImplementsReservations == R!Spec
=============================================================================
