---------------------------- MODULE Reservations ----------------------------
(***************************************************************************)
(* What order-service promises about orders and the stock set aside for    *)
(* them, with no messages, no handlers and no failures: each item of an    *)
(* order is taken from the shelf at most once and given back at most once, *)
(* an order is placed only when all of it has been taken, and what a       *)
(* placed order holds is given back only after somebody sets out to cancel *)
(* it.  SagaRefinement shows that OrderSaga implements this.               *)
(***************************************************************************)
EXTENDS Naturals

CONSTANTS
  Orders,         \* the orders that may be placed
  ItemsOf(_),     \* the items of each order
  KeyOf(_),       \* its idempotency key
  NoKey           \* `no key`

VARIABLES
  status,         \* of each order: not placed, or the status of its row
  stock,          \* of each item of each order: where its units are
  cancelling,     \* the orders somebody has set out to cancel
  contested       \* the orders on which two calls were at work at once

vars == <<status, stock, cancelling, contested>>

NotPlaced == "no row"
Standing == {"STOCK_RESERVED", "CONFIRMED"}

Init ==
  /\ status = [o \in Orders |-> NotPlaced]
  /\ stock = [o \in Orders |-> [i \in ItemsOf(o) |-> "free"]]
  /\ cancelling = {}
  /\ contested = {}

Put(o, i, place) == stock' = [stock EXCEPT ![o][i] = place]
SetStatus(o, new) == status' = [status EXCEPT ![o] = new]

(* Units leave the shelf only for an order that is not placed yet.         *)
Take(o, i) ==
  /\ status[o] = NotPlaced
  /\ stock[o][i] = "free"
  /\ Put(o, i, "held")
  /\ UNCHANGED <<status, cancelling, contested>>

(* They go back because the order came to nothing or is being cancelled.   *)
GiveBack(o, i) ==
  /\ status[o] = NotPlaced \/ o \in cancelling
  /\ stock[o][i] = "held"
  /\ Put(o, i, "returned")
  /\ UNCHANGED <<status, cancelling, contested>>

Place(o) ==
  /\ status[o] = NotPlaced
  /\ \A i \in ItemsOf(o) : stock[o][i] = "held"
  /\ \A other \in Orders :
       status[other] # NotPlaced => KeyOf(o) = NoKey \/ KeyOf(other) # KeyOf(o)
  /\ SetStatus(o, "STOCK_RESERVED")
  /\ UNCHANGED <<stock, cancelling, contested>>

SetOutToCancel(o) ==
  /\ status[o] \in Standing
  /\ cancelling' = cancelling \cup {o}
  /\ contested' \in {contested, contested \cup {o}}
  /\ UNCHANGED <<status, stock>>

(* A second call sets out on an order before the first is done with it.    *)
Contest(o) ==
  /\ status[o] \in Standing
  /\ contested' = contested \cup {o}
  /\ UNCHANGED <<status, stock, cancelling>>

Confirm(o) ==
  /\ status[o] \in Standing \/ (status[o] = "CANCELLED" /\ o \in contested)
  /\ SetStatus(o, "CONFIRMED")
  /\ UNCHANGED <<stock, cancelling, contested>>

Cancel(o) ==
  /\ status[o] # NotPlaced /\ o \in cancelling
  /\ SetStatus(o, "CANCELLED")
  /\ UNCHANGED <<stock, cancelling, contested>>

Next ==
  \E o \in Orders :
    \/ \E i \in ItemsOf(o) : Take(o, i) \/ GiveBack(o, i)
    \/ Place(o) \/ SetOutToCancel(o) \/ Contest(o) \/ Confirm(o) \/ Cancel(o)

Spec == Init /\ [][Next]_vars
=============================================================================
