----------------------------- MODULE OrderSaga ------------------------------
(***************************************************************************)
(* order-service's three writers, createOrder, confirmOrder and            *)
(* cancelOrder, against product-service's stock.  The saga's orchestrator  *)
(* is the HTTP handler itself: each handler keeps its progress in local    *)
(* variables only, calls product-service by NATS request/reply, one call   *)
(* at a time, and reads and writes the orders table between calls.         *)
(*                                                                         *)
(* A call that changes stock is three events: it is sent, product-service  *)
(* handles it, the caller reads the reply.  The caller's 5 s timeout may   *)
(* come before either of the last two, and a call given up on may still be *)
(* handled afterwards.  A lost call is one that is never handled.  The two *)
(* calls that only read, checkStock and product.get, are one step at the   *)
(* moment product-service reads the row.                                   *)
(***************************************************************************)
EXTENDS ProductStore, Sequences, FiniteSets

CONSTANTS
  Requests,       \* POST /orders calls; an order is named by the call that made it
  Handlers,       \* POST /orders/:id/confirm and /orders/:id/cancel calls
  Items,          \* the items of each request
  Key,            \* the Idempotency-Key header of each request
  NoKey,          \* `no such header`
  InitStock,      \* the stock each product starts with
  Faults,         \* what may go wrong in this instance, see FaultKinds
  None            \* `no answer yet`, `no job yet`

FaultKinds ==
  { "timeout",    \* natsRequest rejects: no answer within 5 s, or no connection
    "dbError",    \* a database call fails, having been applied or not
    "overflow",   \* an order's total is too large for its DECIMAL(10,2) column
    "natsDown",   \* natsPublish throws: the connection is gone by then
    "crash",      \* an order-service process stops and forgets its calls
    "delete" }    \* an admin deletes a product

ASSUME ItemsAssumption ==
  Items \in [Requests -> Seq([product: Products, quantity: Nat \ {0}]) \ {<<>>}]
ASSUME CallersAssumption == Requests \cap Handlers = {}
ASSUME FailedAssumption == "failed" \notin Requests
ASSUME StockAssumption == InitStock \in [Products -> Nat]
ASSUME NoneAssumption ==
  None \notin Requests \cup {"failed"} \cup [kind: {"confirm", "cancel"}, order: Requests]
ASSUME FaultsAssumption == Faults \subseteq FaultKinds

VARIABLES
  products,       \* product-service: its table
  orders,         \* order-service: the status column of each order's row
  calls,          \* NATS: reserve and release calls sent and not yet handled
  replies,        \* NATS: replies on their way to a caller that still waits
  pc,             \* where each caller is in its handler
  pos,            \* the index of the for loop it is in
  reserved,       \* createOrder: Len(reservedItems)
  priced,         \* createOrder: has some item had its price read? (total > 0)
  job,            \* confirmOrder / cancelOrder: which, and of which order
  answer,         \* the HTTP answer: an order, or an error
  events,         \* events published on NATS
  applied,        \* history: the calls that took effect on the products table
  disturbed       \* history: orders one call began to cancel or confirm while
                  \* another was at it, or after a cancellation stopped half way

vars == <<products, orders, calls, replies, pc, pos, reserved, priced, job,
          answer, events, applied, disturbed>>
netVars == <<products, calls, replies, applied>>

Callers == Requests \cup Handlers

\* Phases of createOrder: one per await, plus the heads of its loops.
CreatePhases == {"idle", "find", "check", "reserve", "reserving", "compensate",
                 "compensating", "price", "insert", "publish"}
\* Phases of confirmOrder and cancelOrder; a cancellation shares the release loop.
HandlerPhases == {"idle", "compensate", "compensating", "update", "publish"}
Ended == {"done", "crashed"}
Phases == CreatePhases \cup HandlerPhases \cup Ended

NoOrder == "no row"
Statuses == {"STOCK_RESERVED", "CONFIRMED", "CANCELLED"}
Confirmable == {"STOCK_RESERVED"}
Cancellable == {"STOCK_RESERVED", "CONFIRMED"}

Job == [kind: {"confirm", "cancel"}, order: Requests]

(* One NATS call of the caller `by`, about item `item` of order `order`.   *)
Call(op, by, order, item) == [op |-> op, by |-> by, order |-> order, item |-> item]
CallSet == [op: {"reserve", "release"}, by: Callers, order: Requests, item: Nat \ {0}]
ItemOf(call) == Items[call.order][call.item]

(* The order whose items caller c reserves or releases, and how many of    *)
(* them compensateReservations is given.                                   *)
OrderOf(c) == IF c \in Requests THEN c ELSE job[c].order
ReleaseCountAll(c) == Len(Items[OrderOf(c)])  \* mutant: also what was not reserved
ReleaseCount(c) == IF c \in Requests THEN reserved[c] ELSE Len(Items[job[c].order])
CurrentCall(c) ==
  Call(IF pc[c] = "reserving" THEN "reserve" ELSE "release", c, OrderOf(c), pos[c])
Waiting(c) == pc[c] \in {"reserving", "compensating"}

Init ==
  /\ products  = [p \in Products |-> NewRow(CHOOSE d \in Details : TRUE, InitStock[p])]
  /\ orders    = [r \in Requests |-> NoOrder]
  /\ calls     = {}
  /\ replies   = {}
  /\ pc        = [c \in Callers |-> "idle"]
  /\ pos       = [c \in Callers |-> 1]
  /\ reserved  = [r \in Requests |-> 0]
  /\ priced    = [r \in Requests |-> FALSE]
  /\ job       = [h \in Handlers |-> None]
  /\ answer    = [c \in Callers |-> None]
  /\ events    = {}
  /\ applied   = {}
  /\ disturbed = {}

-----------------------------------------------------------------------------
(* Steps every handler is built from.                                      *)

Go(c, phase) == pc' = [pc EXCEPT ![c] = phase]
GoAt(c, phase, i) == Go(c, phase) /\ pos' = [pos EXCEPT ![c] = i]
Finish(c, a) == Go(c, "done") /\ answer' = [answer EXCEPT ![c] = a]

(* The loop goes on to the next item, or is over.                          *)
NextItem(c, phase, after) ==
  IF pos[c] < Len(Items[OrderOf(c)])
    THEN GoAt(c, phase, pos[c] + 1)
    ELSE GoAt(c, after, 1)

Send(c, phase, call) ==
  /\ calls' = calls \cup {call}
  /\ Go(c, phase)
  /\ UNCHANGED <<products, orders, replies, pos, reserved, priced, job, answer,
                 events, applied, disturbed>>

(* nc.request rejects: the reply, should there be one, finds no listener.  *)
GiveUp(c) ==
  /\ "timeout" \in Faults
  /\ replies' = {m \in replies : m.call # CurrentCall(c)}

-----------------------------------------------------------------------------
(* createOrder.                                                            *)

StartRequest(r) ==
  /\ pc[r] = "idle"
  /\ Go(r, IF Key[r] = NoKey THEN "check" ELSE "find")
  /\ UNCHANGED <<netVars, orders, pos, reserved, priced, job, answer, events, disturbed>>

HasKey(o, key) == key # NoKey /\ orders[o] # NoOrder /\ Key[o] = key

FindExisting(r) ==
  /\ pc[r] = "find"
  /\ \/ \E o \in Requests : HasKey(o, Key[r]) /\ Finish(r, o)
     \/ /\ ~\E o \in Requests : HasKey(o, Key[r])
        /\ Go(r, "check")
        /\ UNCHANGED answer
     \/ /\ "dbError" \in Faults
        /\ Finish(r, "failed")
  /\ UNCHANGED <<netVars, orders, pos, reserved, priced, job, events, disturbed>>

(* An error reply has no field `available`, and counts as `no`.            *)
CheckItem(r) ==
  LET item == Items[r][pos[r]] IN
  /\ pc[r] = "check"
  /\ \/ /\ CheckStock(products, item.product, item.quantity)
        /\ NextItem(r, "check", "reserve")
        /\ UNCHANGED answer
     \/ /\ \/ ~CheckStock(products, item.product, item.quantity)
           \/ Faults \cap {"timeout", "dbError"} # {}
        /\ Finish(r, "failed")
        /\ UNCHANGED pos
  /\ UNCHANGED <<netVars, orders, reserved, priced, job, events, disturbed>>

SendReserve(r) ==
  /\ pc[r] = "reserve"
  /\ Send(r, "reserving", Call("reserve", r, r, pos[r]))

(* Mutant: any reply counts as a reservation.                              *)
ReserveSucceedsAnyway(r) ==
  /\ pc[r] = "reserving"
  /\ \E ok \in BOOLEAN :
       /\ [call |-> CurrentCall(r), ok |-> ok] \in replies
       /\ replies' = replies \ {[call |-> CurrentCall(r), ok |-> ok]}
  /\ reserved' = [reserved EXCEPT ![r] = pos[r]]
  /\ NextItem(r, "reserve", "price")
  /\ UNCHANGED <<products, orders, calls, priced, job, answer, events, applied, disturbed>>

(* reserved: true: the item is pushed to reservedItems.                    *)
ReserveSucceeds(r) ==
  /\ pc[r] = "reserving"
  /\ [call |-> CurrentCall(r), ok |-> TRUE] \in replies
  /\ replies' = replies \ {[call |-> CurrentCall(r), ok |-> TRUE]}
  /\ reserved' = [reserved EXCEPT ![r] = pos[r]]
  /\ NextItem(r, "reserve", "price")
  /\ UNCHANGED <<products, orders, calls, priced, job, answer, events, applied, disturbed>>

(* Mutant: a timed-out reservation is sent again, without a limit.         *)
ReserveFailsRetrying(r) ==
  /\ pc[r] = "reserving"
  /\ \/ /\ [call |-> CurrentCall(r), ok |-> FALSE] \in replies
        /\ replies' = replies \ {[call |-> CurrentCall(r), ok |-> FALSE]}
        /\ GoAt(r, "compensate", 1)
     \/ GiveUp(r) /\ GoAt(r, "reserve", pos[r])
  /\ UNCHANGED <<products, orders, calls, reserved, priced, job, answer, events,
                 applied, disturbed>>

(* Mutant: a failed reservation is not compensated.                        *)
ReserveFailsBare(r) ==
  /\ pc[r] = "reserving"
  /\ [call |-> CurrentCall(r), ok |-> FALSE] \in replies
  /\ replies' = replies \ {[call |-> CurrentCall(r), ok |-> FALSE]}
  /\ Finish(r, "failed")
  /\ UNCHANGED <<products, orders, calls, pos, reserved, priced, job, events,
                 applied, disturbed>>

(* reserved: false, an error reply, or a timeout: compensate and rethrow.  *)
ReserveFails(r) ==
  /\ pc[r] = "reserving"
  /\ \/ /\ [call |-> CurrentCall(r), ok |-> FALSE] \in replies
        /\ replies' = replies \ {[call |-> CurrentCall(r), ok |-> FALSE]}
     \/ GiveUp(r)
  /\ GoAt(r, "compensate", 1)
  /\ UNCHANGED <<products, orders, calls, reserved, priced, job, answer, events,
                 applied, disturbed>>

(* product.get: a deleted product answers with an error, which has no      *)
(* price, and a timeout is caught: either way the price counts as 0.       *)
PriceItem(r) ==
  LET item == Items[r][pos[r]] IN
  /\ pc[r] = "price"
  /\ \/ /\ Live(products, item.product)
        /\ priced' = [priced EXCEPT ![r] = TRUE]
     \/ /\ \/ ~Live(products, item.product)
           \/ Faults \cap {"timeout", "dbError"} # {}
        /\ UNCHANGED priced
  /\ NextItem(r, "price", "insert")
  /\ UNCHANGED <<netVars, orders, reserved, job, answer, events, disturbed>>

InsertAllowedTwice(r) == priced[r]          \* mutant: no UNIQUE constraint

(* UNIQUE("idempotencyKey") and CHECK ("total" > 0).                       *)
InsertAllowed(r) ==
  /\ ~\E o \in Requests : HasKey(o, Key[r])
  /\ priced[r]

(* order.create.  When it throws, createOrder throws: nothing is released. *)
InsertOrder(r) ==
  /\ pc[r] = "insert"
  /\ \/ /\ InsertAllowed(r)
        /\ orders' = [orders EXCEPT ![r] = "STOCK_RESERVED"]
        /\ \/ Go(r, "publish") /\ UNCHANGED answer
           \/ "dbError" \in Faults /\ Finish(r, "failed")
     \/ /\ ~InsertAllowed(r) \/ Faults \cap {"dbError", "overflow"} # {}
        /\ Finish(r, "failed")
        /\ UNCHANGED orders
  /\ UNCHANGED <<netVars, pos, reserved, priced, job, events, disturbed>>

PublishCreated(r) ==
  /\ pc[r] = "publish"
  /\ \/ /\ events' = events \cup {[type |-> "order.created", order |-> r]}
        /\ Finish(r, r)
     \/ /\ "natsDown" \in Faults
        /\ Finish(r, "failed")
        /\ UNCHANGED events
  /\ UNCHANGED <<netVars, orders, pos, reserved, priced, job, disturbed>>

-----------------------------------------------------------------------------
(* compensateReservations, called by createOrder with the items reserved   *)
(* so far and by cancelOrder with the order's items.                       *)

SendRelease(c) ==
  /\ pc[c] = "compensate"
  /\ pos[c] <= ReleaseCount(c)
  /\ Send(c, "compensating", Call("release", c, OrderOf(c), pos[c]))

(* Mutant: a timed-out release is sent again.                              *)
ReleaseReturnsRetrying(c) ==
  /\ pc[c] = "compensating"
  /\ \/ \E ok \in BOOLEAN :
          /\ [call |-> CurrentCall(c), ok |-> ok] \in replies
          /\ replies' = replies \ {[call |-> CurrentCall(c), ok |-> ok]}
          /\ GoAt(c, "compensate", pos[c] + 1)
     \/ GiveUp(c) /\ GoAt(c, "compensate", pos[c])
  /\ UNCHANGED <<products, orders, calls, reserved, priced, job, answer, events,
                 applied, disturbed>>

(* Whatever the reply says, or after the timeout, on to the next item.     *)
ReleaseReturns(c) ==
  /\ pc[c] = "compensating"
  /\ \/ \E ok \in BOOLEAN :
          /\ [call |-> CurrentCall(c), ok |-> ok] \in replies
          /\ replies' = replies \ {[call |-> CurrentCall(c), ok |-> ok]}
     \/ GiveUp(c)
  /\ GoAt(c, "compensate", pos[c] + 1)
  /\ UNCHANGED <<products, orders, calls, reserved, priced, job, answer, events,
                 applied, disturbed>>

CompensationEnds(c) ==
  /\ pc[c] = "compensate"
  /\ pos[c] > ReleaseCount(c)
  /\ \/ c \in Requests /\ Finish(c, "failed")
     \/ c \in Handlers /\ Go(c, "update") /\ UNCHANGED answer
  /\ UNCHANGED <<netVars, orders, pos, reserved, priced, job, events, disturbed>>

-----------------------------------------------------------------------------
(* confirmOrder and cancelOrder.                                           *)

\* Mutant: the WHERE clauses do not name the statuses.
AllowedFromAny(kind) == Statuses

AllowedFrom(kind) == IF kind = "confirm" THEN Confirmable ELSE Cancellable

(* Another call on order o is at work, or gave up cancelling it half way.  *)
Unfinished(h, o) ==
  /\ job[h] # None /\ job[h].order = o
  /\ \/ pc[h] \notin Ended
     \/ job[h].kind = "cancel" /\ orders[o] # "CANCELLED"

(* findFirst with the statuses the operation starts from, by the owner.    *)
LookUp(h, kind, o) ==
  /\ pc[h] = "idle"
  /\ \/ /\ orders[o] \in AllowedFrom(kind)
        /\ job' = [job EXCEPT ![h] = [kind |-> kind, order |-> o]]
        /\ Go(h, IF kind = "confirm" THEN "update" ELSE "compensate")
        /\ disturbed' = IF \E h2 \in Handlers : Unfinished(h2, o)
                          THEN disturbed \cup {o} ELSE disturbed
        /\ UNCHANGED answer
     \/ /\ orders[o] \notin AllowedFrom(kind) \/ "dbError" \in Faults
        /\ Finish(h, "failed")
        /\ UNCHANGED <<job, disturbed>>
  /\ UNCHANGED <<netVars, orders, pos, reserved, priced, events>>

NewStatus(kind) == IF kind = "confirm" THEN "CONFIRMED" ELSE "CANCELLED"

(* order.update({where: {id}}): whatever the status is by now.             *)
UpdateStatus(h) ==
  LET o == job[h].order IN
  /\ pc[h] = "update"
  /\ \/ /\ orders' = [orders EXCEPT ![o] = NewStatus(job[h].kind)]
        /\ \/ Go(h, "publish") /\ UNCHANGED answer
           \/ "dbError" \in Faults /\ Finish(h, "failed")
     \/ /\ "dbError" \in Faults
        /\ Finish(h, "failed")
        /\ UNCHANGED orders
  /\ UNCHANGED <<netVars, pos, reserved, priced, job, events, disturbed>>

PublishUpdated(h) ==
  LET o == job[h].order
      type == IF job[h].kind = "confirm" THEN "order.confirmed" ELSE "order.cancelled" IN
  /\ pc[h] = "publish"
  /\ \/ /\ events' = events \cup {[type |-> type, order |-> o]}
        /\ Finish(h, o)
     \/ /\ "natsDown" \in Faults
        /\ Finish(h, "failed")
        /\ UNCHANGED events
  /\ UNCHANGED <<netVars, orders, pos, reserved, priced, job, disturbed>>

-----------------------------------------------------------------------------
(* product-service's responders, an admin, and the processes.              *)

(* The reply reaches the caller only if it still waits for this call.      *)
Reply(call, ok) ==
  replies' = IF Waiting(call.by) /\ CurrentCall(call.by) = call
               THEN replies \cup {[call |-> call, ok |-> ok]} ELSE replies

HandleReserve(call) ==
  LET item == ItemOf(call) IN
  /\ call \in calls /\ call.op = "reserve"
  /\ calls' = calls \ {call}
  /\ \/ /\ CanReserve(products, item.product, item.quantity)
        /\ products' = ReserveRow(products, item.product, item.quantity)
        /\ applied' = applied \cup {call}
        /\ Reply(call, TRUE) \/ ("dbError" \in Faults /\ Reply(call, FALSE))
     \/ /\ ~CanReserve(products, item.product, item.quantity) \/ "dbError" \in Faults
        /\ Reply(call, FALSE)
        /\ UNCHANGED <<products, applied>>
  /\ UNCHANGED <<orders, pc, pos, reserved, priced, job, answer, events, disturbed>>

(* A release of a deleted product changes nothing, and replies the same.   *)
HandleRelease(call) ==
  LET item == ItemOf(call) IN
  /\ call \in calls /\ call.op = "release"
  /\ calls' = calls \ {call}
  /\ \/ /\ Live(products, item.product)
        /\ products' = ReleaseRow(products, item.product, item.quantity)
        /\ applied' = applied \cup {call}
        /\ Reply(call, TRUE)
     \/ /\ ~Live(products, item.product)
        /\ Reply(call, TRUE)
        /\ UNCHANGED <<products, applied>>
     \/ /\ "dbError" \in Faults
        /\ Reply(call, FALSE)
        /\ UNCHANGED <<products, applied>>
  /\ UNCHANGED <<orders, pc, pos, reserved, priced, job, answer, events, disturbed>>

DeleteProduct(p) ==
  /\ "delete" \in Faults
  /\ Live(products, p)
  /\ products' = DeleteRow(products, p)
  /\ UNCHANGED <<orders, calls, replies, pc, pos, reserved, priced, job, answer,
                 events, applied, disturbed>>

(* The process that runs caller c stops: its local variables are gone and  *)
(* nothing resumes the saga.                                               *)
Crash(c) ==
  /\ "crash" \in Faults
  /\ pc[c] \notin Ended \cup {"idle"}
  /\ Go(c, "crashed")
  /\ replies' = {m \in replies : m.call.by # c}
  /\ UNCHANGED <<products, orders, calls, pos, reserved, priced, job, answer,
                 events, applied, disturbed>>

-----------------------------------------------------------------------------

CreateStep(r) ==
  \/ FindExisting(r) \/ CheckItem(r) \/ SendReserve(r) \/ ReserveSucceeds(r)
  \/ ReserveFails(r) \/ PriceItem(r) \/ InsertOrder(r) \/ PublishCreated(r)

HandlerStep(h) == UpdateStatus(h) \/ PublishUpdated(h)

ReleaseStep(c) == SendRelease(c) \/ ReleaseReturns(c) \/ CompensationEnds(c)

ProductStep == \E call \in calls : HandleReserve(call) \/ HandleRelease(call)

Next ==
  \/ \E r \in Requests : StartRequest(r) \/ CreateStep(r)
  \/ \E h \in Handlers :
       \/ \E kind \in {"confirm", "cancel"}, o \in Requests : LookUp(h, kind, o)
       \/ HandlerStep(h)
  \/ \E c \in Callers : ReleaseStep(c) \/ Crash(c)
  \/ ProductStep
  \/ \E p \in Products : DeleteProduct(p)

Spec == Init /\ [][Next]_vars

(* Node runs a handler whose await is over, and nc.request's timer fires:  *)
(* each caller's enabled step is taken unless its process crashes.         *)
CallerStep(c) ==
  \/ c \in Requests /\ CreateStep(c)
  \/ c \in Handlers /\ HandlerStep(c)
  \/ ReleaseStep(c)

(* Nothing is assumed of product-service or NATS: calls may be lost.       *)
LossySpec == Spec /\ \A c \in Callers : WF_vars(CallerStep(c))

-----------------------------------------------------------------------------

DataTypes ==
  /\ IsTable(products) /\ DOMAIN products = Products
  /\ orders \in [Requests -> Statuses \cup {NoOrder}]
  /\ events \subseteq [type: {"order.created", "order.confirmed", "order.cancelled"},
                       order: Requests]
  /\ disturbed \subseteq Requests

NetTypes ==
  /\ calls \subseteq CallSet
  /\ applied \subseteq CallSet
  /\ replies \subseteq [call: CallSet, ok: BOOLEAN]

HandlerTypes ==
  /\ pc \in [Callers -> Phases]
  /\ pos \in [Callers -> Nat \ {0}]
  /\ reserved \in [Requests -> Nat]
  /\ priced \in [Requests -> BOOLEAN]
  /\ job \in [Handlers -> Job \cup {None}]
  /\ answer \in [Callers -> Requests \cup {"failed", None}]

TypeOK == DataTypes /\ NetTypes /\ HandlerTypes

(* Some cancelOrder has read order r and set out to release its stock.     *)
BeingCancelled(r) == \E h \in Handlers : job[h] = [kind |-> "cancel", order |-> r]

(* An order that nobody has begun to cancel holds the stock of every one   *)
(* of its items: createOrder inserts the row only after product-service    *)
(* has decremented each of them, and no release of them was ever applied,  *)
(* whatever was lost, late, retried or deleted on the way.                 *)
OrderHasItsStock ==
  \A r \in Requests : orders[r] # NoOrder /\ ~BeingCancelled(r) =>
    \A i \in DOMAIN Items[r] :
      /\ Call("reserve", r, r, i) \in applied
      /\ \A c \in Callers : Call("release", c, r, i) \notin applied

(* Stock is given back only where it was taken: a release on its way or    *)
(* applied has its reservation applied before it.  createOrder compensates *)
(* only what was acknowledged, so a reservation whose reply was late is    *)
(* never released before, or instead of, being made.                       *)
ReleaseFollowsReserve ==
  \A call \in calls \cup applied : call.op = "release" =>
    Call("reserve", call.order, call.order, call.item) \in applied

(* One idempotency key makes at most one order, and every request that is  *)
(* answered with an order under that key is answered with that one, though *)
(* several of them may have passed the check before any row existed (the   *)
(* UNIQUE constraint decides).                                             *)
OneOrderPerKey ==
  \A r1, r2 \in Requests : Key[r1] # NoKey /\ Key[r1] = Key[r2] =>
    /\ orders[r1] # NoOrder /\ orders[r2] # NoOrder => r1 = r2
    /\ {answer[r1], answer[r2]} \subseteq Requests =>
         /\ answer[r1] = answer[r2]
         /\ orders[answer[r1]] # NoOrder

(* The units of product p that orders nobody began to cancel count on.     *)
HeldItems(p) ==
  { x \in UNION { {r} \X DOMAIN Items[r] : r \in Requests } :
      /\ Items[x[1]][x[2]].product = p
      /\ orders[x[1]] \in Cancellable
      /\ ~BeingCancelled(x[1]) }
HeldUnits(p) ==
  UNION { {x} \X (1..Items[x[1]][x[2]].quantity) : x \in HeldItems(p) }
Held(p) == Cardinality(HeldUnits(p))

(* No unit of stock is promised twice: what is on the shelf plus what live *)
(* orders hold never exceeds what there was, as long as no two calls work  *)
(* on the same order at once and no cancellation is repeated after it      *)
(* stopped half way.                                                       *)
NoOversell ==
  disturbed = {} => \A p \in Products : products[p].stock + Held(p) <= InitStock[p]

(* While nothing is lost, stock is neither lost nor invented: once every   *)
(* call has run to its end and been handled, the shelf and the live orders *)
(* add up to what there was, so failed requests and cancelled orders hold  *)
(* nothing, whatever two sagas took from each other on the way.  (For      *)
(* instances without timeout, dbError, overflow and delete, and with keys  *)
(* that do not clash: FailedSagaHoldsNoStock is about the others.)         *)
StockAddsUp ==
  (/\ \A c \in Callers : pc[c] \in {"idle", "done"}
   /\ calls = {} /\ disturbed = {})
  => \A p \in Products : products[p].stock + Held(p) = InitStock[p]

(* A cancelled order stays cancelled, unless a confirmation that had read  *)
(* it before overtakes the cancellation; then `disturbed` names it.        *)
CancelledIsFinal ==
  [][\A r \in Requests :
       orders[r] = "CANCELLED" /\ orders'[r] # "CANCELLED" => r \in disturbed]_vars

(* Every HTTP call ends with an answer, although product-service may never *)
(* handle one of its NATS calls: natsRequest has a timeout and each loop   *)
(* an end.  (That the database answers or fails is FairSpec's assumption;  *)
(* nothing in the code bounds it.)                                         *)
EveryCallEnds ==
  \A c \in Callers : pc[c] # "idle" ~> pc[c] \in Ended

-----------------------------------------------------------------------------
(* What comments in the code promise, and the code does not.               *)

(* `Saga compensation: release any stock that was reserved`: a createOrder *)
(* that answered with an error and left no row holds no stock.             *)
FailedSagaHoldsNoStock ==
  \A r \in Requests : answer[r] = "failed" /\ orders[r] = NoOrder =>
    \A i \in DOMAIN Items[r] :
      Call("reserve", r, r, i) \in applied => Call("release", r, r, i) \in applied

(* `Saga compensation: release reserved stock`: cancelling gives back what *)
(* is reserved, so the stock of an order is given back at most once.       *)
StockReleasedOnce ==
  \A r \in Requests : \A i \in DOMAIN Items[r] :
    Cardinality({c \in Callers : Call("release", c, r, i) \in applied}) <= 1
=============================================================================
