-------------------------- MODULE OrderSagaProofs ---------------------------
(***************************************************************************)
(* Proofs about OrderSaga, for every set of requests and handlers, every   *)
(* assignment of items and keys, and every combination of faults; in five  *)
(* parts: types and progress (SafeInv), overlapping handlers (OverlapInv), *)
(* the refinement, the ledger of stock (BookInv), and what is left of it   *)
(* in instances where nothing is lost (CalmInv).                           *)
(***************************************************************************)
EXTENDS SagaRefinement, ProductStoreProofs, FiniteSetTheorems

ReserveOf(r, i) == Call("reserve", r, r, i)

(* The first n items of request r have been reserved.                      *)
ReservedUpTo(r, n) ==
  \A i \in DOMAIN Items[r] : i <= n => ReserveOf(r, i) \in applied

(* Where a createOrder is in its handler says how far it has reserved.     *)
RequestInv(r) ==
  /\ pc[r] \in CreatePhases \cup Ended
  /\ reserved[r] <= Len(Items[r])
  /\ ReservedUpTo(r, reserved[r])
  /\ pc[r] \in {"idle", "find", "check"} => reserved[r] = 0
  /\ pc[r] \in {"idle", "find"} => pos[r] = 1
  /\ pc[r] \in {"check", "reserve", "reserving", "price"} => pos[r] <= Len(Items[r])
  /\ pc[r] \in {"reserve", "reserving"} => reserved[r] = pos[r] - 1
  /\ pc[r] = "compensating" => pos[r] <= reserved[r]
  /\ pc[r] \in {"price", "insert", "publish"} => reserved[r] = Len(Items[r])
  /\ orders[r] # NoOrder =>
       /\ pc[r] \in {"publish"} \cup Ended
       /\ reserved[r] = Len(Items[r])
  /\ pc[r] = "publish" => orders[r] # NoOrder

(* A confirmOrder or cancelOrder past its findFirst works on an order that *)
(* exists.                                                                 *)
HandlerInv(h) ==
  /\ pc[h] \in HandlerPhases \cup Ended
  /\ pc[h] = "idle" => job[h] = None /\ pos[h] = 1
  /\ pc[h] \in HandlerPhases \ {"idle"} => job[h] # None
  /\ pc[h] \in {"compensate", "compensating"} => job[h].kind = "cancel"
  /\ pc[h] = "compensating" => pos[h] <= Len(Items[job[h].order])
  /\ job[h] # None => orders[job[h].order] # NoOrder

(* What a call in flight or applied says of its sender.                    *)
CallInv(call) ==
  /\ call.item \in DOMAIN Items[call.order]
  /\ call.op = "reserve" => call.by = call.order
  /\ call.op = "release" =>
       \/ /\ call.by \in Requests
          /\ call.by = call.order
          /\ call.item <= reserved[call.by]
          /\ orders[call.by] = NoOrder
          /\ pc[call.by] \in {"compensate", "compensating"} \cup Ended
       \/ /\ call.by \in Handlers
          /\ job[call.by] = [kind |-> "cancel", order |-> call.order]

(* `reserved: true` is only ever said of a reservation that was applied.   *)
RepliesAreTrue ==
  \A m \in replies : m.ok /\ m.call.op = "reserve" => m.call \in applied

(* The UNIQUE constraint, and what an answer promises.                     *)
KeyInv ==
  /\ \A r1, r2 \in Requests :
       Key[r1] # NoKey /\ Key[r1] = Key[r2] /\ orders[r1] # NoOrder /\ orders[r2] # NoOrder
         => r1 = r2
  /\ \A r \in Requests : answer[r] \in Requests =>
       /\ orders[answer[r]] # NoOrder
       /\ answer[r] = r \/ (Key[r] # NoKey /\ Key[answer[r]] = Key[r])

SafeInv ==
  /\ TypeOK
  /\ \A r \in Requests : RequestInv(r)
  /\ \A h \in Handlers : HandlerInv(h)
  /\ \A call \in calls \cup applied : CallInv(call)
  /\ RepliesAreTrue
  /\ KeyInv

(* Two calls at work on one order have disturbed it, and a confirmation    *)
(* about to write finds an undisturbed order not cancelled.                *)
OverlapInv ==
  /\ \A h1, h2 \in Handlers :
       /\ h1 # h2
       /\ job[h1] # None /\ job[h2] # None /\ job[h1].order = job[h2].order
       /\ pc[h1] \notin Ended /\ pc[h2] \notin Ended
       => job[h1].order \in disturbed
  /\ \A h \in Handlers :
       pc[h] = "update" /\ job[h].kind = "confirm" /\ job[h].order \notin disturbed
         => orders[job[h].order] # "CANCELLED"

-----------------------------------------------------------------------------

(* What the assumption on Items says of one request's items.               *)
LEMMA ItemFacts ==
  ASSUME NEW r \in Requests
  PROVE  /\ Len(Items[r]) \in Nat \ {0}
         /\ DOMAIN Items[r] = 1..Len(Items[r])
         /\ \A i \in DOMAIN Items[r] : /\ Items[r][i].product \in Products
                                      /\ Items[r][i].quantity \in Nat \ {0}
<1> DEFINE Item == [product: Products, quantity: Nat \ {0}]
<1>1. Items[r] \in Seq(Item) /\ Items[r] # <<>>
  BY ItemsAssumption
<1> HIDE DEF Item
<1>2. \A i \in 1..Len(Items[r]) : Items[r][i] \in Item
  BY <1>1
<1>3. Len(Items[r]) \in Nat /\ DOMAIN Items[r] = 1..Len(Items[r]) /\ Len(Items[r]) # 0
  BY <1>1
<1>4. QED
  BY <1>2, <1>3 DEF Item

LEMMA InitSafeInv == Init => SafeInv /\ OverlapInv
<1> SUFFICES ASSUME Init PROVE SafeInv /\ OverlapInv
  OBVIOUS
<1>1. IsTable(products) /\ DOMAIN products = Products
  <2>1. \A p \in Products : products[p] \in Row
    BY NewRowType, DetailsAssumption, StockAssumption DEF Init
  <2>2. QED
    BY <2>1 DEF Init, IsTable
<1>2. TypeOK
  BY <1>1 DEF Init, TypeOK, DataTypes, NetTypes, HandlerTypes, Phases, CreatePhases
<1>3. \A r \in Requests : RequestInv(r)
  BY ItemFacts DEF Init, RequestInv, ReservedUpTo, Callers, CreatePhases
<1>4. \A h \in Handlers : HandlerInv(h)
  BY DEF Init, HandlerInv, Callers, HandlerPhases
<1>5. KeyInv
  BY NoneAssumption DEF Init, KeyInv, Callers
<1>6. QED
  BY <1>1, <1>2, <1>3, <1>4, <1>5 DEF Init, SafeInv, RepliesAreTrue, OverlapInv, Callers

-----------------------------------------------------------------------------
(* Type correctness.                                                       *)

(* Moving a caller to another phase, and to another item of its loop.      *)
LEMMA GoTypes ==
  ASSUME HandlerTypes, NEW c \in Callers, NEW phase \in Phases, Go(c, phase)
  PROVE  /\ pc' \in [Callers -> Phases]
         /\ pc'[c] = phase
         /\ \A d \in Callers : d # c => pc'[d] = pc[d]
BY DEF HandlerTypes, Go

LEMMA GoAtTypes ==
  ASSUME HandlerTypes, NEW c \in Callers, NEW phase \in Phases, NEW i \in Nat \ {0},
         GoAt(c, phase, i)
  PROVE  /\ pc' \in [Callers -> Phases]
         /\ pc'[c] = phase
         /\ \A d \in Callers : d # c => pc'[d] = pc[d]
         /\ pos' \in [Callers -> Nat \ {0}]
         /\ pos'[c] = i
         /\ \A d \in Callers : d # c => pos'[d] = pos[d]
BY DEF HandlerTypes, GoAt, Go

LEMMA NextItemTypes ==
  ASSUME HandlerTypes, NEW r \in Requests, NEW phase \in Phases, NEW after \in Phases,
         NextItem(r, phase, after)
  PROVE  /\ pc' \in [Callers -> Phases]
         /\ pos' \in [Callers -> Nat \ {0}]
         /\ \A d \in Callers : d # r => pc'[d] = pc[d] /\ pos'[d] = pos[d]
         /\ \/ /\ pos[r] < Len(Items[r])
               /\ pc'[r] = phase /\ pos'[r] = pos[r] + 1
            \/ /\ pos[r] >= Len(Items[r])
               /\ pc'[r] = after /\ pos'[r] = 1
<1>1. r \in Callers /\ OrderOf(r) = r /\ pos[r] \in Nat \ {0}
  BY DEF Callers, OrderOf, HandlerTypes
<1>2. CASE pos[r] < Len(Items[r])
  <2>1. GoAt(r, phase, pos[r] + 1) /\ pos[r] + 1 \in Nat \ {0}
    BY <1>1, <1>2 DEF NextItem
  <2>2. QED
    BY <1>1, <1>2, <2>1, GoAtTypes
<1>3. CASE ~(pos[r] < Len(Items[r]))
  <2>1. GoAt(r, after, 1)
    BY <1>1, <1>3 DEF NextItem
  <2>2. QED
    BY <1>1, <1>3, <2>1, GoAtTypes, ItemFacts
<1>4. QED
  BY <1>2, <1>3

LEMMA FinishTypes ==
  ASSUME HandlerTypes, NEW c \in Callers, NEW a \in Requests \cup {"failed"}, Finish(c, a)
  PROVE  /\ pc' \in [Callers -> Phases]
         /\ pc'[c] = "done"
         /\ \A d \in Callers : d # c => pc'[d] = pc[d]
         /\ answer' \in [Callers -> Requests \cup {"failed", None}]
         /\ answer'[c] = a
         /\ \A d \in Callers : d # c => answer'[d] = answer[d]
BY DEF HandlerTypes, Finish, Go, Phases, Ended

(* A step of createOrder leaves the variables well-typed.                  *)
LEMMA CreateTypes ==
  ASSUME TypeOK, NEW r \in Requests, StartRequest(r) \/ CreateStep(r)
  PROVE  TypeOK'
<1>0. r \in Callers /\ HandlerTypes /\ NetTypes
  BY DEF Callers, TypeOK
<1> USE DEF TypeOK, DataTypes, NetTypes
<1>1. CASE StartRequest(r)
  <2>1. pc' \in [Callers -> Phases]
    BY <1>0, <1>1, GoTypes DEF StartRequest, Phases, CreatePhases
  <2>2. QED
    BY <1>0, <1>1, <2>1 DEF StartRequest, HandlerTypes, netVars, IsTable
<1>2. CASE FindExisting(r)
  <2>1. /\ pc' \in [Callers -> Phases]
        /\ answer' \in [Callers -> Requests \cup {"failed", None}]
    <3>1. CASE Go(r, "check") /\ UNCHANGED answer
      BY <1>0, <3>1, GoTypes DEF HandlerTypes, Phases, CreatePhases
    <3>2. CASE \E a \in Requests \cup {"failed"} : Finish(r, a)
      BY <1>0, <3>2, FinishTypes
    <3>3. QED
      BY <1>2, <3>1, <3>2 DEF FindExisting
  <2>2. QED
    BY <1>0, <1>2, <2>1 DEF FindExisting, HandlerTypes, netVars, IsTable
<1>3. CASE CheckItem(r)
  <2>1. /\ pc' \in [Callers -> Phases] /\ pos' \in [Callers -> Nat \ {0}]
        /\ answer' \in [Callers -> Requests \cup {"failed", None}]
    <3>1. CASE NextItem(r, "check", "reserve") /\ UNCHANGED answer
      BY <1>0, <3>1, NextItemTypes DEF HandlerTypes, Phases, CreatePhases
    <3>2. CASE Finish(r, "failed") /\ UNCHANGED pos
      BY <1>0, <3>2, FinishTypes DEF HandlerTypes
    <3>3. QED
      BY <1>3, <3>1, <3>2 DEF CheckItem
  <2>2. QED
    BY <1>0, <1>3, <2>1 DEF CheckItem, HandlerTypes, netVars, IsTable
<1>4. CASE SendReserve(r)
  <2>1. pc' \in [Callers -> Phases]
    BY <1>0, <1>4, GoTypes DEF SendReserve, Send, Phases, CreatePhases
  <2>2. calls' \subseteq CallSet
    BY <1>0, <1>4 DEF SendReserve, Send, Call, CallSet, HandlerTypes
  <2>3. QED
    BY <1>0, <1>4, <2>1, <2>2 DEF SendReserve, Send, HandlerTypes, IsTable
<1>5. CASE ReserveSucceeds(r)
  <2>1. pc' \in [Callers -> Phases] /\ pos' \in [Callers -> Nat \ {0}]
    BY <1>0, <1>5, NextItemTypes DEF ReserveSucceeds, Phases, CreatePhases
  <2>2. replies' \subseteq [call: CallSet, ok: BOOLEAN]
    BY <1>0, <1>5 DEF ReserveSucceeds
  <2>3. QED
    BY <1>0, <1>5, <2>1, <2>2 DEF ReserveSucceeds, HandlerTypes, IsTable
<1>6. CASE ReserveFails(r)
  <2>1. pc' \in [Callers -> Phases] /\ pos' \in [Callers -> Nat \ {0}]
    BY <1>0, <1>6, GoAtTypes DEF ReserveFails, Phases, CreatePhases
  <2>2. replies' \subseteq [call: CallSet, ok: BOOLEAN]
    BY <1>0, <1>6 DEF ReserveFails, GiveUp
  <2>3. QED
    BY <1>0, <1>6, <2>1, <2>2 DEF ReserveFails, HandlerTypes, IsTable
<1>7. CASE PriceItem(r)
  <2>1. pc' \in [Callers -> Phases] /\ pos' \in [Callers -> Nat \ {0}]
    BY <1>0, <1>7, NextItemTypes DEF PriceItem, Phases, CreatePhases
  <2>2. priced' \in [Requests -> BOOLEAN]
    BY <1>0, <1>7 DEF PriceItem, HandlerTypes
  <2>3. QED
    BY <1>0, <1>7, <2>1, <2>2 DEF PriceItem, HandlerTypes, netVars, IsTable
<1>8. CASE InsertOrder(r)
  <2>1. /\ pc' \in [Callers -> Phases]
        /\ answer' \in [Callers -> Requests \cup {"failed", None}]
    <3>1. CASE Go(r, "publish") /\ UNCHANGED answer
      BY <1>0, <3>1, GoTypes DEF HandlerTypes, Phases, CreatePhases
    <3>2. CASE Finish(r, "failed")
      BY <1>0, <3>2, FinishTypes
    <3>3. QED
      BY <1>8, <3>1, <3>2 DEF InsertOrder
  <2>2. orders' \in [Requests -> Statuses \cup {NoOrder}]
    BY <1>8 DEF InsertOrder, Statuses
  <2>3. QED
    BY <1>0, <1>8, <2>1, <2>2 DEF InsertOrder, HandlerTypes, netVars, IsTable
<1>9. CASE PublishCreated(r)
  <2>1. /\ pc' \in [Callers -> Phases]
        /\ answer' \in [Callers -> Requests \cup {"failed", None}]
    BY <1>0, <1>9, FinishTypes DEF PublishCreated
  <2>2. events' \subseteq [type: {"order.created", "order.confirmed", "order.cancelled"},
                          order: Requests]
    BY <1>9 DEF PublishCreated
  <2>3. QED
    BY <1>0, <1>9, <2>1, <2>2 DEF PublishCreated, HandlerTypes, netVars, IsTable
<1>10. QED
  BY <1>1, <1>2, <1>3, <1>4, <1>5, <1>6, <1>7, <1>8, <1>9 DEF CreateStep

(* The order a caller's compensation is about.                             *)
LEMMA OrderOfFacts ==
  ASSUME SafeInv, NEW c \in Callers,
         c \in Requests \/ pc[c] \in HandlerPhases \ {"idle"}
  PROVE  /\ OrderOf(c) \in Requests
         /\ c \in Requests => OrderOf(c) = c
         /\ c \notin Requests => c \in Handlers /\ job[c] \in Job /\ OrderOf(c) = job[c].order
BY DEF SafeInv, HandlerInv, TypeOK, HandlerTypes, Callers, OrderOf, Job

(* A step of compensateReservations leaves the variables well-typed.       *)
LEMMA ReleaseTypes ==
  ASSUME SafeInv, NEW c \in Callers, ReleaseStep(c)
  PROVE  TypeOK'
<1>0. HandlerTypes /\ NetTypes /\ DataTypes
  BY DEF SafeInv, TypeOK
<1> USE DEF TypeOK, DataTypes, NetTypes
<1>1. CASE SendRelease(c)
  <2>1. pc' \in [Callers -> Phases]
    BY <1>0, <1>1, GoTypes DEF SendRelease, Send, Phases, CreatePhases
  <2>2. OrderOf(c) \in Requests /\ pos[c] \in Nat \ {0}
    BY <1>0, <1>1, OrderOfFacts DEF SendRelease, HandlerPhases, HandlerTypes
  <2>3. calls' \subseteq CallSet
    BY <1>0, <1>1, <2>2 DEF SendRelease, Send, Call, CallSet
  <2>4. QED
    BY <1>0, <1>1, <2>1, <2>3 DEF SendRelease, Send, HandlerTypes, IsTable
<1>2. CASE ReleaseReturns(c)
  <2>1. pos[c] + 1 \in Nat \ {0}
    BY <1>0 DEF HandlerTypes
  <2>2. pc' \in [Callers -> Phases] /\ pos' \in [Callers -> Nat \ {0}]
    BY <1>0, <1>2, <2>1, GoAtTypes DEF ReleaseReturns, Phases, CreatePhases
  <2>3. replies' \subseteq [call: CallSet, ok: BOOLEAN]
    BY <1>0, <1>2 DEF ReleaseReturns, GiveUp
  <2>4. QED
    BY <1>0, <1>2, <2>2, <2>3 DEF ReleaseReturns, HandlerTypes, IsTable
<1>3. CASE CompensationEnds(c)
  <2>1. /\ pc' \in [Callers -> Phases]
        /\ answer' \in [Callers -> Requests \cup {"failed", None}]
    <3>1. CASE Go(c, "update") /\ UNCHANGED answer
      BY <1>0, <3>1, GoTypes DEF HandlerTypes, Phases, HandlerPhases
    <3>2. CASE Finish(c, "failed")
      BY <1>0, <3>2, FinishTypes
    <3>3. QED
      BY <1>3, <3>1, <3>2 DEF CompensationEnds
  <2>2. QED
    BY <1>0, <1>3, <2>1 DEF CompensationEnds, HandlerTypes, netVars, IsTable
<1>4. QED
  BY <1>1, <1>2, <1>3 DEF ReleaseStep

(* A step of confirmOrder or cancelOrder leaves the variables well-typed.  *)
LEMMA HandlerStepTypes ==
  ASSUME SafeInv, NEW h \in Handlers,
         \/ \E kind \in {"confirm", "cancel"}, o \in Requests : LookUp(h, kind, o)
         \/ HandlerStep(h)
  PROVE  TypeOK'
<1>0. h \in Callers /\ HandlerTypes /\ NetTypes /\ DataTypes
  BY DEF SafeInv, TypeOK, Callers
<1> USE DEF TypeOK, DataTypes, NetTypes
<1>1. ASSUME NEW kind \in {"confirm", "cancel"}, NEW o \in Requests, LookUp(h, kind, o)
      PROVE  TypeOK'
  <2>1. CASE /\ job' = [job EXCEPT ![h] = [kind |-> kind, order |-> o]]
             /\ Go(h, IF kind = "confirm" THEN "update" ELSE "compensate")
             /\ UNCHANGED answer
             /\ disturbed' \subseteq disturbed \cup {o}
    <3>1. pc' \in [Callers -> Phases]
      BY <1>0, <2>1, GoTypes DEF Phases, HandlerPhases
    <3>2. job' \in [Handlers -> Job \cup {None}]
      BY <1>0, <2>1 DEF Job, HandlerTypes
    <3>3. QED
      BY <1>0, <1>1, <2>1, <3>1, <3>2 DEF LookUp, HandlerTypes, netVars, IsTable
  <2>2. CASE Finish(h, "failed") /\ UNCHANGED <<job, disturbed>>
    BY <1>0, <1>1, <2>2, FinishTypes DEF LookUp, HandlerTypes, netVars, IsTable
  <2>3. QED
    BY <1>1, <2>1, <2>2 DEF LookUp
<1>2. CASE UpdateStatus(h)
  <2>1. job[h] \in Job
    BY <1>0, <1>2 DEF UpdateStatus, SafeInv, HandlerInv, HandlerPhases, HandlerTypes
  <2>2. /\ pc' \in [Callers -> Phases]
        /\ answer' \in [Callers -> Requests \cup {"failed", None}]
    <3>1. CASE Go(h, "publish") /\ UNCHANGED answer
      BY <1>0, <3>1, GoTypes DEF HandlerTypes, Phases, HandlerPhases
    <3>2. CASE Finish(h, "failed")
      BY <1>0, <3>2, FinishTypes
    <3>3. QED
      BY <1>2, <3>1, <3>2 DEF UpdateStatus
  <2>3. orders' \in [Requests -> Statuses \cup {NoOrder}]
    BY <1>0, <1>2, <2>1 DEF UpdateStatus, Statuses, Job, NewStatus
  <2>4. QED
    BY <1>0, <1>2, <2>2, <2>3 DEF UpdateStatus, HandlerTypes, netVars, IsTable
<1>3. CASE PublishUpdated(h)
  <2>1. job[h].order \in Requests
    BY <1>0, <1>3 DEF PublishUpdated, SafeInv, HandlerInv, HandlerPhases, HandlerTypes, Job
  <2>2. /\ pc' \in [Callers -> Phases]
        /\ answer' \in [Callers -> Requests \cup {"failed", None}]
    <3>1. PICK a \in Requests \cup {"failed"} : Finish(h, a)
      BY <1>3, <2>1 DEF PublishUpdated
    <3>2. QED
      BY <1>0, <3>1, FinishTypes
  <2>3. events' \subseteq [type: {"order.created", "order.confirmed", "order.cancelled"},
                          order: Requests]
    BY <1>0, <1>3, <2>1 DEF PublishUpdated
  <2>4. QED
    BY <1>0, <1>3, <2>2, <2>3 DEF PublishUpdated, HandlerTypes, netVars, IsTable
<1>4. QED
  BY <1>1, <1>2, <1>3 DEF HandlerStep

(* So do product-service's responders, an admin's delete and a crash.      *)
LEMMA WorldTypes ==
  ASSUME SafeInv,
         \/ ProductStep
         \/ \E p \in Products : DeleteProduct(p)
         \/ \E c \in Callers : Crash(c)
  PROVE  TypeOK'
<1>0. HandlerTypes /\ NetTypes /\ DataTypes
  BY DEF SafeInv, TypeOK
<1> USE DEF TypeOK, DataTypes, NetTypes
<1>1. ASSUME NEW call \in calls
      PROVE  /\ call \in CallSet
             /\ ItemOf(call).product \in Products
             /\ ItemOf(call).quantity \in Nat
             /\ \A ok \in BOOLEAN : Reply(call, ok) =>
                   replies' \subseteq [call: CallSet, ok: BOOLEAN]
  <2>1. call \in CallSet /\ CallInv(call)
    BY <1>0 DEF SafeInv
  <2>2. ItemOf(call).product \in Products /\ ItemOf(call).quantity \in Nat
    BY <2>1, ItemFacts DEF CallInv, CallSet, ItemOf
  <2>3. QED
    BY <1>0, <2>1, <2>2 DEF Reply
<1>2. ASSUME NEW call \in calls, HandleReserve(call)
      PROVE  TypeOK'
  <2> DEFINE p == ItemOf(call).product
             n == ItemOf(call).quantity
  <2>1. p \in Products /\ n \in Nat /\ call \in CallSet
    BY <1>1
  <2>2. replies' \subseteq [call: CallSet, ok: BOOLEAN]
    BY <1>1, <1>2 DEF HandleReserve
  <2>3. /\ IsTable(products') /\ DOMAIN products' = Products
        /\ applied' \subseteq CallSet
    <3>1. CASE CanReserve(products, p, n) /\ products' = ReserveRow(products, p, n)
      <4>1. IsTable(products') /\ DOMAIN products' = Products
        <5> HIDE DEF p, n
        <5>1. QED
          BY <1>0, <2>1, <3>1, ReserveRowTable
      <4>2. QED
        BY <1>0, <1>2, <2>1, <4>1 DEF HandleReserve
    <3>2. CASE UNCHANGED <<products, applied>>
      BY <1>0, <3>2 DEF IsTable
    <3>3. QED
      BY <1>2, <3>1, <3>2 DEF HandleReserve
  <2>4. QED
    BY <1>0, <1>2, <2>2, <2>3 DEF HandleReserve, HandlerTypes
<1>3. ASSUME NEW call \in calls, HandleRelease(call)
      PROVE  TypeOK'
  <2> DEFINE p == ItemOf(call).product
             n == ItemOf(call).quantity
  <2>1. p \in Products /\ n \in Nat /\ call \in CallSet
    BY <1>1
  <2>2. replies' \subseteq [call: CallSet, ok: BOOLEAN]
    BY <1>1, <1>3 DEF HandleRelease
  <2>3. /\ IsTable(products') /\ DOMAIN products' = Products
        /\ applied' \subseteq CallSet
    <3>1. CASE Live(products, p) /\ products' = ReleaseRow(products, p, n)
      <4>1. IsTable(products') /\ DOMAIN products' = Products
        <5> HIDE DEF p, n
        <5>1. QED
          BY <1>0, <2>1, <3>1, ReleaseRowTable DEF Live
      <4>2. QED
        BY <1>0, <1>3, <2>1, <4>1 DEF HandleRelease
    <3>2. CASE UNCHANGED <<products, applied>>
      BY <1>0, <3>2 DEF IsTable
    <3>3. QED
      BY <1>3, <3>1, <3>2 DEF HandleRelease
  <2>4. QED
    BY <1>0, <1>3, <2>2, <2>3 DEF HandleRelease, HandlerTypes
<1>4. ASSUME NEW p \in Products, DeleteProduct(p)
      PROVE  TypeOK'
  <2>1. IsTable(products') /\ DOMAIN products' = Products
    BY <1>0, <1>4, DeleteRowTable DEF DeleteProduct, Live
  <2>2. QED
    BY <1>0, <1>4, <2>1 DEF DeleteProduct, HandlerTypes
<1>5. ASSUME NEW c \in Callers, Crash(c)
      PROVE  TypeOK'
  <2>1. pc' \in [Callers -> Phases]
    BY <1>0, <1>5, GoTypes DEF Crash, Phases, Ended
  <2>2. replies' \subseteq [call: CallSet, ok: BOOLEAN]
    BY <1>0, <1>5 DEF Crash
  <2>3. QED
    BY <1>0, <1>5, <2>1, <2>2 DEF Crash, HandlerTypes, IsTable
<1>6. QED
  BY <1>2, <1>3, <1>4, <1>5 DEF ProductStep

LEMMA TypeStep == SafeInv /\ [Next]_vars => TypeOK'
<1> SUFFICES ASSUME SafeInv, [Next]_vars PROVE TypeOK'
  OBVIOUS
<1>1. CASE UNCHANGED vars
  BY <1>1 DEF SafeInv, TypeOK, DataTypes, NetTypes, HandlerTypes, vars, IsTable
<1>2. CASE Next
  BY <1>2, CreateTypes, ReleaseTypes, HandlerStepTypes, WorldTypes DEF Next, SafeInv
<1>3. QED
  BY <1>1, <1>2

-----------------------------------------------------------------------------
(* createOrder's progress.                                                 *)

(* A step of another caller leaves a request's progress standing.          *)
LEMMA UntouchedRequest ==
  ASSUME NEW r \in Requests, RequestInv(r),
         pc'[r] = pc[r], pos'[r] = pos[r], reserved'[r] = reserved[r],
         applied \subseteq applied',
         orders[r] = NoOrder <=> orders'[r] = NoOrder
  PROVE  RequestInv(r)'
BY DEF RequestInv, ReservedUpTo

(* A request's own step takes its progress from one phase to the next.     *)
LEMMA RequestStep ==
  ASSUME SafeInv, NEW r \in Requests,
         StartRequest(r) \/ CreateStep(r) \/ ReleaseStep(r) \/ Crash(r)
  PROVE  RequestInv(r)'
<1>0. /\ r \in Callers /\ HandlerTypes /\ RequestInv(r)
      /\ OrderOf(r) = r
      /\ pos[r] \in Nat \ {0} /\ reserved[r] \in Nat /\ Len(Items[r]) \in Nat \ {0}
      /\ DOMAIN Items[r] = 1..Len(Items[r])
  BY ItemFacts DEF Callers, SafeInv, TypeOK, HandlerTypes, OrderOf
<1> USE DEF RequestInv, ReservedUpTo, CreatePhases, Ended
<1>1. CASE StartRequest(r)
  <2>1. pc[r] = "idle" /\ pc'[r] \in {"check", "find"}
    BY <1>0, <1>1, GoTypes DEF StartRequest, Phases
  <2>2. QED
    BY <1>0, <1>1, <2>1 DEF StartRequest, netVars
<1>2. CASE FindExisting(r)
  <2>1. pc[r] = "find" /\ pc'[r] \in {"check", "done"}
    BY <1>0, <1>2, GoTypes, FinishTypes DEF FindExisting, Phases
  <2>2. QED
    BY <1>0, <1>2, <2>1 DEF FindExisting, netVars
<1>3. CASE CheckItem(r)
  <2>1. /\ pc[r] = "check"
        /\ \/ pc'[r] = "done"
           \/ pos[r] < Len(Items[r]) /\ pc'[r] = "check" /\ pos'[r] = pos[r] + 1
           \/ pc'[r] = "reserve" /\ pos'[r] = 1
    <3>1. CASE NextItem(r, "check", "reserve")
      <4> HIDE DEF RequestInv, ReservedUpTo, Ended
      <4>1. pc[r] = "check"
        BY <1>3 DEF CheckItem
      <4>2. "check" \in Phases /\ "reserve" \in Phases
        BY DEF Phases
      <4>3. QED
        BY <1>0, <3>1, <4>1, <4>2, NextItemTypes
    <3>2. CASE Finish(r, "failed")
      BY <1>0, <1>3, <3>2, FinishTypes DEF CheckItem
    <3>3. QED
      BY <1>3, <3>1, <3>2 DEF CheckItem
  <2>2. QED
    BY <1>0, <1>3, <2>1 DEF CheckItem, netVars
<1>4. CASE SendReserve(r)
  <2>1. pc[r] = "reserve" /\ pc'[r] = "reserving"
    BY <1>0, <1>4, GoTypes DEF SendReserve, Send, Phases
  <2>2. QED
    BY <1>0, <1>4, <2>1 DEF SendReserve, Send
<1>5. CASE ReserveSucceeds(r)
  <2>1. /\ pc[r] = "reserving"
        /\ \/ pos[r] < Len(Items[r]) /\ pc'[r] = "reserve" /\ pos'[r] = pos[r] + 1
           \/ pos[r] >= Len(Items[r]) /\ pc'[r] = "price" /\ pos'[r] = 1
        /\ reserved'[r] = pos[r] /\ orders'[r] = orders[r] /\ applied' = applied
    BY <1>0, <1>5, NextItemTypes DEF ReserveSucceeds, Phases, HandlerTypes
  <2>2. CurrentCall(r) = ReserveOf(r, pos[r]) /\ CurrentCall(r).op = "reserve"
    BY <1>0, <2>1 DEF CurrentCall, ReserveOf, Call
  <2>3. ReserveOf(r, pos[r]) \in applied
    BY <1>5, <2>2 DEF ReserveSucceeds, SafeInv, RepliesAreTrue
  <2>4. \A i \in DOMAIN Items[r] : i <= pos[r] => i <= reserved[r] \/ i = pos[r]
    BY <1>0, <2>1
  <2>5. QED
    BY <1>0, <2>1, <2>3, <2>4
<1>6. CASE ReserveFails(r)
  <2>1. pc[r] = "reserving" /\ pc'[r] = "compensate" /\ pos'[r] = 1
    BY <1>0, <1>6, GoAtTypes DEF ReserveFails, Phases
  <2>2. QED
    BY <1>0, <1>6, <2>1 DEF ReserveFails
<1>7. CASE PriceItem(r)
  <2>1. /\ pc[r] = "price"
        /\ \/ pos[r] < Len(Items[r]) /\ pc'[r] = "price" /\ pos'[r] = pos[r] + 1
           \/ pc'[r] = "insert" /\ pos'[r] = 1
    BY <1>0, <1>7, NextItemTypes DEF PriceItem, Phases
  <2>2. QED
    BY <1>0, <1>7, <2>1 DEF PriceItem, netVars
<1>8. CASE InsertOrder(r)
  <2>1. pc[r] = "insert" /\ pc'[r] \in {"publish", "done"}
    BY <1>0, <1>8, GoTypes, FinishTypes DEF InsertOrder, Phases
  <2>2. pc'[r] = "publish" => orders'[r] # NoOrder
    <3>1. CASE orders' = [orders EXCEPT ![r] = "STOCK_RESERVED"]
      BY <3>1 DEF SafeInv, TypeOK, DataTypes, NoOrder
    <3>2. CASE Finish(r, "failed")
      BY <1>0, <3>2, FinishTypes
    <3>3. QED
      BY <1>8, <3>1, <3>2 DEF InsertOrder
  <2>3. QED
    BY <1>0, <1>8, <2>1, <2>2 DEF InsertOrder, netVars
<1>9. CASE PublishCreated(r)
  <2>1. pc[r] = "publish" /\ pc'[r] = "done"
    BY <1>0, <1>9, FinishTypes DEF PublishCreated
  <2>2. QED
    BY <1>0, <1>9, <2>1 DEF PublishCreated, netVars
<1>10. CASE SendRelease(r)
  <2>1. pc[r] = "compensate" /\ pc'[r] = "compensating" /\ pos[r] <= reserved[r]
    BY <1>0, <1>10, GoTypes DEF SendRelease, Send, Phases, ReleaseCount
  <2>2. QED
    BY <1>0, <1>10, <2>1 DEF SendRelease, Send
<1>11. CASE ReleaseReturns(r)
  <2>1. pc[r] = "compensating" /\ pc'[r] = "compensate"
    BY <1>0, <1>11, GoAtTypes DEF ReleaseReturns, Phases
  <2>2. QED
    BY <1>0, <1>11, <2>1 DEF ReleaseReturns
<1>12. CASE CompensationEnds(r)
  <2>1. pc[r] = "compensate" /\ pc'[r] = "done"
    BY <1>0, <1>12, FinishTypes, CallersAssumption DEF CompensationEnds
  <2>2. QED
    BY <1>0, <1>12, <2>1 DEF CompensationEnds, netVars
<1>13. CASE Crash(r)
  <2>1. pc[r] \notin {"idle", "done", "crashed"} /\ pc'[r] = "crashed"
    BY <1>0, <1>13, GoTypes DEF Crash, Phases
  <2>2. QED
    BY <1>0, <1>13, <2>1 DEF Crash
<1>14. QED
  BY <1>1, <1>2, <1>3, <1>4, <1>5, <1>6, <1>7, <1>8, <1>9, <1>10, <1>11, <1>12, <1>13
     DEF CreateStep, ReleaseStep

-----------------------------------------------------------------------------
(* What a step leaves alone.                                               *)

CallerNext(c) ==
  \/ c \in Requests /\ (StartRequest(c) \/ CreateStep(c))
  \/ c \in Handlers /\ \/ \E kind \in {"confirm", "cancel"}, o \in Requests :
                              LookUp(c, kind, o)
                       \/ HandlerStep(c)
  \/ ReleaseStep(c)
  \/ Crash(c)

WorldNext == ProductStep \/ \E p \in Products : DeleteProduct(p)

LEMMA NextSplit == Next => (\E c \in Callers : CallerNext(c)) \/ WorldNext
BY DEF Next, CallerNext, WorldNext, Callers

(* The local variables of a caller are its own.                            *)
LEMMA LocalFrame ==
  ASSUME HandlerTypes, NEW c \in Callers, CallerNext(c), NEW d \in Callers, d # c
  PROVE  /\ pc'[d] = pc[d] /\ pos'[d] = pos[d] /\ answer'[d] = answer[d]
         /\ d \in Requests => reserved'[d] = reserved[d]
         /\ d \in Handlers => job'[d] = job[d]
<1> USE DEF HandlerTypes, Go, GoAt, Finish, netVars
<1>1. CASE c \in Requests /\ (StartRequest(c) \/ CreateStep(c))
  <2>1. CASE StartRequest(c) \/ FindExisting(c) \/ InsertOrder(c) \/ PublishCreated(c)
    BY <2>1 DEF StartRequest, FindExisting, InsertOrder, PublishCreated
  <2>2. CASE CheckItem(c) \/ PriceItem(c)
    BY <2>2 DEF CheckItem, PriceItem, NextItem
  <2>3. CASE SendReserve(c) \/ ReserveFails(c)
    BY <2>3 DEF SendReserve, Send, ReserveFails
  <2>4. CASE ReserveSucceeds(c)
    BY <2>4 DEF ReserveSucceeds, NextItem
  <2>5. QED
    BY <1>1, <2>1, <2>2, <2>3, <2>4 DEF CreateStep
<1>2. CASE c \in Handlers /\ \E kind \in {"confirm", "cancel"}, o \in Requests :
                              LookUp(c, kind, o)
  BY <1>2 DEF LookUp
<1>3. CASE c \in Handlers /\ HandlerStep(c)
  BY <1>3 DEF HandlerStep, UpdateStatus, PublishUpdated
<1>4. CASE ReleaseStep(c)
  BY <1>4 DEF ReleaseStep, SendRelease, Send, ReleaseReturns, CompensationEnds
<1>5. CASE Crash(c)
  BY <1>5 DEF Crash
<1>6. QED
  BY <1>1, <1>2, <1>3, <1>4, <1>5 DEF CallerNext

(* A caller's step applies nothing at product-service; the rows it may     *)
(* write are its own, or an order that exists.                             *)
LEMMA DataFrame ==
  ASSUME SafeInv, NEW c \in Callers, CallerNext(c)
  PROVE  /\ applied' = applied
         /\ \A r \in Requests : orders'[r] # orders[r] =>
              \/ r = c /\ InsertOrder(r)
              \/ c \in Handlers /\ UpdateStatus(c) /\ r = job[c].order
         /\ \A r \in Requests : orders[r] # NoOrder => orders'[r] # NoOrder
         /\ \A r \in Requests : r # c /\ orders[r] = NoOrder => orders'[r] = NoOrder
<1>0. DataTypes /\ HandlerTypes
  BY DEF SafeInv, TypeOK
<1>1. CASE c \in Requests /\ InsertOrder(c)
  BY <1>0, <1>1 DEF InsertOrder, netVars, DataTypes, NoOrder
<1>2. CASE c \in Handlers /\ UpdateStatus(c)
  <2>1. job[c] \in Job /\ orders[job[c].order] # NoOrder
    BY <1>0, <1>2 DEF UpdateStatus, SafeInv, HandlerInv, HandlerPhases, HandlerTypes
  <2>2. NewStatus(job[c].kind) # NoOrder
    BY DEF NewStatus, NoOrder
  <2>3. QED
    BY <1>0, <1>2, <2>1, <2>2 DEF UpdateStatus, netVars, DataTypes
<1>3. CASE UNCHANGED <<orders, applied>>
  BY <1>3
<1>4. QED
  BY <1>1, <1>2, <1>3
     DEF CallerNext, CreateStep, HandlerStep, ReleaseStep, StartRequest, FindExisting,
         CheckItem, SendReserve, Send, ReserveSucceeds, ReserveFails, PriceItem,
         PublishCreated, SendRelease, ReleaseReturns, CompensationEnds, LookUp,
         PublishUpdated, Crash, netVars

(* product-service and the admin touch nothing of order-service, and what  *)
(* has been applied stays applied.                                         *)
LEMMA WorldFrame ==
  ASSUME WorldNext
  PROVE  /\ UNCHANGED <<orders, pc, pos, reserved, priced, job, answer, events, disturbed>>
         /\ applied \subseteq applied'
BY DEF WorldNext, ProductStep, HandleReserve, HandleRelease, DeleteProduct

LEMMA RequestInvStep == SafeInv /\ Next => \A r \in Requests : RequestInv(r)'
<1> SUFFICES ASSUME SafeInv, Next, NEW r \in Requests PROVE RequestInv(r)'
  OBVIOUS
<1>0. RequestInv(r) /\ r \in Callers /\ HandlerTypes
  BY DEF SafeInv, Callers, TypeOK
<1>1. CASE WorldNext
  BY <1>0, <1>1, WorldFrame, UntouchedRequest
<1>2. ASSUME NEW c \in Callers, CallerNext(c), c # r
      PROVE  RequestInv(r)'
  BY <1>0, <1>2, LocalFrame, DataFrame, UntouchedRequest
<1>3. CASE CallerNext(r)
  BY <1>3, RequestStep, CallersAssumption DEF CallerNext
<1>4. QED
  BY <1>1, <1>2, <1>3, NextSplit

-----------------------------------------------------------------------------
(* The progress of confirmOrder and cancelOrder.                           *)

LEMMA HandlerInvStep == SafeInv /\ Next => \A h \in Handlers : HandlerInv(h)'
<1> SUFFICES ASSUME SafeInv, Next, NEW h \in Handlers PROVE HandlerInv(h)'
  OBVIOUS
<1>0. /\ HandlerInv(h) /\ h \in Callers /\ h \notin Requests
      /\ HandlerTypes /\ DataTypes
      /\ job[h] # None => job[h].order \in Requests
  BY CallersAssumption DEF SafeInv, Callers, TypeOK, HandlerTypes, Job
<1>1. CASE WorldNext
  BY <1>0, <1>1, WorldFrame DEF HandlerInv
<1>2. ASSUME NEW c \in Callers, CallerNext(c), c # h
      PROVE  HandlerInv(h)'
  <2>1. pc'[h] = pc[h] /\ pos'[h] = pos[h] /\ job'[h] = job[h]
    BY <1>0, <1>2, LocalFrame
  <2>2. job[h] # None => orders'[job[h].order] # NoOrder
    BY <1>0, <1>2, DataFrame DEF HandlerInv
  <2>3. QED
    BY <1>0, <2>1, <2>2 DEF HandlerInv
<1>3. CASE CallerNext(h)
  <2>0. job[h] # None => orders'[job[h].order] # NoOrder
    BY <1>0, <1>3, DataFrame DEF HandlerInv
  <2> USE DEF HandlerInv, HandlerPhases, Ended
  <2>1. ASSUME NEW kind \in {"confirm", "cancel"}, NEW o \in Requests, LookUp(h, kind, o)
        PROVE  HandlerInv(h)'
    <3>1. CASE /\ orders[o] \in AllowedFrom(kind)
               /\ job' = [job EXCEPT ![h] = [kind |-> kind, order |-> o]]
               /\ Go(h, IF kind = "confirm" THEN "update" ELSE "compensate")
      <4>1. pc'[h] = IF kind = "confirm" THEN "update" ELSE "compensate"
        BY <1>0, <3>1, GoTypes DEF Phases
      <4>2. job'[h] = [kind |-> kind, order |-> o]
        BY <1>0, <3>1 DEF HandlerTypes
      <4>3. job'[h] # None
        BY <4>2, NoneAssumption
      <4>4. orders[o] # NoOrder /\ orders' = orders
        BY <2>1, <3>1 DEF LookUp, AllowedFrom, Confirmable, Cancellable, NoOrder
      <4>5. QED
        BY <4>1, <4>2, <4>3, <4>4
    <3>2. CASE Finish(h, "failed") /\ UNCHANGED <<job, disturbed>>
      <4>1. pc'[h] = "done"
        BY <1>0, <3>2, FinishTypes
      <4>2. QED
        BY <1>0, <2>0, <3>2, <4>1
    <3>3. QED
      BY <2>1, <3>1, <3>2 DEF LookUp
  <2>2. CASE HandlerStep(h)
    <3>1. /\ pc[h] \in {"update", "publish"} /\ pc'[h] \in {"publish", "done"}
          /\ job' = job
      BY <1>0, <2>2, GoTypes, FinishTypes
         DEF HandlerStep, UpdateStatus, PublishUpdated, Phases, Finish, HandlerTypes, Go
    <3>2. QED
      BY <1>0, <2>0, <3>1
  <2>3. CASE SendRelease(h)
    <3>1. /\ pc[h] = "compensate" /\ pc'[h] = "compensating" /\ job' = job
          /\ pos' = pos /\ pos[h] <= Len(Items[job[h].order])
      BY <1>0, <2>3, GoTypes DEF SendRelease, Send, Phases, ReleaseCount
    <3>2. QED
      BY <1>0, <2>0, <3>1
  <2>4. CASE ReleaseReturns(h)
    <3>1. pc[h] = "compensating" /\ pc'[h] = "compensate" /\ job' = job
      BY <1>0, <2>4 DEF ReleaseReturns, GoAt, Go, HandlerTypes
    <3>2. QED
      BY <1>0, <2>0, <3>1
  <2>5. CASE CompensationEnds(h)
    <3>1. pc[h] = "compensate" /\ pc'[h] = "update" /\ job' = job
      BY <1>0, <2>5 DEF CompensationEnds, Go, HandlerTypes
    <3>2. QED
      BY <1>0, <2>0, <3>1
  <2>6. CASE Crash(h)
    <3>1. pc[h] # "idle" /\ pc'[h] = "crashed" /\ job' = job
      BY <1>0, <2>6 DEF Crash, Go, HandlerTypes
    <3>2. QED
      BY <1>0, <2>0, <3>1
  <2>7. QED
    BY <1>0, <1>3, <2>1, <2>2, <2>3, <2>4, <2>5, <2>6 DEF CallerNext, ReleaseStep
<1>4. QED
  BY <1>1, <1>2, <1>3, NextSplit

-----------------------------------------------------------------------------
(* Calls and replies.                                                      *)

(* A request that has begun to compensate never inserts its order or       *)
(* reserves again, and a cancellation goes on cancelling the same order:   *)
(* what a call says of its sender stays true.                              *)
LEMMA OldCallInv ==
  ASSUME SafeInv, Next, NEW call \in calls \cup applied
  PROVE  CallInv(call)'
<1>0. /\ CallInv(call) /\ call \in CallSet /\ HandlerTypes
      /\ call.by \in Callers /\ call.order \in Requests
  BY DEF SafeInv, TypeOK, NetTypes, CallSet
<1> USE DEF CallInv
<1>1. CASE WorldNext
  BY <1>0, <1>1, WorldFrame
<1>2. ASSUME NEW c \in Callers, CallerNext(c), c # call.by
      PROVE  CallInv(call)'
  BY <1>0, <1>2, LocalFrame, DataFrame
<1>3. CASE CallerNext(call.by) /\ call.op = "release" /\ call.by \in Requests
  <2> DEFINE r == call.by
  <2>1. /\ r = call.order /\ call.item <= reserved[r] /\ orders[r] = NoOrder
        /\ pc[r] \in {"compensate", "compensating"} \cup Ended
    BY <1>0, <1>3, CallersAssumption
  <2>2. ReleaseStep(r) \/ Crash(r)
    BY <1>3, <2>1, CallersAssumption
       DEF CallerNext, StartRequest, CreateStep, FindExisting, CheckItem, SendReserve,
           ReserveSucceeds, ReserveFails, PriceItem, InsertOrder, PublishCreated, Ended
  <2>3. reserved' = reserved /\ orders' = orders
    BY <2>2 DEF ReleaseStep, SendRelease, Send, ReleaseReturns, CompensationEnds, Crash
  <2>4. pc'[r] \in {"compensate", "compensating"} \cup Ended
    BY <1>0, <1>3, <2>2, CallersAssumption
       DEF ReleaseStep, SendRelease, Send, ReleaseReturns, CompensationEnds, Crash,
           Go, GoAt, Finish, Ended, HandlerTypes
  <2>5. QED
    BY <1>0, <1>3, <2>1, <2>3, <2>4
<1>4. CASE CallerNext(call.by) /\ call.op = "release" /\ call.by \in Handlers
  <2> DEFINE h == call.by
  <2>1. job[h] = [kind |-> "cancel", order |-> call.order] /\ job[h] # None
    BY <1>0, <1>4, CallersAssumption, NoneAssumption
  <2>2. pc[h] # "idle"
    BY <1>4, <2>1 DEF SafeInv, HandlerInv
  <2>3. job' = job
    BY <1>4, <2>2, CallersAssumption
       DEF CallerNext, LookUp, HandlerStep, UpdateStatus, PublishUpdated, ReleaseStep,
           SendRelease, Send, ReleaseReturns, CompensationEnds, Crash
  <2>4. QED
    BY <1>0, <1>4, <2>1, <2>3
<1>5. CASE call.op # "release"
  BY <1>0, <1>5
<1>6. QED
  BY <1>0, <1>1, <1>2, <1>3, <1>4, <1>5, NextSplit DEF Callers

(* A caller's step sends at most one call, and applies none.               *)
LEMMA CallerCalls ==
  ASSUME NEW c \in Callers, CallerNext(c)
  PROVE  /\ products' = products /\ applied' = applied
         /\ \/ calls' = calls
            \/ /\ c \in Requests /\ SendReserve(c)
               /\ calls' = calls \cup {ReserveOf(c, pos[c])}
            \/ /\ SendRelease(c)
               /\ calls' = calls \cup {Call("release", c, OrderOf(c), pos[c])}
<1>1. CASE c \in Requests /\ SendReserve(c)
  BY <1>1 DEF SendReserve, Send, ReserveOf
<1>2. CASE SendRelease(c)
  BY <1>2 DEF SendRelease, Send
<1>3. CASE UNCHANGED <<products, calls, applied>>
  BY <1>3
<1>4. QED
  BY <1>1, <1>2, <1>3
     DEF CallerNext, CreateStep, HandlerStep, ReleaseStep, StartRequest, FindExisting,
         CheckItem, ReserveSucceeds, ReserveFails, PriceItem, InsertOrder,
         PublishCreated, ReleaseReturns, CompensationEnds, LookUp, UpdateStatus,
         PublishUpdated, Crash, netVars

(* Handling a call takes it from `calls` to `applied`, or drops it; only   *)
(* the two sends add one.                                                  *)
LEMMA NewCalls ==
  ASSUME SafeInv, Next
  PROVE  \A call \in calls' \cup applied' :
           \/ call \in calls \cup applied
           \/ \E r \in Requests : SendReserve(r) /\ call = ReserveOf(r, pos[r])
           \/ \E c \in Callers : /\ SendRelease(c)
                                 /\ call = Call("release", c, OrderOf(c), pos[c])
<1>1. CASE WorldNext
  BY <1>1 DEF WorldNext, ProductStep, HandleReserve, HandleRelease, DeleteProduct
<1>2. CASE \E c \in Callers : CallerNext(c)
  BY <1>2, CallerCalls
<1>3. QED
  BY <1>1, <1>2, NextSplit

LEMMA CallInvStep == SafeInv /\ Next => \A call \in calls' \cup applied' : CallInv(call)'
<1> SUFFICES ASSUME SafeInv, Next, NEW call \in calls' \cup applied'
             PROVE  CallInv(call)'
  OBVIOUS
<1>0. HandlerTypes
  BY DEF SafeInv, TypeOK
<1>1. CASE call \in calls \cup applied
  BY <1>1, OldCallInv
<1>2. ASSUME NEW r \in Requests, SendReserve(r), call = ReserveOf(r, pos[r])
      PROVE  CallInv(call)'
  <2>1. pos[r] \in DOMAIN Items[r]
    <3>1. RequestInv(r) /\ pc[r] = "reserve" /\ pos[r] \in Nat \ {0}
      BY <1>0, <1>2 DEF SafeInv, SendReserve, HandlerTypes, Callers
    <3>2. QED
      BY <3>1, ItemFacts DEF RequestInv
  <2>2. QED
    BY <1>2, <2>1 DEF ReserveOf, Call, CallInv
<1>3. ASSUME NEW c \in Callers, SendRelease(c),
             call = Call("release", c, OrderOf(c), pos[c])
      PROVE  CallInv(call)'
  <2>1. /\ call.op = "release" /\ call.by = c /\ call.order = OrderOf(c)
        /\ call.item = pos[c] /\ pos[c] \in Nat \ {0}
        /\ pc[c] = "compensate" /\ pc'[c] = "compensating"
        /\ pos[c] <= ReleaseCount(c)
        /\ UNCHANGED <<orders, reserved, job>>
    BY <1>0, <1>3 DEF SendRelease, Send, Go, Call, HandlerTypes
  <2>2. CASE c \in Requests
    <3>1. RequestInv(c) /\ OrderOf(c) = c /\ ReleaseCount(c) = reserved[c] /\ reserved[c] \in Nat
      BY <1>0, <2>2 DEF SafeInv, OrderOf, ReleaseCount, HandlerTypes
    <3>2. orders[c] = NoOrder /\ pos[c] \in DOMAIN Items[c]
      BY <2>1, <2>2, <3>1, ItemFacts DEF RequestInv, Ended
    <3>3. QED
      BY <2>1, <2>2, <3>1, <3>2 DEF CallInv
  <2>3. CASE c \in Handlers
    <3>1. /\ HandlerInv(c) /\ c \notin Requests
          /\ job[c] \in Job /\ OrderOf(c) = job[c].order
          /\ ReleaseCount(c) = Len(Items[job[c].order])
      BY <1>0, <2>1, <2>3, CallersAssumption, OrderOfFacts
         DEF SafeInv, ReleaseCount, HandlerPhases
    <3>2. job[c] = [kind |-> "cancel", order |-> job[c].order]
      BY <2>1, <3>1 DEF HandlerInv, Job
    <3>3. pos[c] \in DOMAIN Items[job[c].order]
      BY <2>1, <3>1, ItemFacts DEF Job
    <3>4. QED
      BY <2>1, <2>3, <3>1, <3>2, <3>3 DEF CallInv
  <2>4. QED
    BY <2>2, <2>3 DEF Callers
<1>4. QED
  BY <1>1, <1>2, <1>3, NewCalls

LEMMA RepliesStep == SafeInv /\ Next => RepliesAreTrue'
<1> SUFFICES ASSUME SafeInv, Next, NEW m \in replies', m.ok, m.call.op = "reserve"
             PROVE  m.call \in applied'
  BY DEF RepliesAreTrue
<1>1. applied \subseteq applied'
  BY WorldFrame, DataFrame, NextSplit
<1>2. CASE m \in replies
  BY <1>1, <1>2 DEF SafeInv, RepliesAreTrue
<1>3. CASE m \notin replies
  <2>1. ~\E c \in Callers : CallerNext(c)
    BY <1>3
       DEF CallerNext, CreateStep, HandlerStep, ReleaseStep, StartRequest, FindExisting,
           CheckItem, SendReserve, Send, ReserveSucceeds, ReserveFails, PriceItem,
           InsertOrder, PublishCreated, SendRelease, ReleaseReturns, CompensationEnds,
           LookUp, UpdateStatus, PublishUpdated, Crash, GiveUp, netVars
  <2>2. PICK call \in calls : HandleReserve(call) \/ HandleRelease(call)
    BY <1>3, <2>1, NextSplit DEF WorldNext, ProductStep, DeleteProduct
  <2>3. HandleReserve(call) /\ m = [call |-> call, ok |-> TRUE]
    BY <1>3, <2>2 DEF HandleReserve, HandleRelease, Reply
  <2>4. call \in applied'
    BY <1>3, <2>3 DEF HandleReserve, Reply
  <2>5. QED
    BY <2>3, <2>4
<1>4. QED
  BY <1>2, <1>3

-----------------------------------------------------------------------------
(* Idempotency keys.                                                       *)

(* A row appears only where the two constraints of the table allow it.     *)
LEMMA RowsAreAllowed ==
  ASSUME SafeInv, Next, NEW r \in Requests, orders[r] = NoOrder, orders'[r] # NoOrder
  PROVE  /\ ~\E o \in Requests : HasKey(o, Key[r])
         /\ \A o \in Requests : o # r => orders'[o] = orders[o]
<1>1. ~WorldNext
  BY WorldFrame
<1>2. PICK c \in Callers : CallerNext(c)
  BY <1>1, NextSplit
<1>3. r = c /\ InsertOrder(r)
  BY <1>2, DataFrame DEF SafeInv, HandlerInv, UpdateStatus, HandlerPhases
<1>4. QED
  BY <1>3 DEF InsertOrder, InsertAllowed, SafeInv, TypeOK, DataTypes

(* createOrder answers with its own order once it is inserted, or with the *)
(* order it found under its key.                                           *)
LEMMA AnswerStep ==
  ASSUME SafeInv, Next, NEW r \in Requests, answer'[r] \in Requests
  PROVE  \/ answer'[r] = answer[r]
         \/ answer'[r] = r /\ orders[r] # NoOrder
         \/ HasKey(answer'[r], Key[r])
<1>0. r \in Callers /\ HandlerTypes /\ r \notin Handlers /\ RequestInv(r)
  BY CallersAssumption DEF SafeInv, TypeOK, Callers
<1>1. CASE WorldNext
  BY <1>1, WorldFrame
<1>2. ASSUME NEW c \in Callers, CallerNext(c), c # r
      PROVE  answer'[r] = answer[r]
  BY <1>0, <1>2, LocalFrame
<1>3. CASE CallerNext(r)
  <2>1. ASSUME Finish(r, "failed") PROVE FALSE
    BY <1>0, <2>1, FinishTypes, FailedAssumption
  <2>2. CASE FindExisting(r)
    <3>1. ASSUME NEW o \in Requests, HasKey(o, Key[r]), Finish(r, o)
          PROVE  HasKey(answer'[r], Key[r])
      BY <1>0, <3>1, FinishTypes
    <3>2. QED
      BY <2>1, <2>2, <3>1 DEF FindExisting
  <2>3. CASE PublishCreated(r)
    <3>1. Finish(r, r)
      BY <2>1, <2>3 DEF PublishCreated
    <3>2. answer'[r] = r
      BY <1>0, <3>1, FinishTypes
    <3>3. QED
      BY <1>0, <2>3, <3>2 DEF PublishCreated, RequestInv
  <2>4. CASE UNCHANGED answer
    BY <2>4
  <2>5. QED
    BY <1>0, <1>3, <2>1, <2>2, <2>3, <2>4
       DEF CallerNext, CreateStep, ReleaseStep, StartRequest, CheckItem, SendReserve,
           Send, ReserveSucceeds, ReserveFails, PriceItem, InsertOrder, SendRelease,
           ReleaseReturns, CompensationEnds, Crash
<1>4. QED
  BY <1>1, <1>2, <1>3, NextSplit

LEMMA KeyInvStep == SafeInv /\ Next => KeyInv'
<1> SUFFICES ASSUME SafeInv, Next PROVE KeyInv'
  OBVIOUS
<1>0. KeyInv /\ \A r \in Requests : orders[r] # NoOrder => orders'[r] # NoOrder
  BY NextSplit, DataFrame, WorldFrame DEF SafeInv
<1>1. ASSUME NEW r1 \in Requests, NEW r2 \in Requests, Key[r1] # NoKey, Key[r1] = Key[r2],
             orders'[r1] # NoOrder, orders'[r2] # NoOrder
      PROVE  r1 = r2
  BY <1>0, <1>1, RowsAreAllowed DEF KeyInv, HasKey
<1>2. ASSUME NEW r \in Requests, answer'[r] \in Requests
      PROVE  /\ orders'[answer'[r]] # NoOrder
             /\ answer'[r] = r \/ (Key[r] # NoKey /\ Key[answer'[r]] = Key[r])
  BY <1>0, <1>2, AnswerStep DEF KeyInv, HasKey
<1>3. QED
  BY <1>1, <1>2 DEF KeyInv

-----------------------------------------------------------------------------
(* The invariant, and what follows from it.                                *)

LEMMA SafeInvStep == SafeInv /\ [Next]_vars => SafeInv'
<1> SUFFICES ASSUME SafeInv, [Next]_vars PROVE SafeInv'
  OBVIOUS
<1>1. CASE UNCHANGED vars
  BY <1>1, TypeStep
     DEF SafeInv, RequestInv, ReservedUpTo, HandlerInv, CallInv, RepliesAreTrue, KeyInv, vars
<1>2. CASE Next
  BY <1>2, TypeStep, RequestInvStep, HandlerInvStep, CallInvStep, RepliesStep, KeyInvStep
     DEF SafeInv
<1>3. QED
  BY <1>1, <1>2

(* The progress of each caller, the calls on their way and the tables      *)
(* agree with each other in every reachable state.                         *)
THEOREM SagaInvariance == Spec => []SafeInv
<1>1. Init => SafeInv
  BY InitSafeInv
<1>2. QED
  BY <1>1, SafeInvStep, PTL DEF Spec

(* Type correctness: no call is sent for an item that does not exist, no   *)
(* reservation takes a stock below zero, whatever the interleaving.        *)
THEOREM SagaTypeCorrect == Spec => []TypeOK
<1>1. SafeInv => TypeOK
  BY DEF SafeInv
<1>2. QED
  BY <1>1, SagaInvariance, PTL

(* createOrder inserts the row with everything reserved, and only who      *)
(* cancels releases from then on.                                          *)
LEMMA HeldStock == SafeInv => OrderHasItsStock
<1> SUFFICES ASSUME SafeInv, NEW r \in Requests, orders[r] # NoOrder, ~BeingCancelled(r),
                    NEW i \in DOMAIN Items[r]
             PROVE  /\ ReserveOf(r, i) \in applied
                    /\ \A c \in Callers : Call("release", c, r, i) \notin applied
  BY DEF OrderHasItsStock, ReserveOf
<1>1. ReserveOf(r, i) \in applied
  BY ItemFacts DEF SafeInv, RequestInv, ReservedUpTo
<1>2. ASSUME NEW c \in Callers, Call("release", c, r, i) \in applied
      PROVE  FALSE
  <2> DEFINE call == Call("release", c, r, i)
  <2>1. CallInv(call) /\ call.op = "release" /\ call.by = c /\ call.order = r
    BY <1>2 DEF SafeInv, Call
  <2>2. QED
    BY <2>1 DEF CallInv, BeingCancelled
<1>3. QED
  BY <1>1, <1>2

(* An order nobody has begun to cancel holds the stock of all its items.   *)
THEOREM OrdersHoldStock == Spec => []OrderHasItsStock
BY HeldStock, SagaInvariance, PTL

(* A release says that its item was reserved: its sender holds what it     *)
(* compensates, or an order exists, and orders have all of their items.    *)
LEMMA ReserveBeforeRelease == SafeInv => ReleaseFollowsReserve
<1> SUFFICES ASSUME SafeInv, NEW call \in calls \cup applied, call.op = "release"
             PROVE  ReserveOf(call.order, call.item) \in applied
  BY DEF ReleaseFollowsReserve, ReserveOf
<1>1. CallInv(call) /\ call.order \in Requests
  BY DEF SafeInv, TypeOK, NetTypes, CallSet
<1>2. RequestInv(call.order)
  BY <1>1 DEF SafeInv
<1>3. CASE call.by \in Requests /\ call.by = call.order /\ call.item <= reserved[call.by]
  BY <1>1, <1>2, <1>3 DEF CallInv, RequestInv, ReservedUpTo
<1>4. CASE call.by \in Handlers /\ job[call.by] = [kind |-> "cancel", order |-> call.order]
  <2>1. orders[call.order] # NoOrder
    BY <1>1, <1>4, NoneAssumption DEF SafeInv, HandlerInv
  <2>2. QED
    BY <1>1, <1>2, <2>1, ItemFacts DEF CallInv, RequestInv, ReservedUpTo
<1>5. QED
  BY <1>1, <1>3, <1>4 DEF CallInv

(* No release is sent or applied before the reservation it undoes.         *)
THEOREM ReleasesUndoReserves == Spec => []ReleaseFollowsReserve
BY ReserveBeforeRelease, SagaInvariance, PTL

(* At most one order per key, and the answers agree on it.                 *)
THEOREM KeysAreUnique == Spec => []OneOrderPerKey
<1>1. SafeInv => OneOrderPerKey
  BY DEF SafeInv, KeyInv, OneOrderPerKey
<1>2. QED
  BY <1>1, SagaInvariance, PTL

-----------------------------------------------------------------------------
(* Overlapping confirmations and cancellations.                            *)

LEMMA DisturbedGrows == Next => disturbed \subseteq disturbed'
<1> SUFFICES ASSUME Next PROVE disturbed \subseteq disturbed'
  OBVIOUS
<1>1. CASE WorldNext
  BY <1>1, WorldFrame
<1>2. CASE \E c \in Callers : CallerNext(c)
  BY <1>2
     DEF CallerNext, CreateStep, HandlerStep, ReleaseStep, StartRequest, FindExisting,
         CheckItem, SendReserve, Send, ReserveSucceeds, ReserveFails, PriceItem,
         InsertOrder, PublishCreated, SendRelease, ReleaseReturns, CompensationEnds,
         LookUp, UpdateStatus, PublishUpdated, Crash
<1>3. QED
  BY <1>1, <1>2, NextSplit

(* A handler's job is set once, when it leaves `idle`; nothing leaves      *)
(* `done` or `crashed`; only a lookup or the end of a compensation leads   *)
(* to the update.                                                          *)
LEMMA HandlerMoves ==
  ASSUME SafeInv, Next, NEW h \in Handlers
  PROVE  \/ pc'[h] = pc[h] /\ job'[h] = job[h]
         \/ pc[h] \notin Ended /\ job'[h] = job[h] /\ pc'[h] # "update"
         \/ job'[h] = job[h] /\ job[h].kind = "cancel" /\ pc[h] = "compensate"
         \/ \E kind \in {"confirm", "cancel"}, o \in Requests : LookUp(h, kind, o)
<1>0. /\ h \in Callers /\ h \notin Requests /\ HandlerTypes /\ HandlerInv(h)
  BY CallersAssumption DEF SafeInv, Callers, TypeOK
<1>1. CASE WorldNext
  BY <1>1, WorldFrame
<1>2. ASSUME NEW c \in Callers, CallerNext(c), c # h
      PROVE  pc'[h] = pc[h] /\ job'[h] = job[h]
  BY <1>0, <1>2, LocalFrame
<1>3. CASE HandlerStep(h)
  <2>1. pc[h] \in {"update", "publish"} /\ pc'[h] \in {"publish", "done"} /\ job' = job
    BY <1>0, <1>3, GoTypes, FinishTypes
       DEF HandlerStep, UpdateStatus, PublishUpdated, Phases, Finish, HandlerTypes, Go
  <2>2. QED
    BY <2>1 DEF Ended
<1>4. CASE ReleaseStep(h)
  BY <1>0, <1>4
     DEF ReleaseStep, SendRelease, Send, ReleaseReturns, CompensationEnds, HandlerInv,
         GoAt, Go, HandlerTypes, Ended
<1>5. CASE Crash(h)
  BY <1>0, <1>5 DEF Crash, Go, HandlerTypes
<1>6. QED
  BY <1>0, <1>1, <1>2, <1>3, <1>4, <1>5, NextSplit DEF CallerNext

(* What a successful lookup has seen and noted down.                       *)
LEMMA LookUpFacts ==
  ASSUME SafeInv, NEW h \in Handlers, NEW kind \in {"confirm", "cancel"},
         NEW o \in Requests, LookUp(h, kind, o), pc'[h] \notin Ended
  PROVE  /\ job'[h] = [kind |-> kind, order |-> o]
         /\ orders' = orders /\ orders[o] \in AllowedFrom(kind)
         /\ \A h2 \in Handlers : h2 # h => job'[h2] = job[h2] /\ pc'[h2] = pc[h2]
         /\ \A h2 \in Handlers : Unfinished(h2, o) => o \in disturbed'
<1>1. h \in Callers /\ HandlerTypes
  BY DEF SafeInv, TypeOK, Callers
<1>2. ~Finish(h, "failed")
  BY <1>1, FinishTypes DEF Ended
<1>3. /\ job' = [job EXCEPT ![h] = [kind |-> kind, order |-> o]]
      /\ Go(h, IF kind = "confirm" THEN "update" ELSE "compensate")
      /\ disturbed' = IF \E h2 \in Handlers : Unfinished(h2, o)
                        THEN disturbed \cup {o} ELSE disturbed
      /\ orders' = orders /\ orders[o] \in AllowedFrom(kind)
  BY <1>2 DEF LookUp
<1>4. QED
  BY <1>1, <1>3 DEF HandlerTypes, Go, Callers

LEMMA OverlapStep == SafeInv /\ OverlapInv /\ [Next]_vars => OverlapInv'
<1> SUFFICES ASSUME SafeInv, OverlapInv, [Next]_vars PROVE OverlapInv'
  OBVIOUS
<1>1. CASE UNCHANGED vars
  BY <1>1 DEF OverlapInv, vars
<1>2. CASE Next
  <2>1. ASSUME NEW h1 \in Handlers, NEW h2 \in Handlers, h1 # h2,
               job'[h1] # None, job'[h2] # None, job'[h1].order = job'[h2].order,
               pc'[h1] \notin Ended, pc'[h2] \notin Ended
        PROVE  job'[h1].order \in disturbed'
    <3>1. ASSUME NEW h \in Handlers, NEW g \in Handlers, h # g, job'[g] # None,
                 job'[h].order = job'[g].order,
                 pc'[h] \notin Ended, pc'[g] \notin Ended,
                 \E kind \in {"confirm", "cancel"}, o \in Requests : LookUp(h, kind, o)
          PROVE  job'[h].order \in disturbed'
      <4>1. PICK kind \in {"confirm", "cancel"}, o \in Requests : LookUp(h, kind, o)
        BY <3>1
      <4>2. /\ job'[h] = [kind |-> kind, order |-> o]
            /\ job'[g] = job[g] /\ pc'[g] = pc[g]
            /\ Unfinished(g, o) => o \in disturbed'
        BY <3>1, <4>1, LookUpFacts
      <4>3. Unfinished(g, o)
        BY <3>1, <4>2 DEF Unfinished
      <4>4. QED
        BY <4>2, <4>3
    <3>2. CASE \E kind \in {"confirm", "cancel"}, o \in Requests :
                 LookUp(h1, kind, o) \/ LookUp(h2, kind, o)
      BY <2>1, <3>1, <3>2
    <3>3. CASE ~\E kind \in {"confirm", "cancel"}, o \in Requests :
                  LookUp(h1, kind, o) \/ LookUp(h2, kind, o)
      <4>1. \A h \in {h1, h2} : job'[h] = job[h] /\ pc[h] \notin Ended
        BY <1>2, <2>1, <3>3, HandlerMoves DEF Ended
      <4>2. QED
        BY <1>2, <2>1, <4>1, DisturbedGrows DEF OverlapInv
    <3>4. QED
      BY <3>2, <3>3
  <2>2. ASSUME NEW h \in Handlers, pc'[h] = "update", job'[h].kind = "confirm",
               job'[h].order \notin disturbed'
        PROVE  orders'[job'[h].order] # "CANCELLED"
    <3>1. CASE \E kind \in {"confirm", "cancel"}, o \in Requests : LookUp(h, kind, o)
      <4>1. PICK kind \in {"confirm", "cancel"}, o \in Requests : LookUp(h, kind, o)
        BY <3>1
      <4>2. job'[h] = [kind |-> kind, order |-> o] /\ orders' = orders
            /\ orders[o] \in AllowedFrom(kind)
        BY <2>2, <4>1, LookUpFacts DEF Ended
      <4>3. QED
        BY <2>2, <4>2 DEF AllowedFrom, Confirmable
    <3>2. CASE pc[h] = "update" /\ job'[h] = job[h]
      <4> DEFINE o == job[h].order
      <4>1. o \in Requests /\ job[h] # None /\ o \notin disturbed
        BY <1>2, <2>2, <3>2, DisturbedGrows
           DEF SafeInv, HandlerInv, HandlerPhases, TypeOK, HandlerTypes, Job
      <4>2. orders[o] # "CANCELLED" /\ orders[o] # NoOrder
        BY <2>2, <3>2, <4>1 DEF OverlapInv, SafeInv, HandlerInv
      <4>3. CASE orders'[o] = orders[o]
        BY <3>2, <4>2, <4>3
      <4>4. CASE orders'[o] # orders[o]
        <5>1. PICK c \in Callers : CallerNext(c)
          BY <1>2, <4>4, NextSplit, WorldFrame
        <5>2. CASE o = c /\ InsertOrder(o)
          BY <4>1, <4>2, <5>2 DEF SafeInv, RequestInv, InsertOrder, Ended
        <5>3. CASE c \in Handlers /\ UpdateStatus(c) /\ o = job[c].order
          <6>1. pc[c] = "update" /\ job[c] # None
            BY <5>3 DEF UpdateStatus, SafeInv, HandlerInv, HandlerPhases
          <6>2. c = h
            BY <3>2, <4>1, <5>3, <6>1 DEF OverlapInv, Ended
          <6>3. pc'[h] # "update"
            BY <5>3, <6>2, GoTypes, FinishTypes
               DEF UpdateStatus, SafeInv, TypeOK, Callers, Phases, HandlerPhases
          <6>4. QED
            BY <2>2, <6>3
        <5>4. QED
          BY <4>1, <4>4, <5>1, <5>2, <5>3, DataFrame
      <4>5. QED
        BY <4>3, <4>4
    <3>3. QED
      BY <1>2, <2>2, <3>1, <3>2, HandlerMoves
  <2>3. QED
    BY <2>1, <2>2 DEF OverlapInv
<1>3. QED
  BY <1>1, <1>2

(* A cancelled order is only ever brought back by a confirmation that      *)
(* overlapped its cancellation.                                            *)
THEOREM CancelledStays == Spec => CancelledIsFinal
<1>1. ASSUME SafeInv, OverlapInv, [Next]_vars
      PROVE  [\A r \in Requests :
                orders[r] = "CANCELLED" /\ orders'[r] # "CANCELLED" => r \in disturbed]_vars
  <2>1. CASE UNCHANGED vars
    BY <2>1
  <2>2. ASSUME Next, NEW r \in Requests, orders[r] = "CANCELLED", orders'[r] # "CANCELLED"
        PROVE  r \in disturbed
    <3>1. PICK c \in Callers : CallerNext(c)
      BY <2>2, NextSplit, WorldFrame
    <3>2. ~InsertOrder(r)
      BY <1>1, <2>2 DEF SafeInv, RequestInv, InsertOrder, Ended, NoOrder
    <3>3. c \in Handlers /\ UpdateStatus(c) /\ r = job[c].order
      BY <1>1, <2>2, <3>1, <3>2, DataFrame
    <3>4. pc[c] = "update" /\ orders'[r] = NewStatus(job[c].kind) /\ job[c] \in Job
      BY <1>1, <2>2, <3>3
         DEF UpdateStatus, SafeInv, TypeOK, DataTypes, HandlerTypes, HandlerInv, HandlerPhases
    <3>5. job[c].kind = "confirm"
      BY <2>2, <3>4 DEF NewStatus, Job
    <3>6. QED
      BY <1>1, <2>2, <3>3, <3>4, <3>5 DEF OverlapInv
  <2>3. QED
    BY <1>1, <2>1, <2>2
<1>2. Spec => [](SafeInv /\ OverlapInv)
  <2>1. Init => SafeInv /\ OverlapInv
    BY InitSafeInv
  <2>2. SafeInv /\ OverlapInv /\ [Next]_vars => (SafeInv /\ OverlapInv)'
    BY SafeInvStep, OverlapStep
  <2>3. QED
    BY <2>1, <2>2, PTL DEF Spec
<1>3. QED
  BY <1>1, <1>2, PTL DEF Spec, CancelledIsFinal

-----------------------------------------------------------------------------
(* The refinement.  OrderSaga implements Reservations, for every set of    *)
(* requests and handlers, every assignment of items and keys, and every    *)
(* combination of faults.                                                  *)

Abstract == <<orders, Places, {r \in Requests : BeingCancelled(r)}, disturbed>>

(* Where units are depends on the applied calls alone; who is cancelling   *)
(* on the handlers' jobs alone.                                            *)
LEMMA PlacesFrame == applied' = applied => Places' = Places
BY DEF Places, Place, Released, Callers, ItemsIn

LEMMA CancellingFrame ==
  ASSUME \A h \in Handlers : job'[h] = job[h]
  PROVE  {r \in Requests : BeingCancelled(r)'} = {r \in Requests : BeingCancelled(r)}
BY DEF BeingCancelled

LEMMA InitRefines == Init => R!Init
<1> SUFFICES ASSUME Init PROVE R!Init
  OBVIOUS
<1>1. Places = [r \in Requests |-> [i \in ItemsIn(r) |-> "free"]]
  BY DEF Init, Places, Place, Released
<1>2. {r \in Requests : BeingCancelled(r)} = {}
  BY NoneAssumption DEF Init, BeingCancelled
<1>3. QED
  BY <1>1, <1>2 DEF Init, R!Init, R!NotPlaced, NoOrder

-----------------------------------------------------------------------------
(* Calls that product-service applies.                                     *)

(* An order that has not been placed, or one item that has not been        *)
(* reserved: no release of it was applied.                                 *)
LEMMA NoReleaseYet ==
  ASSUME SafeInv, NEW r \in Requests, NEW i \in DOMAIN Items[r],
         ReserveOf(r, i) \notin applied
  PROVE  ~Released(r, i) /\ orders[r] = NoOrder
<1>1. ~Released(r, i)
  <2> SUFFICES ASSUME NEW c \in Callers, Call("release", c, r, i) \in applied
               PROVE  FALSE
    BY DEF Released
  <2>1. ReserveOf(r, i) \in applied
    BY ReserveBeforeRelease DEF ReleaseFollowsReserve, ReserveOf, Call
  <2>2. QED
    BY <2>1
<1>2. orders[r] = NoOrder
  <2>1. RequestInv(r) /\ i <= Len(Items[r])
    BY ItemFacts DEF SafeInv
  <2>2. QED
    BY <2>1 DEF RequestInv, ReservedUpTo
<1>3. QED
  BY <1>1, <1>2

(* Applying one call moves at most the units of its own item.              *)
LEMMA OnePlaceMoves ==
  ASSUME NEW r \in Requests, NEW i \in DOMAIN Items[r],
         NEW call, call.order = r, call.item = i, applied' = applied \cup {call}
  PROVE  Places' = [Places EXCEPT ![r][i] = Place(r, i)']
<1>1. \A o \in Requests : \A j \in DOMAIN Items[o] :
        o # r \/ j # i => Place(o, j)' = Place(o, j)
  <2> SUFFICES ASSUME NEW o \in Requests, NEW j \in DOMAIN Items[o], o # r \/ j # i
               PROVE  Place(o, j)' = Place(o, j)
    OBVIOUS
  <2>1. \A op, by : Call(op, by, o, j) # call
    BY DEF Call
  <2>2. Released(o, j)' = Released(o, j)
    BY <2>1 DEF Released, Callers
  <2>3. Call("reserve", o, o, j) \in applied' <=> Call("reserve", o, o, j) \in applied
    BY <2>1
  <2>4. QED
    BY <2>2, <2>3 DEF Place
<1>2. QED
  BY <1>1 DEF Places, ItemsIn

LEMMA ReserveRefines ==
  ASSUME SafeInv, NEW call \in calls, HandleReserve(call)
  PROVE  [R!Next]_Abstract
<1> DEFINE r == call.order
           i == call.item
<1>1. /\ r \in Requests /\ i \in DOMAIN Items[r] /\ call = ReserveOf(r, i)
  BY DEF SafeInv, CallInv, TypeOK, NetTypes, CallSet, HandleReserve, ReserveOf, Call
<1>2. UNCHANGED <<orders, job, disturbed>>
  BY DEF HandleReserve
<1>3. UNCHANGED <<orders, {q \in Requests : BeingCancelled(q)}, disturbed>>
  BY <1>2, CancellingFrame
<1>4. CASE applied' = applied
  BY <1>3, <1>4, PlacesFrame DEF Abstract
<1>5. CASE call \notin applied /\ applied' = applied \cup {call}
  <2>1. ~Released(r, i) /\ orders[r] = NoOrder
    BY <1>1, <1>5, NoReleaseYet
  <2>2. Places[r][i] = "free"
    BY <1>1, <1>5, <2>1 DEF Places, Place, ItemsIn, ReserveOf
  <2>3. ~Released(r, i)' /\ Place(r, i)' = "held"
    BY <1>1, <1>5, <2>1 DEF Released, Place, Call, ReserveOf, Callers
  <2>4. Places' = [Places EXCEPT ![r][i] = "held"]
    BY <1>1, <1>5, <2>3, OnePlaceMoves
  <2>5. R!Take(r, i)
    BY <1>3, <2>1, <2>2, <2>4 DEF R!Take, R!Put, R!NotPlaced, NoOrder
  <2>6. QED
    BY <1>1, <2>5 DEF R!Next, ItemsIn
<1>6. QED
  BY <1>4, <1>5 DEF HandleReserve

LEMMA ReleaseRefines ==
  ASSUME SafeInv, NEW call \in calls, HandleRelease(call)
  PROVE  [R!Next]_Abstract
<1> DEFINE r == call.order
           i == call.item
<1>1. /\ CallInv(call) /\ call \in CallSet
      /\ r \in Requests /\ i \in DOMAIN Items[r] /\ call = Call("release", call.by, r, i)
  BY DEF SafeInv, CallInv, TypeOK, NetTypes, CallSet, HandleRelease, Call
<1>2. UNCHANGED <<orders, job, disturbed>>
  BY DEF HandleRelease
<1>3. UNCHANGED <<orders, {q \in Requests : BeingCancelled(q)}, disturbed>>
  BY <1>2, CancellingFrame
<1>4. CASE applied' = applied
  BY <1>3, <1>4, PlacesFrame DEF Abstract
<1>5. CASE applied' = applied \cup {call}
  <2>1. Released(r, i)' /\ Place(r, i)' = "returned"
    BY <1>1, <1>5 DEF Released, Place, CallSet, Callers
  <2>2. Places' = [Places EXCEPT ![r][i] = "returned"]
    BY <1>1, <1>5, <2>1, OnePlaceMoves
  <2>3. CASE Released(r, i)
    <3>1. Places[r][i] = "returned"
      BY <1>1, <2>3 DEF Places, Place, ItemsIn
    <3>2. Places' = Places
      BY <1>1, <2>2, <3>1 DEF Places, ItemsIn
    <3>3. QED
      BY <1>3, <3>2 DEF Abstract
  <2>4. CASE ~Released(r, i)
    <3>1. ReserveOf(r, i) \in applied
      BY <1>1, ReserveBeforeRelease DEF ReleaseFollowsReserve, ReserveOf, HandleRelease
    <3>2. Places[r][i] = "held"
      BY <1>1, <2>4, <3>1 DEF Places, Place, ItemsIn, ReserveOf
    <3>3. orders[r] = NoOrder \/ BeingCancelled(r)
      BY <1>1 DEF CallInv, BeingCancelled, HandleRelease
    <3>4. R!GiveBack(r, i)
      BY <1>1, <1>3, <2>2, <3>2, <3>3 DEF R!GiveBack, R!Put, R!NotPlaced, NoOrder
    <3>5. QED
      BY <1>1, <3>4 DEF R!Next, ItemsIn
  <2>5. QED
    BY <2>3, <2>4
<1>6. QED
  BY <1>4, <1>5 DEF HandleRelease

-----------------------------------------------------------------------------
(* Steps of the handlers that write the orders table, or begin to.         *)

LEMMA InsertRefines ==
  ASSUME SafeInv, NEW r \in Requests, InsertOrder(r)
  PROVE  [R!Next]_Abstract
<1>1. UNCHANGED <<applied, job, disturbed>> /\ pc[r] = "insert" /\ orders[r] = NoOrder
  BY DEF InsertOrder, netVars, SafeInv, RequestInv, Ended
<1>2. UNCHANGED <<Places, {q \in Requests : BeingCancelled(q)}, disturbed>>
  BY <1>1, PlacesFrame, CancellingFrame
<1>3. CASE orders' = orders
  BY <1>2, <1>3 DEF Abstract
<1>4. CASE InsertAllowed(r) /\ orders' = [orders EXCEPT ![r] = "STOCK_RESERVED"]
  <2>1. \A i \in ItemsIn(r) : Places[r][i] = "held"
    <3> SUFFICES ASSUME NEW i \in DOMAIN Items[r] PROVE Places[r][i] = "held"
      BY DEF ItemsIn
    <3>1. ReserveOf(r, i) \in applied
      BY <1>1, ItemFacts DEF SafeInv, RequestInv, ReservedUpTo
    <3>2. ASSUME NEW c \in Callers, Call("release", c, r, i) \in applied
          PROVE  FALSE
      <4> DEFINE call == Call("release", c, r, i)
      <4>1. CallInv(call) /\ call.op = "release" /\ call.by = c /\ call.order = r
        BY <3>2 DEF SafeInv, Call
      <4>2. CASE c \in Requests /\ c = r /\ pc[c] \in {"compensate", "compensating"} \cup Ended
        BY <1>1, <4>2 DEF Ended
      <4>3. CASE c \in Handlers /\ job[c] = [kind |-> "cancel", order |-> r]
        BY <1>1, <4>3, NoneAssumption DEF SafeInv, HandlerInv
      <4>4. QED
        BY <4>1, <4>2, <4>3 DEF CallInv
    <3>3. QED
      BY <3>1, <3>2 DEF Places, Place, Released, ItemsIn, ReserveOf
  <2>2. \A o \in Requests :
          orders[o] # NoOrder => KeyUnder(r) = NoKey \/ KeyUnder(o) # KeyUnder(r)
    BY <1>4 DEF InsertAllowed, HasKey, KeyUnder
  <2>3. R!Place(r)
    BY <1>1, <1>2, <1>4, <2>1, <2>2 DEF R!Place, R!SetStatus, R!NotPlaced, NoOrder
  <2>4. QED
    BY <2>3 DEF R!Next
<1>5. QED
  BY <1>3, <1>4 DEF InsertOrder

LEMMA UpdateRefines ==
  ASSUME SafeInv, OverlapInv, NEW h \in Handlers, UpdateStatus(h)
  PROVE  [R!Next]_Abstract
<1> DEFINE o == job[h].order
<1>1. /\ UNCHANGED <<applied, job, disturbed>> /\ pc[h] = "update"
      /\ job[h] \in Job /\ orders[o] # NoOrder
  BY DEF UpdateStatus, netVars, SafeInv, HandlerInv, HandlerPhases, TypeOK, HandlerTypes
<1>2. UNCHANGED <<Places, {q \in Requests : BeingCancelled(q)}, disturbed>>
  BY <1>1, PlacesFrame, CancellingFrame
<1>3. o \in Requests /\ orders[o] \in Statuses /\ job[h] = [kind |-> job[h].kind, order |-> o]
  BY <1>1 DEF Job, SafeInv, TypeOK, DataTypes
<1>4. CASE orders' = orders
  BY <1>2, <1>4 DEF Abstract
<1>5. CASE orders' = [orders EXCEPT ![o] = NewStatus(job[h].kind)]
  <2>1. CASE job[h].kind = "confirm"
    <3>1. orders[o] # "CANCELLED" \/ o \in disturbed
      BY <1>1, <2>1 DEF OverlapInv
    <3>2. R!Confirm(o)
      BY <1>2, <1>3, <1>5, <2>1, <3>1
         DEF R!Confirm, R!SetStatus, R!Standing, NewStatus, Statuses
    <3>3. QED
      BY <1>3, <3>2 DEF R!Next
  <2>2. CASE job[h].kind = "cancel"
    <3>1. BeingCancelled(o)
      BY <1>3, <2>2 DEF BeingCancelled
    <3>2. R!Cancel(o)
      BY <1>1, <1>2, <1>3, <1>5, <2>2, <3>1
         DEF R!Cancel, R!SetStatus, R!NotPlaced, NoOrder, NewStatus
    <3>3. QED
      BY <1>3, <3>2 DEF R!Next
  <2>3. QED
    BY <1>1, <2>1, <2>2 DEF Job
<1>6. QED
  BY <1>4, <1>5 DEF UpdateStatus

LEMMA LookUpRefines ==
  ASSUME SafeInv, NEW h \in Handlers, NEW kind \in {"confirm", "cancel"},
         NEW o \in Requests, LookUp(h, kind, o)
  PROVE  [R!Next]_Abstract
<1>1. UNCHANGED <<applied, orders>> /\ pc[h] = "idle" /\ job[h] = None
  BY DEF LookUp, netVars, SafeInv, HandlerInv
<1>2. UNCHANGED <<orders, Places>>
  BY <1>1, PlacesFrame
<1>3. CASE UNCHANGED <<job, disturbed>>
  BY <1>2, <1>3, CancellingFrame DEF Abstract
<1>4. CASE /\ orders[o] \in AllowedFrom(kind)
           /\ job' = [job EXCEPT ![h] = [kind |-> kind, order |-> o]]
           /\ disturbed' \in {disturbed, disturbed \cup {o}}
  <2>1. /\ job'[h] = [kind |-> kind, order |-> o]
        /\ \A g \in Handlers : g # h => job'[g] = job[g]
    BY <1>4 DEF SafeInv, TypeOK, HandlerTypes
  <2>2. orders[o] \in R!Standing
    BY <1>4 DEF AllowedFrom, Confirmable, Cancellable, R!Standing
  <2>3. CASE kind = "cancel"
    <3>1. {q \in Requests : BeingCancelled(q)'}
            = {q \in Requests : BeingCancelled(q)} \cup {o}
      BY <1>1, <2>1, <2>3, NoneAssumption DEF BeingCancelled
    <3>2. R!SetOutToCancel(o)
      BY <1>2, <1>4, <2>2, <3>1 DEF R!SetOutToCancel
    <3>3. QED
      BY <3>2 DEF R!Next
  <2>4. CASE kind = "confirm"
    <3>1. {q \in Requests : BeingCancelled(q)'} = {q \in Requests : BeingCancelled(q)}
      BY <1>1, <2>1, <2>4, NoneAssumption DEF BeingCancelled
    <3>2. CASE disturbed' = disturbed
      BY <1>2, <3>1, <3>2 DEF Abstract
    <3>3. CASE disturbed' = disturbed \cup {o}
      <4>1. R!Contest(o)
        BY <1>2, <2>2, <3>1, <3>3 DEF R!Contest
      <4>2. QED
        BY <4>1 DEF R!Next
    <3>4. QED
      BY <1>4, <3>2, <3>3
  <2>5. QED
    BY <2>3, <2>4
<1>5. QED
  BY <1>3, <1>4 DEF LookUp

-----------------------------------------------------------------------------

(* Every other step of a handler moves no unit and writes no row.          *)
LEMMA OtherStepsStutter ==
  ASSUME NEW c \in Callers, CallerNext(c)
  PROVE  \/ c \in Requests /\ InsertOrder(c)
         \/ c \in Handlers /\ UpdateStatus(c)
         \/ c \in Handlers /\ \E kind \in {"confirm", "cancel"}, o \in Requests :
                                LookUp(c, kind, o)
         \/ UNCHANGED <<applied, orders, job, disturbed>>
BY DEF CallerNext, CreateStep, HandlerStep, ReleaseStep, StartRequest, FindExisting,
       CheckItem, SendReserve, Send, ReserveSucceeds, ReserveFails, PriceItem,
       PublishCreated, SendRelease, ReleaseReturns, CompensationEnds,
       PublishUpdated, Crash, netVars

LEMMA StepRefines == SafeInv /\ OverlapInv /\ [Next]_vars => [R!Next]_Abstract
<1> SUFFICES ASSUME SafeInv, OverlapInv, [Next]_vars PROVE [R!Next]_Abstract
  OBVIOUS
<1>1. CASE UNCHANGED <<applied, orders, job, disturbed>>
  BY <1>1, PlacesFrame, CancellingFrame DEF Abstract
<1>2. CASE WorldNext
  <2>1. CASE \E call \in calls : HandleReserve(call)
    BY <2>1, ReserveRefines
  <2>2. CASE \E call \in calls : HandleRelease(call)
    BY <2>2, ReleaseRefines
  <2>3. CASE \E p \in Products : DeleteProduct(p)
    BY <1>1, <2>3 DEF DeleteProduct
  <2>4. QED
    BY <1>2, <2>1, <2>2, <2>3 DEF WorldNext, ProductStep
<1>3. CASE \E c \in Callers : CallerNext(c)
  BY <1>1, <1>3, OtherStepsStutter, InsertRefines, UpdateRefines, LookUpRefines
<1>4. QED
  BY <1>1, <1>2, <1>3, NextSplit DEF vars

(* The saga implements the promise of Reservations.                        *)
THEOREM SagaRefines == Spec => ImplementsReservations
<1>1. Init => R!Init
  BY InitRefines
<1>2. Init => SafeInv /\ OverlapInv
  BY InitSafeInv
<1>3. SafeInv /\ OverlapInv /\ [Next]_vars => (SafeInv /\ OverlapInv)'
  BY SafeInvStep, OverlapStep
<1>4. SafeInv /\ OverlapInv /\ [Next]_vars => [R!Next]_(R!vars)
  BY StepRefines DEF Abstract, R!vars
<1>5. QED
  BY <1>1, <1>2, <1>3, <1>4, PTL DEF Spec, ImplementsReservations, R!Spec

-----------------------------------------------------------------------------
(* The ledger.  Each call is sent once and applied once, so the stock of a *)
(* product and the units that were taken and given back add up; while an   *)
(* order is undisturbed its units are given back once.                     *)

(* How far the loop that sent a call has come since.                       *)
SentInv(call) ==
  LET c == call.by IN
  /\ call.op = "reserve" =>
       /\ pc[c] \notin {"idle", "find", "check"}
       /\ pc[c] = "reserve" => call.item < pos[c]
       /\ pc[c] = "reserving" => call.item <= pos[c]
  /\ call.op = "release" =>
       /\ pc[c] = "compensate" => call.item < pos[c]
       /\ pc[c] = "compensating" => call.item <= pos[c]

OnceInv ==
  /\ calls \cap applied = {}
  /\ \A call \in calls \cup applied : SentInv(call)

(* Two cancellations of one order have disturbed it.                       *)
CancelOnceInv ==
  \A h1, h2 \in Handlers :
    h1 # h2 /\ job[h1] # None /\ job[h1].kind = "cancel" /\ job[h2] = job[h1]
      => job[h1].order \in disturbed

(* The units the items of a set of calls are of.                           *)
UnitsOf(S) == UNION { {call} \X (1..ItemOf(call).quantity) : call \in S }

TakenCalls(p) == { call \in applied : call.op = "reserve" /\ ItemOf(call).product = p }
GivenCalls(p) == { call \in applied : call.op = "release" /\ ItemOf(call).product = p }

(* What is on the shelf, and what was taken from it and given back to it.  *)
LedgerInv ==
  \A p \in Products :
    /\ IsFiniteSet(UnitsOf(TakenCalls(p))) /\ IsFiniteSet(UnitsOf(GivenCalls(p)))
    /\ products[p].stock + Cardinality(UnitsOf(TakenCalls(p)))
         = InitStock[p] + Cardinality(UnitsOf(GivenCalls(p)))

-----------------------------------------------------------------------------
(* Counting units.                                                         *)

LEMMA InUnits ==
  ASSUME NEW S
  PROVE  /\ \A call, n : <<call, n>> \in UnitsOf(S)
                           <=> call \in S /\ n \in 1..ItemOf(call).quantity
         /\ \A u \in UnitsOf(S) : /\ u = <<u[1], u[2]>> /\ u[1] \in S
                                  /\ u[2] \in 1..ItemOf(u[1]).quantity
BY DEF UnitsOf

(* One more call adds the units of its item.                               *)
LEMMA UnitsAdd ==
  ASSUME NEW S, IsFiniteSet(UnitsOf(S)), NEW call, call \notin S,
         NEW n \in Nat, n = ItemOf(call).quantity
  PROVE  /\ IsFiniteSet(UnitsOf(S \cup {call}))
         /\ Cardinality(UnitsOf(S \cup {call})) = Cardinality(UnitsOf(S)) + n
<1> DEFINE new == {call} \X (1..n)
<1>1. IsFiniteSet(new) /\ Cardinality(new) = n
  <2>1. IsFiniteSet({call}) /\ Cardinality({call}) = 1
    BY FS_Singleton
  <2>2. IsFiniteSet(1..n) /\ Cardinality(1..n) = IF 1 > n THEN 0 ELSE n - 1 + 1
    <3>1. 1 \in Int /\ n \in Int
      OBVIOUS
    <3>2. QED
      BY <3>1, FS_Interval
  <2>3. IsFiniteSet(new) /\ Cardinality(new) = Cardinality({call}) * Cardinality(1..n)
    BY <2>1, <2>2, FS_Product
  <2>4. Cardinality(1..n) = n /\ 1 * n = n
    BY <2>2
  <2>5. QED
    BY <2>1, <2>3, <2>4
<1>2. UnitsOf(S \cup {call}) = UnitsOf(S) \cup new
  BY DEF UnitsOf
<1>3. UnitsOf(S) \cap new = {}
  BY DEF UnitsOf
<1>4. Cardinality(UnitsOf(S)) \in Nat /\ Cardinality({}) = 0
  BY FS_CardinalityType, FS_EmptySet
<1> HIDE DEF new
<1>5. /\ IsFiniteSet(UnitsOf(S) \cup new)
      /\ Cardinality(UnitsOf(S) \cup new)
           = Cardinality(UnitsOf(S)) + Cardinality(new) - Cardinality(UnitsOf(S) \cap new)
  BY <1>1, FS_Union
<1>6. /\ IsFiniteSet(UnitsOf(S \cup {call}))
      /\ Cardinality(UnitsOf(S \cup {call})) = Cardinality(UnitsOf(S)) + n - 0
  BY <1>1, <1>2, <1>3, <1>4, <1>5, Zenon
<1>7. QED
  BY <1>4, <1>6

-----------------------------------------------------------------------------
(* Each call is sent once.                                                 *)

(* A call's sender has gone on, or waits for it.                           *)
LEMMA OldSentInv ==
  ASSUME SafeInv, Next, NEW call \in calls \cup applied, SentInv(call)
  PROVE  SentInv(call)'
<1>0. /\ CallInv(call) /\ call \in CallSet /\ HandlerTypes
      /\ call.by \in Callers /\ call.order \in Requests /\ call.item \in Nat
      /\ pos[call.by] \in Nat
  BY DEF SafeInv, TypeOK, NetTypes, CallSet, HandlerTypes
<1> USE DEF SentInv
<1>1. CASE WorldNext
  BY <1>0, <1>1, WorldFrame
<1>2. ASSUME NEW c \in Callers, CallerNext(c), c # call.by
      PROVE  SentInv(call)'
  BY <1>0, <1>2, LocalFrame
<1>3. CASE ReleaseStep(call.by) \/ Crash(call.by)
  BY <1>0, <1>3
     DEF ReleaseStep, SendRelease, Send, ReleaseReturns, CompensationEnds, Crash,
         Go, GoAt, Finish, HandlerTypes
<1>4. CASE call.op = "reserve" /\ call.by \in Requests /\ CreateStep(call.by)
  <2> DEFINE r == call.by
  <2>1. CASE SendReserve(r) \/ ReserveFails(r) \/ InsertOrder(r) \/ PublishCreated(r)
    BY <1>0, <1>4, <2>1
       DEF SendReserve, Send, ReserveFails, InsertOrder, PublishCreated, Go, GoAt, Finish,
           HandlerTypes
  <2>2. CASE ReserveSucceeds(r)
    BY <1>0, <1>4, <2>2, NextItemTypes DEF ReserveSucceeds, Phases, CreatePhases
  <2>3. CASE PriceItem(r)
    BY <1>0, <1>4, <2>3, NextItemTypes DEF PriceItem, Phases, CreatePhases
  <2>4. QED
    BY <1>4, <2>1, <2>2, <2>3 DEF CreateStep, FindExisting, CheckItem
<1>5. CASE call.by \in Handlers /\ HandlerStep(call.by)
  BY <1>0, <1>5
     DEF HandlerStep, UpdateStatus, PublishUpdated, Go, Finish, HandlerTypes
<1>6. ASSUME call.by \in Handlers, NEW kind \in {"confirm", "cancel"}, NEW o \in Requests,
             LookUp(call.by, kind, o)
      PROVE  FALSE
  BY <1>0, <1>6, CallersAssumption, NoneAssumption
     DEF CallInv, LookUp, SafeInv, HandlerInv, CallSet
<1>7. CASE CallerNext(call.by)
  <2>1. call.op \in {"reserve", "release"}
    BY <1>0 DEF CallSet
  <2>2. call.op = "reserve" => call.by \in Requests
    BY <1>0 DEF CallInv
  <2>3. ~StartRequest(call.by) \/ call.op = "release"
    BY <2>1 DEF StartRequest
  <2>4. CASE call.op = "release" /\ call.by \in Requests
    <3>1. pc[call.by] \in {"compensate", "compensating"} \cup Ended
      BY <1>0, <2>4, CallersAssumption DEF CallInv
    <3>2. ~StartRequest(call.by) /\ ~CreateStep(call.by)
      BY <3>1 DEF StartRequest, CreateStep, FindExisting, CheckItem, SendReserve,
           ReserveSucceeds, ReserveFails, PriceItem, InsertOrder, PublishCreated, Ended
    <3>3. QED
      BY <1>3, <1>7, <2>4, <3>2, CallersAssumption DEF CallerNext
  <2>5. CASE ~(call.op = "release" /\ call.by \in Requests)
    BY <1>3, <1>4, <1>5, <1>6, <1>7, <2>1, <2>2, <2>3, <2>5 DEF CallerNext
  <2>6. QED
    BY <2>4, <2>5
<1>8. QED
  BY <1>0, <1>1, <1>2, <1>7, NextSplit

(* The call about to be sent is a new one.                                 *)
LEMMA SentCalls ==
  ASSUME SafeInv, OnceInv, NEW c \in Callers, NEW call,
         \/ c \in Requests /\ SendReserve(c) /\ call = ReserveOf(c, pos[c])
         \/ SendRelease(c) /\ call = Call("release", c, OrderOf(c), pos[c])
  PROVE  call \notin calls \cup applied /\ SentInv(call)' /\ applied' = applied
<1>1. HandlerTypes /\ pos[c] \in Nat
  BY DEF SafeInv, TypeOK, HandlerTypes
<1>2. CASE c \in Requests /\ SendReserve(c) /\ call = ReserveOf(c, pos[c])
  <2>1. /\ call.by = c /\ call.op = "reserve" /\ call.item = pos[c] /\ pc[c] = "reserve"
        /\ pc'[c] = "reserving" /\ pos' = pos /\ applied' = applied
    BY <1>1, <1>2 DEF SendReserve, Send, Go, HandlerTypes, ReserveOf, Call
  <2>2. QED
    BY <1>1, <2>1 DEF OnceInv, SentInv
<1>3. CASE SendRelease(c) /\ call = Call("release", c, OrderOf(c), pos[c])
  <2>1. /\ call.by = c /\ call.op = "release" /\ call.item = pos[c] /\ pc[c] = "compensate"
        /\ pc'[c] = "compensating" /\ pos' = pos /\ applied' = applied
    BY <1>1, <1>3 DEF SendRelease, Send, Go, HandlerTypes, Call
  <2>2. QED
    BY <1>1, <2>1 DEF OnceInv, SentInv
<1>4. QED
  BY <1>2, <1>3

LEMMA OnceStep == SafeInv /\ OnceInv /\ Next => OnceInv'
<1> SUFFICES ASSUME SafeInv, OnceInv, Next PROVE OnceInv'
  OBVIOUS
<1>1. ASSUME NEW call \in calls' \cup applied' PROVE SentInv(call)'
  <2>1. CASE call \in calls \cup applied
    BY <2>1, OldSentInv DEF OnceInv
  <2>2. CASE call \notin calls \cup applied
    BY <2>2, NewCalls, SentCalls DEF Callers
  <2>3. QED
    BY <2>1, <2>2
<1>2. calls' \cap applied' = {}
  <2>1. CASE WorldNext
    BY <2>1 DEF OnceInv, WorldNext, ProductStep, HandleReserve, HandleRelease, DeleteProduct
  <2>2. ASSUME NEW c \in Callers, CallerNext(c), NEW call \in calls', call \in applied'
        PROVE  FALSE
    <3>1. call \in applied /\ call \notin calls
      BY <2>2, CallerCalls DEF OnceInv
    <3>2. QED
      BY <2>2, <3>1, CallerCalls, SentCalls
  <2>3. QED
    BY <2>1, <2>2, NextSplit
<1>3. QED
  BY <1>1, <1>2 DEF OnceInv

LEMMA CancelOnceStep == SafeInv /\ CancelOnceInv /\ Next => CancelOnceInv'
<1> SUFFICES ASSUME SafeInv, CancelOnceInv, Next PROVE CancelOnceInv'
  OBVIOUS
<1>1. ASSUME NEW h \in Handlers, NEW g \in Handlers, h # g,
             NEW o \in Requests, job'[h] = [kind |-> "cancel", order |-> o], job'[g] = job'[h]
      PROVE  o \in disturbed'
  <2>1. ASSUME NEW x \in Handlers, NEW y \in Handlers, x # y,
               job'[x] = [kind |-> "cancel", order |-> o], job'[y] = job'[x],
               job'[x] # job[x]
        PROVE  o \in disturbed'
    <3>1. PICK kind \in {"confirm", "cancel"}, q \in Requests : LookUp(x, kind, q)
      BY <2>1, HandlerMoves
    <3>2. CASE pc'[x] \in Ended
      <4>1. Finish(x, "failed") /\ UNCHANGED job
        BY <2>1, <3>1, <3>2, GoTypes DEF LookUp, SafeInv, TypeOK, Callers, Phases, HandlerPhases, Ended
      <4>2. QED
        BY <2>1, <4>1
    <3>3. CASE pc'[x] \notin Ended
      <4>1. /\ kind = "cancel" /\ q = o /\ orders[o] \in Cancellable
            /\ job[y] = [kind |-> "cancel", order |-> o]
            /\ Unfinished(y, o) => o \in disturbed'
        <5>1. /\ job'[x] = [kind |-> kind, order |-> q]
              /\ orders[q] \in AllowedFrom(kind)
              /\ job'[y] = job[y]
              /\ Unfinished(y, q) => q \in disturbed'
          BY <2>1, <3>1, <3>3, LookUpFacts
        <5>2. kind = "cancel" /\ q = o
          BY <2>1, <5>1
        <5>3. QED
          BY <2>1, <5>1, <5>2 DEF AllowedFrom
      <4>2. Unfinished(y, o)
        BY <4>1, NoneAssumption DEF Unfinished, Cancellable
      <4>3. QED
        BY <4>1, <4>2
    <3>4. QED
      BY <3>2, <3>3
  <2>2. CASE job'[h] = job[h] /\ job'[g] = job[g]
    <3>1. job[h] # None
      BY <1>1, <2>2, NoneAssumption
    <3>2. o \in disturbed
      BY <1>1, <2>2, <3>1 DEF CancelOnceInv
    <3>3. QED
      BY <3>2, DisturbedGrows
  <2>3. QED
    BY <1>1, <2>1, <2>2
<1>2. HandlerTypes'
  BY SafeInvStep DEF SafeInv, TypeOK
<1>3. SUFFICES ASSUME NEW h1 \in Handlers, NEW h2 \in Handlers, h1 # h2, job'[h1] # None,
                      job'[h1].kind = "cancel", job'[h2] = job'[h1]
               PROVE  job'[h1].order \in disturbed'
  BY DEF CancelOnceInv
<1>4. job'[h1].order \in Requests /\ job'[h1] = [kind |-> "cancel", order |-> job'[h1].order]
  BY <1>2, <1>3 DEF HandlerTypes, Job
<1>5. QED
  BY <1>1, <1>3, <1>4

-----------------------------------------------------------------------------
(* The ledger of each product.                                             *)

(* A call that is handled and applied goes into the books of its product.  *)
LEMMA BookedCall ==
  ASSUME SafeInv, OnceInv, NEW call \in calls, applied' = applied \cup {call},
         NEW p \in Products
  PROVE  /\ call \notin TakenCalls(p) /\ call \notin GivenCalls(p)
         /\ ItemOf(call).product \in Products /\ ItemOf(call).quantity \in Nat
         /\ TakenCalls(p)' = IF call.op = "reserve" /\ ItemOf(call).product = p
                               THEN TakenCalls(p) \cup {call} ELSE TakenCalls(p)
         /\ GivenCalls(p)' = IF call.op = "release" /\ ItemOf(call).product = p
                               THEN GivenCalls(p) \cup {call} ELSE GivenCalls(p)
<1>1. call \in CallSet /\ call.item \in DOMAIN Items[call.order]
  BY DEF SafeInv, CallInv, TypeOK, NetTypes
<1>2. ItemOf(call).product \in Products /\ ItemOf(call).quantity \in Nat
  BY <1>1, ItemFacts DEF CallSet, ItemOf
<1>3. call \notin applied
  BY DEF OnceInv
<1>4. QED
  BY <1>2, <1>3 DEF TakenCalls, GivenCalls

LEMMA LedgerStep == SafeInv /\ OnceInv /\ LedgerInv /\ Next => LedgerInv'
<1> SUFFICES ASSUME SafeInv, OnceInv, LedgerInv, Next, NEW p \in Products
             PROVE  /\ IsFiniteSet(UnitsOf(TakenCalls(p)')) /\ IsFiniteSet(UnitsOf(GivenCalls(p)'))
                    /\ products'[p].stock + Cardinality(UnitsOf(TakenCalls(p)'))
                         = InitStock[p] + Cardinality(UnitsOf(GivenCalls(p)'))
  BY DEF LedgerInv, UnitsOf
<1>1. /\ IsTable(products) /\ DOMAIN products = Products
      /\ products[p].stock \in Nat /\ InitStock[p] \in Nat
  BY StockAssumption DEF SafeInv, TypeOK, DataTypes, IsTable, Row
<1>2. /\ IsFiniteSet(UnitsOf(TakenCalls(p))) /\ IsFiniteSet(UnitsOf(GivenCalls(p)))
      /\ products[p].stock + Cardinality(UnitsOf(TakenCalls(p)))
           = InitStock[p] + Cardinality(UnitsOf(GivenCalls(p)))
  BY DEF LedgerInv
<1>3. /\ Cardinality(UnitsOf(TakenCalls(p))) \in Nat
      /\ Cardinality(UnitsOf(GivenCalls(p))) \in Nat
  BY <1>2, FS_CardinalityType
<1>4. CASE applied' = applied /\ products'[p].stock = products[p].stock
  BY <1>2, <1>4 DEF TakenCalls, GivenCalls
<1>6. ASSUME NEW call \in calls, HandleReserve(call), applied' = applied \cup {call},
             products' = ReserveRow(products, ItemOf(call).product, ItemOf(call).quantity),
             CanReserve(products, ItemOf(call).product, ItemOf(call).quantity)
      PROVE  /\ IsFiniteSet(UnitsOf(TakenCalls(p)')) /\ IsFiniteSet(UnitsOf(GivenCalls(p)'))
             /\ products'[p].stock + Cardinality(UnitsOf(TakenCalls(p)'))
                  = InitStock[p] + Cardinality(UnitsOf(GivenCalls(p)'))
  <2> DEFINE q == ItemOf(call).product
             n == ItemOf(call).quantity
  <2>1. /\ call \notin TakenCalls(p) /\ q \in Products /\ n \in Nat
        /\ TakenCalls(p)' = IF q = p THEN TakenCalls(p) \cup {call} ELSE TakenCalls(p)
        /\ GivenCalls(p)' = GivenCalls(p)
    BY <1>6, BookedCall DEF HandleReserve
  <2>2. products'[p].stock = IF q = p THEN products[p].stock - n ELSE products[p].stock
    <3> HIDE DEF q, n
    <3>1. products' = ReserveRow(products, q, n) /\ CanReserve(products, q, n)
      BY <1>6 DEF q, n
    <3>2. QED
      BY <1>1, <2>1, <3>1, StockReserved
  <2>3. q = p => /\ IsFiniteSet(UnitsOf(TakenCalls(p)'))
                 /\ Cardinality(UnitsOf(TakenCalls(p)'))
                      = Cardinality(UnitsOf(TakenCalls(p))) + n
    BY <1>2, <2>1, UnitsAdd
  <2> HIDE DEF q, n
  <2>4. QED
    BY <1>1, <1>2, <1>3, <2>1, <2>2, <2>3
<1>7. ASSUME NEW call \in calls, HandleRelease(call), applied' = applied \cup {call},
             products' = ReleaseRow(products, ItemOf(call).product, ItemOf(call).quantity)
      PROVE  /\ IsFiniteSet(UnitsOf(TakenCalls(p)')) /\ IsFiniteSet(UnitsOf(GivenCalls(p)'))
             /\ products'[p].stock + Cardinality(UnitsOf(TakenCalls(p)'))
                  = InitStock[p] + Cardinality(UnitsOf(GivenCalls(p)'))
  <2> DEFINE q == ItemOf(call).product
             n == ItemOf(call).quantity
  <2>1. /\ call \notin GivenCalls(p) /\ q \in Products /\ n \in Nat
        /\ TakenCalls(p)' = TakenCalls(p)
        /\ GivenCalls(p)' = IF q = p THEN GivenCalls(p) \cup {call} ELSE GivenCalls(p)
    BY <1>7, BookedCall DEF HandleRelease
  <2>2. products'[p].stock = IF q = p THEN products[p].stock + n ELSE products[p].stock
    <3> HIDE DEF q, n
    <3>1. products' = ReleaseRow(products, q, n) /\ q \in DOMAIN products
      BY <1>1, <1>7, <2>1 DEF q, n
    <3>2. QED
      BY <1>1, <2>1, <3>1, StockReleased
  <2>3. q = p => /\ IsFiniteSet(UnitsOf(GivenCalls(p)'))
                 /\ Cardinality(UnitsOf(GivenCalls(p)'))
                      = Cardinality(UnitsOf(GivenCalls(p))) + n
    BY <1>2, <2>1, UnitsAdd
  <2> HIDE DEF q, n
  <2>4. QED
    BY <1>1, <1>2, <1>3, <2>1, <2>2, <2>3
<1>8. CASE WorldNext
  <2>1. ASSUME NEW q \in Products, DeleteProduct(q)
        PROVE  applied' = applied /\ products'[p].stock = products[p].stock
    BY <1>1, <2>1, DeleteRowTable DEF DeleteProduct
  <2>2. ASSUME NEW call \in calls, HandleReserve(call)
        PROVE  \/ UNCHANGED <<products, applied>>
               \/ /\ applied' = applied \cup {call}
                  /\ products' = ReserveRow(products, ItemOf(call).product, ItemOf(call).quantity)
                  /\ CanReserve(products, ItemOf(call).product, ItemOf(call).quantity)
    BY <2>2 DEF HandleReserve
  <2>3. ASSUME NEW call \in calls, HandleRelease(call)
        PROVE  \/ UNCHANGED <<products, applied>>
               \/ /\ applied' = applied \cup {call}
                  /\ products' = ReleaseRow(products, ItemOf(call).product, ItemOf(call).quantity)
    BY <2>3 DEF HandleRelease
  <2>4. QED
    BY <1>4, <1>6, <1>7, <1>8, <2>1, <2>2, <2>3 DEF WorldNext, ProductStep
<1>9. CASE \E c \in Callers : CallerNext(c)
  BY <1>4, <1>9, CallerCalls
<1>10. QED
  BY <1>8, <1>9, NextSplit

-----------------------------------------------------------------------------
(* No unit is promised twice.                                              *)

(* The reservations that releases have undone.                             *)
UndoneCalls(p) == { ReserveOf(call.order, call.item) : call \in GivenCalls(p) }

(* What a reservation and its release have in common.                      *)
LEMMA GivenWasTaken ==
  ASSUME SafeInv, NEW p, NEW call \in GivenCalls(p)
  PROVE  LET taken == ReserveOf(call.order, call.item) IN
         /\ taken \in TakenCalls(p) /\ taken \in UndoneCalls(p)
         /\ ItemOf(taken) = ItemOf(call)
         /\ taken.order = call.order /\ taken.item = call.item
         /\ call = Call("release", call.by, call.order, call.item) /\ call.by \in Callers
         /\ call.order \in Requests /\ call.item \in DOMAIN Items[call.order]
<1>1. call \in applied /\ call.op = "release" /\ call \in CallSet /\ CallInv(call)
  BY DEF GivenCalls, SafeInv, TypeOK, NetTypes
<1>2. ReserveOf(call.order, call.item) \in applied
  BY <1>1, ReserveBeforeRelease DEF ReleaseFollowsReserve, ReserveOf
<1>3. QED
  BY <1>1, <1>2 DEF GivenCalls, TakenCalls, UndoneCalls, ItemOf, ReserveOf, Call, CallSet, CallInv

(* An undisturbed order's items are given back by one caller: createOrder, *)
(* if there is no row, or the one handler that cancels the order.          *)
LEMMA OneReleaser ==
  ASSUME SafeInv, CancelOnceInv, NEW r \in Requests \ disturbed,
         NEW i, NEW c1 \in Callers, NEW c2 \in Callers,
         Call("release", c1, r, i) \in calls \cup applied,
         Call("release", c2, r, i) \in calls \cup applied
  PROVE  c1 = c2
<1>1. ASSUME NEW c \in Callers, Call("release", c, r, i) \in calls \cup applied
      PROVE  \/ c = r /\ orders[r] = NoOrder
             \/ /\ c \in Handlers /\ job[c] = [kind |-> "cancel", order |-> r]
                /\ job[c] # None /\ orders[r] # NoOrder
  <2> DEFINE call == Call("release", c, r, i)
  <2>1. CallInv(call) /\ call.op = "release" /\ call.by = c /\ call.order = r
    BY <1>1 DEF SafeInv, Call
  <2> HIDE DEF call
  <2>2. CASE c \in Handlers /\ job[c] = [kind |-> "cancel", order |-> r]
    BY <2>2, NoneAssumption DEF SafeInv, HandlerInv
  <2>3. QED
    BY <2>1, <2>2 DEF CallInv
<1>2. QED
  BY <1>1 DEF CancelOnceInv

(* What live orders hold was taken and has not been given back.            *)
LEMMA HeldWasTaken ==
  ASSUME SafeInv, NEW p, NEW x \in HeldItems(p)
  PROVE  LET taken == ReserveOf(x[1], x[2]) IN
         /\ taken \in TakenCalls(p) /\ taken \notin UndoneCalls(p)
         /\ ItemOf(taken) = Items[x[1]][x[2]]
         /\ x = <<x[1], x[2]>> /\ taken.order = x[1] /\ taken.item = x[2]
<1> DEFINE r == x[1]
           i == x[2]
<1>1. /\ r \in Requests /\ i \in DOMAIN Items[r] /\ x = <<r, i>>
      /\ Items[r][i].product = p /\ orders[r] # NoOrder /\ ~BeingCancelled(r)
  <2>1. PICK q \in Requests : x \in {q} \X DOMAIN Items[q]
    BY DEF HeldItems
  <2>2. r = q /\ i \in DOMAIN Items[q] /\ x = <<r, i>>
    BY <2>1
  <2>3. Items[r][i].product = p /\ orders[r] \in Cancellable /\ ~BeingCancelled(r)
    BY DEF HeldItems
  <2>4. QED
    BY <2>2, <2>3 DEF Cancellable, NoOrder
<1>2. OrderHasItsStock
  BY HeldStock
<1>3. ReserveOf(r, i) \in applied /\ \A c \in Callers : Call("release", c, r, i) \notin applied
  BY <1>1, <1>2 DEF OrderHasItsStock, ReserveOf
<1>4. ReserveOf(r, i) \notin UndoneCalls(p)
  <2> SUFFICES ASSUME NEW call \in GivenCalls(p), ReserveOf(call.order, call.item) = ReserveOf(r, i)
               PROVE  FALSE
    BY DEF UndoneCalls
  <2>1. call.order = r /\ call.item = i
    BY DEF ReserveOf, Call
  <2>2. QED
    BY <1>3, <2>1, GivenWasTaken DEF GivenCalls
<1>5. QED
  BY <1>1, <1>3, <1>4 DEF TakenCalls, ItemOf, ReserveOf, Call

(* A one-to-one map onto a set counts it.                                  *)
LEMMA SameCount ==
  ASSUME NEW S, NEW T, IsFiniteSet(S), NEW f \in [S -> T],
         \A x, y \in S : f[x] = f[y] => x = y,
         \A y \in T : \E x \in S : f[x] = y
  PROVE  IsFiniteSet(T) /\ Cardinality(T) = Cardinality(S)
<1>1. f \in Bijection(S, T)
  BY DEF Bijection, Injection, Surjection, IsInjective
<1>2. ExistsBijection(S, T)
  BY <1>1 DEF ExistsBijection
<1>3. QED
  BY <1>2, FS_Bijection

LEMMA FewerByMap ==
  ASSUME NEW S, NEW T, IsFiniteSet(T), NEW f \in [S -> T],
         \A x, y \in S : f[x] = f[y] => x = y
  PROVE  IsFiniteSet(S) /\ Cardinality(S) <= Cardinality(T)
<1>1. f \in Injection(S, T)
  BY DEF Injection, IsInjective
<1>2. QED
  BY <1>1, FS_Injection

(* The units given back are units that were taken, each given back once.   *)
LEMMA GivenUnits ==
  ASSUME SafeInv, CancelOnceInv, LedgerInv, disturbed = {}, NEW p \in Products
  PROVE  LET undone == UnitsOf(UndoneCalls(p)) IN
         /\ IsFiniteSet(undone) /\ undone \subseteq UnitsOf(TakenCalls(p))
         /\ Cardinality(undone) = Cardinality(UnitsOf(GivenCalls(p)))
<1> DEFINE given == UnitsOf(GivenCalls(p))
           undone == UnitsOf(UndoneCalls(p))
           Undo(u) == <<ReserveOf(u[1].order, u[1].item), u[2]>>
           f == [u \in given |-> Undo(u)]
<1>1. ASSUME NEW u \in given
      PROVE  /\ Undo(u) \in undone /\ Undo(u) \in UnitsOf(TakenCalls(p))
             /\ u = <<u[1], u[2]>>
             /\ u[1] = Call("release", u[1].by, u[1].order, u[1].item)
             /\ u[1] \in applied /\ u[1].by \in Callers /\ u[1].order \in Requests
  <2>1. u = <<u[1], u[2]>> /\ u[1] \in GivenCalls(p) /\ u[2] \in 1..ItemOf(u[1]).quantity
    BY InUnits
  <2>2. LET taken == ReserveOf(u[1].order, u[1].item) IN
        /\ taken \in TakenCalls(p) /\ taken \in UndoneCalls(p)
        /\ ItemOf(taken) = ItemOf(u[1])
        /\ u[1] = Call("release", u[1].by, u[1].order, u[1].item)
        /\ u[1].by \in Callers /\ u[1].order \in Requests
    BY <2>1, GivenWasTaken
  <2>3. Undo(u) \in undone /\ Undo(u) \in UnitsOf(TakenCalls(p))
    BY <2>1, <2>2, InUnits
  <2>4. QED
    BY <2>1, <2>2, <2>3 DEF GivenCalls
<1>2. ASSUME NEW u \in given, NEW v \in given, Undo(u) = Undo(v)
      PROVE  u = v
  <2>1. u[1].order = v[1].order /\ u[1].item = v[1].item /\ u[2] = v[2]
    BY <1>2 DEF ReserveOf, Call
  <2>2. /\ u[1] = Call("release", u[1].by, u[1].order, u[1].item)
        /\ v[1] = Call("release", v[1].by, u[1].order, u[1].item)
        /\ u[1] \in applied /\ v[1] \in applied
        /\ u[1].by \in Callers /\ v[1].by \in Callers /\ u[1].order \in Requests \ disturbed
    BY <1>1, <2>1
  <2>3. u[1].by = v[1].by
    BY <2>2, OneReleaser
  <2>4. QED
    BY <1>1, <2>1, <2>3
<1>3. ASSUME NEW y \in undone
      PROVE  \E u \in given : Undo(u) = y
  <2>1. y = <<y[1], y[2]>> /\ y[1] \in UndoneCalls(p) /\ y[2] \in 1..ItemOf(y[1]).quantity
    BY InUnits
  <2>2. PICK call \in GivenCalls(p) : y[1] = ReserveOf(call.order, call.item)
    BY <2>1 DEF UndoneCalls
  <2>3. ItemOf(y[1]) = ItemOf(call)
    BY <2>2, GivenWasTaken
  <2>4. <<call, y[2]>> \in given
    BY <2>1, <2>3, InUnits
  <2>5. QED
    BY <2>1, <2>2, <2>4
<1>4. IsFiniteSet(given)
  BY DEF LedgerInv
<1>5. /\ f \in [given -> undone]
      /\ \A u, v \in given : f[u] = f[v] => u = v
      /\ \A y \in undone : \E u \in given : f[u] = y
  <2> HIDE DEF given, undone, Undo
  <2>1. QED
    BY <1>1, <1>2, <1>3
<1>6. undone \subseteq UnitsOf(TakenCalls(p))
  BY <1>1, <1>3
<1> HIDE DEF given, undone, f
<1>7. IsFiniteSet(undone) /\ Cardinality(undone) = Cardinality(given)
  BY <1>4, <1>5, SameCount
<1>8. QED
  BY <1>6, <1>7 DEF given, undone

(* The units live orders hold are units taken and not given back.          *)
LEMMA HeldMap ==
  ASSUME SafeInv, NEW p
  PROVE  LET left == UnitsOf(TakenCalls(p)) \ UnitsOf(UndoneCalls(p))
             f == [u \in HeldUnits(p) |-> <<ReserveOf(u[1][1], u[1][2]), u[2]>>] IN
         /\ f \in [HeldUnits(p) -> left]
         /\ \A u, v \in HeldUnits(p) : f[u] = f[v] => u = v
<1> DEFINE left == UnitsOf(TakenCalls(p)) \ UnitsOf(UndoneCalls(p))
           Unit(u) == <<ReserveOf(u[1][1], u[1][2]), u[2]>>
<1>1. ASSUME NEW u \in HeldUnits(p)
      PROVE  Unit(u) \in left /\ u = <<<<u[1][1], u[1][2]>>, u[2]>>
  <2>1. PICK x \in HeldItems(p) : u \in {x} \X (1..Items[x[1]][x[2]].quantity)
    BY DEF HeldUnits
  <2>2. u[1] = x /\ u[2] \in 1..Items[x[1]][x[2]].quantity /\ u = <<x, u[2]>>
    BY <2>1
  <2>3. /\ ReserveOf(x[1], x[2]) \in TakenCalls(p)
        /\ ReserveOf(x[1], x[2]) \notin UndoneCalls(p)
        /\ ItemOf(ReserveOf(x[1], x[2])) = Items[x[1]][x[2]]
        /\ x = <<x[1], x[2]>>
    BY HeldWasTaken
  <2>4. QED
    BY <2>2, <2>3, InUnits
<1>2. ASSUME NEW u \in HeldUnits(p), NEW v \in HeldUnits(p), Unit(u) = Unit(v)
      PROVE  u = v
  <2>1. u[1][1] = v[1][1] /\ u[1][2] = v[1][2] /\ u[2] = v[2]
    BY <1>2 DEF ReserveOf, Call
  <2>2. u = <<<<u[1][1], u[1][2]>>, u[2]>> /\ v = <<<<v[1][1], v[1][2]>>, v[2]>>
    BY <1>1
  <2>3. QED
    BY <2>1, <2>2, Zenon
<1> HIDE DEF left, Unit
<1>3. QED
  BY <1>1, <1>2 DEF left, Unit

(* What is on the shelf and what is still out add up to what there was.    *)
LEMMA ShelfAndLeft ==
  ASSUME SafeInv, CancelOnceInv, LedgerInv, disturbed = {}, NEW p \in Products
  PROVE  LET left == UnitsOf(TakenCalls(p)) \ UnitsOf(UndoneCalls(p)) IN
         /\ IsFiniteSet(left) /\ Cardinality(left) \in Nat
         /\ products[p].stock \in Nat /\ InitStock[p] \in Nat
         /\ products[p].stock + Cardinality(left) = InitStock[p]
<1> DEFINE taken == UnitsOf(TakenCalls(p))
           undone == UnitsOf(UndoneCalls(p))
           given == UnitsOf(GivenCalls(p))
<1>1. /\ IsFiniteSet(taken) /\ IsFiniteSet(given)
      /\ products[p].stock + Cardinality(taken) = InitStock[p] + Cardinality(given)
      /\ products[p].stock \in Nat /\ InitStock[p] \in Nat
  BY StockAssumption DEF LedgerInv, SafeInv, TypeOK, DataTypes, IsTable, Row
<1>2. /\ IsFiniteSet(undone) /\ undone \subseteq taken
      /\ Cardinality(undone) = Cardinality(given)
  BY GivenUnits
<1> HIDE DEF taken, undone, given
<1>3. /\ IsFiniteSet(taken \ undone)
      /\ Cardinality(taken \ undone) = Cardinality(taken) - Cardinality(taken \cap undone)
  BY <1>1, FS_Difference
<1>4. taken \cap undone = undone
  BY <1>2
<1>5. /\ Cardinality(taken) \in Nat /\ Cardinality(given) \in Nat
      /\ Cardinality(taken \ undone) \in Nat
  BY <1>1, <1>3, FS_CardinalityType
<1>6. Cardinality(taken \ undone) = Cardinality(taken) - Cardinality(given)
  BY <1>2, <1>3, <1>4
<1>7. products[p].stock + Cardinality(taken \ undone) = InitStock[p]
  BY <1>1, <1>5, <1>6
<1>8. QED
  BY <1>1, <1>3, <1>5, <1>7 DEF taken, undone

BookInv == SafeInv /\ OnceInv /\ CancelOnceInv /\ LedgerInv

LEMMA InitBooks == Init => BookInv
<1> SUFFICES ASSUME Init PROVE BookInv
  OBVIOUS
<1>1. OnceInv /\ CancelOnceInv
  BY DEF Init, OnceInv, CancelOnceInv
<1>2. ASSUME NEW p \in Products
      PROVE  /\ UnitsOf(TakenCalls(p)) = {} /\ UnitsOf(GivenCalls(p)) = {}
             /\ products[p].stock = InitStock[p] /\ InitStock[p] \in Nat
  BY StockAssumption DEF Init, UnitsOf, TakenCalls, GivenCalls, NewRow
<1>3. LedgerInv
  BY <1>2, FS_EmptySet DEF LedgerInv
<1>4. QED
  BY <1>1, <1>3, InitSafeInv DEF BookInv

LEMMA BooksStep == BookInv /\ [Next]_vars => BookInv'
<1> SUFFICES ASSUME BookInv, [Next]_vars PROVE BookInv'
  OBVIOUS
<1>1. CASE UNCHANGED vars
  BY <1>1, SafeInvStep
     DEF BookInv, OnceInv, SentInv, CancelOnceInv, LedgerInv, TakenCalls, GivenCalls, vars
<1>2. CASE Next
  BY <1>2, SafeInvStep, OnceStep, CancelOnceStep, LedgerStep DEF BookInv
<1>3. QED
  BY <1>1, <1>2

(* Every call is sent once and handled once, and the books of every        *)
(* product balance, in every reachable state and whatever is lost.         *)
THEOREM BooksBalance == Spec => []BookInv
BY InitBooks, BooksStep, PTL DEF Spec

(* No unit of stock is promised to two live orders, or to one and still on *)
(* the shelf.                                                              *)
THEOREM NothingOversold == Spec => []NoOversell
<1>1. BookInv => NoOversell
  <2> SUFFICES ASSUME BookInv, disturbed = {}, NEW p \in Products
               PROVE  products[p].stock + Held(p) <= InitStock[p]
    BY DEF NoOversell
  <2> DEFINE left == UnitsOf(TakenCalls(p)) \ UnitsOf(UndoneCalls(p))
             f == [u \in HeldUnits(p) |-> <<ReserveOf(u[1][1], u[1][2]), u[2]>>]
  <2>1. /\ IsFiniteSet(left) /\ Cardinality(left) \in Nat
        /\ products[p].stock \in Nat /\ InitStock[p] \in Nat
        /\ products[p].stock + Cardinality(left) = InitStock[p]
    BY ShelfAndLeft DEF BookInv
  <2>2. f \in [HeldUnits(p) -> left] /\ \A u, v \in HeldUnits(p) : f[u] = f[v] => u = v
    BY HeldMap DEF BookInv
  <2> HIDE DEF left, f
  <2>3. IsFiniteSet(HeldUnits(p)) /\ Cardinality(HeldUnits(p)) <= Cardinality(left)
    BY <2>1, <2>2, FewerByMap
  <2>4. Cardinality(HeldUnits(p)) \in Nat
    BY <2>3, FS_CardinalityType
  <2>5. QED
    BY <2>1, <2>3, <2>4 DEF Held
<1>2. QED
  BY <1>1, BooksBalance, PTL

(* What StockReleasedOnce asks, of the orders no two calls worked on at    *)
(* once and no cancellation left half way.                                 *)
UndisturbedReleasedOnce ==
  \A r \in Requests \ disturbed : \A i \in DOMAIN Items[r] :
    Cardinality({c \in Callers : Call("release", c, r, i) \in applied}) <= 1

(* The stock of an undisturbed order is given back at most once, by one    *)
(* compensation of createOrder or cancelOrder, whatever is lost or late.   *)
THEOREM ReleasedOnce == Spec => []UndisturbedReleasedOnce
<1>1. BookInv => UndisturbedReleasedOnce
  <2> SUFFICES ASSUME BookInv, NEW r \in Requests \ disturbed, NEW i \in DOMAIN Items[r]
               PROVE  Cardinality({c \in Callers : Call("release", c, r, i) \in applied}) <= 1
    BY DEF UndisturbedReleasedOnce
  <2> DEFINE by == {c \in Callers : Call("release", c, r, i) \in applied}
  <2>1. \A c1, c2 \in by : c1 = c2
    BY OneReleaser DEF BookInv
  <2>2. CASE by = {}
    BY <2>2, FS_EmptySet
  <2>3. CASE by # {}
    <3>1. PICK c \in by : by = {c}
      BY <2>1, <2>3
    <3>2. Cardinality({c}) = 1
      BY FS_Singleton
    <3>3. QED
      BY <3>1, <3>2
  <2>4. QED
    BY <2>2, <2>3
<1>2. QED
  BY <1>1, BooksBalance, PTL

-----------------------------------------------------------------------------
(* Replies.                                                                *)

(* A reply on its way answers the one call its caller waits for, and is    *)
(* the only one.                                                           *)
ReplyInv ==
  /\ \A m \in replies : /\ m.call \notin calls
                         /\ Waiting(m.call.by) /\ CurrentCall(m.call.by) = m.call
  /\ \A m, n \in replies : m.call = n.call => m = n

(* What a caller does while it waits.                                      *)
LEMMA WaitingSteps ==
  ASSUME NEW c \in Callers, CallerNext(c), Waiting(c)
  PROVE  /\ \/ c \in Requests /\ (ReserveSucceeds(c) \/ ReserveFails(c))
            \/ ReleaseReturns(c) \/ Crash(c)
         /\ calls' = calls
BY DEF CallerNext, CreateStep, HandlerStep, ReleaseStep, StartRequest, FindExisting,
       CheckItem, SendReserve, ReserveSucceeds, ReserveFails, PriceItem, InsertOrder,
       PublishCreated, SendRelease, ReleaseReturns, CompensationEnds, LookUp,
       UpdateStatus, PublishUpdated, Crash, Waiting

(* A caller's step adds no reply; one that waited has read its reply or    *)
(* given up on it.                                                         *)
LEMMA CallerReplies ==
  ASSUME ReplyInv, NEW c \in Callers, CallerNext(c)
  PROVE  /\ replies' \subseteq replies
         /\ \A m \in replies' : m.call.by # c
<1>1. replies' \subseteq replies
  BY DEF CallerNext, CreateStep, HandlerStep, ReleaseStep, StartRequest, FindExisting,
         CheckItem, SendReserve, Send, ReserveSucceeds, ReserveFails, PriceItem, InsertOrder,
         PublishCreated, SendRelease, ReleaseReturns, CompensationEnds, LookUp,
         UpdateStatus, PublishUpdated, Crash, GiveUp, netVars
<1>2. ASSUME NEW m \in replies', m.call.by = c PROVE FALSE
  <2>1. m \in replies /\ Waiting(c) /\ CurrentCall(c) = m.call
    BY <1>1, <1>2 DEF ReplyInv
  <2>2. \/ \E ok \in BOOLEAN : /\ [call |-> CurrentCall(c), ok |-> ok] \in replies
                               /\ replies' = replies \ {[call |-> CurrentCall(c), ok |-> ok]}
        \/ replies' = {n \in replies : n.call # CurrentCall(c)}
        \/ replies' = {n \in replies : n.call.by # c}
    BY <2>1, WaitingSteps DEF ReserveSucceeds, ReserveFails, ReleaseReturns, Crash, GiveUp
  <2>3. ASSUME NEW ok \in BOOLEAN, [call |-> CurrentCall(c), ok |-> ok] \in replies
        PROVE  m = [call |-> CurrentCall(c), ok |-> ok]
    BY <2>1, <2>3 DEF ReplyInv
  <2>4. QED
    BY <1>2, <2>1, <2>2, <2>3
<1>3. QED
  BY <1>1, <1>2

LEMMA ReplyStep == SafeInv /\ OnceInv /\ ReplyInv /\ Next => ReplyInv'
<1> SUFFICES ASSUME SafeInv, OnceInv, ReplyInv, Next PROVE ReplyInv'
  OBVIOUS
<1>0. HandlerTypes /\ replies \subseteq [call: CallSet, ok: BOOLEAN]
  BY DEF SafeInv, TypeOK, NetTypes
<1>1. CASE WorldNext
  <2>1. UNCHANGED <<pc, pos, job>>
    BY <1>1, WorldFrame
  <2>2. \A c : Waiting(c)' = Waiting(c) /\ CurrentCall(c)' = CurrentCall(c)
    BY <2>1 DEF Waiting, CurrentCall, OrderOf
  <2>3. \/ UNCHANGED <<calls, replies>>
        \/ \E call \in calls :
             /\ calls' = calls \ {call}
             /\ \/ replies' = replies
                \/ /\ Waiting(call.by) /\ CurrentCall(call.by) = call
                   /\ \E ok \in BOOLEAN : replies' = replies \cup {[call |-> call, ok |-> ok]}
    BY <1>1 DEF WorldNext, ProductStep, HandleReserve, HandleRelease, DeleteProduct, Reply
  <2>4. CASE UNCHANGED <<calls, replies>>
    BY <2>2, <2>4 DEF ReplyInv
  <2>5. ASSUME NEW call \in calls, calls' = calls \ {call}, replies' = replies
        PROVE  ReplyInv'
    BY <2>2, <2>5 DEF ReplyInv
  <2>6. ASSUME NEW call \in calls, calls' = calls \ {call},
               Waiting(call.by), CurrentCall(call.by) = call, NEW ok \in BOOLEAN,
               replies' = replies \cup {[call |-> call, ok |-> ok]}
        PROVE  ReplyInv'
    <3>1. \A m \in replies : m.call # call
      BY DEF ReplyInv
    <3>2. \A m \in replies' : /\ m.call \notin calls'
                              /\ Waiting(m.call.by) /\ CurrentCall(m.call.by) = m.call
      BY <2>6 DEF ReplyInv
    <3>3. \A m, n \in replies' : m.call = n.call => m = n
      BY <2>6, <3>1 DEF ReplyInv
    <3>4. QED
      BY <2>2, <3>2, <3>3 DEF ReplyInv
  <2>7. QED
    BY <2>3, <2>4, <2>5, <2>6
<1>2. ASSUME NEW c \in Callers, CallerNext(c) PROVE ReplyInv'
  <2>1. replies' \subseteq replies /\ \A m \in replies' : m.call.by # c
    BY <1>2, CallerReplies
  <2>2. ASSUME NEW m \in replies'
        PROVE  /\ m.call \notin calls'
               /\ Waiting(m.call.by)' /\ CurrentCall(m.call.by)' = m.call
    <3> DEFINE d == m.call.by
    <3>1. /\ m.call \notin calls /\ Waiting(d) /\ CurrentCall(d) = m.call
          /\ d # c /\ d \in Callers
      BY <1>0, <2>1, <2>2 DEF ReplyInv, CallSet
    <3>2. /\ pc'[d] = pc[d] /\ pos'[d] = pos[d]
          /\ d \in Handlers => job'[d] = job[d]
      BY <1>0, <1>2, <3>1, LocalFrame
    <3>3. Waiting(d)' /\ CurrentCall(d)' = m.call
      BY <3>1, <3>2 DEF Waiting, CurrentCall, OrderOf, Callers
    <3>4. m.call \notin calls'
      BY <1>2, <3>1, CallerCalls DEF ReserveOf, Call
    <3>5. QED
      BY <3>3, <3>4
  <2>3. QED
    BY <2>1, <2>2 DEF ReplyInv
<1>3. QED
  BY <1>1, <1>2, NextSplit

(* A row says CANCELLED only while some cancelOrder has that job.          *)
CancelledInv == \A r \in Requests : orders[r] = "CANCELLED" => BeingCancelled(r)

LEMMA JobsStay ==
  ASSUME SafeInv, Next, NEW h \in Handlers, job[h] # None
  PROVE  job'[h] = job[h]
<1>1. ASSUME NEW kind \in {"confirm", "cancel"}, NEW o \in Requests, LookUp(h, kind, o)
      PROVE  FALSE
  BY <1>1 DEF LookUp, SafeInv, HandlerInv
<1>2. QED
  BY <1>1, HandlerMoves

LEMMA CancelledStep == SafeInv /\ CancelledInv /\ Next => CancelledInv'
<1> SUFFICES ASSUME SafeInv, CancelledInv, Next, NEW r \in Requests, orders'[r] = "CANCELLED"
             PROVE  BeingCancelled(r)'
  BY DEF CancelledInv
<1>1. ASSUME NEW h \in Handlers, job[h] = [kind |-> "cancel", order |-> r]
      PROVE  BeingCancelled(r)'
  <2>1. job[h] # None
    BY <1>1, NoneAssumption
  <2>2. QED
    BY <1>1, <2>1, JobsStay DEF BeingCancelled
<1>2. CASE orders[r] = "CANCELLED"
  BY <1>1, <1>2 DEF CancelledInv, BeingCancelled
<1>3. CASE orders[r] # "CANCELLED"
  <2>1. PICK c \in Callers : CallerNext(c)
    BY <1>3, NextSplit, WorldFrame
  <2>2. ~InsertOrder(r)
    BY <1>3 DEF InsertOrder, SafeInv, TypeOK, DataTypes
  <2>3. c \in Handlers /\ UpdateStatus(c) /\ r = job[c].order
    BY <1>3, <2>1, <2>2, DataFrame
  <2>4. job[c] \in Job
    BY <2>3 DEF UpdateStatus, SafeInv, HandlerInv, HandlerPhases, TypeOK, HandlerTypes
  <2>5. job[c].kind = "cancel"
    BY <1>3, <2>3, <2>4 DEF UpdateStatus, NewStatus, Job, SafeInv, TypeOK, DataTypes
  <2>6. job[c] = [kind |-> "cancel", order |-> r]
    BY <2>3, <2>4, <2>5 DEF Job
  <2>7. QED
    BY <1>1, <2>3, <2>6
<1>4. QED
  BY <1>2, <1>3

-----------------------------------------------------------------------------
(* When nothing is lost, nothing is kept: instances whose calls are all    *)
(* answered in time, whose database and products stay, and whose requests  *)
(* have keys of their own.  Processes may still stop, publishes may still  *)
(* fail, and stock may still run out between a check and a reservation.    *)

NothingLost ==
  /\ Faults \cap {"timeout", "dbError", "overflow", "delete"} = {}
  /\ \A r1, r2 \in Requests : Key[r1] # NoKey /\ Key[r1] = Key[r2] => r1 = r2

ReleasedUpTo(c, r, n) ==
  \A i \in DOMAIN Items[r] : i <= n => Call("release", c, r, i) \in applied

(* A reservation that was sent is acknowledged, or still waited for;       *)
(* createOrder ends without a row only when all it reserved is released.   *)
RequestCalm(r) ==
  /\ \A i \in DOMAIN Items[r] :
       /\ ReserveOf(r, i) \in calls \cup applied =>
            i <= reserved[r] \/ pc[r] = "crashed" \/ (pc[r] = "reserving" /\ i = pos[r])
       /\ ReserveOf(r, i) \in calls =>
            pc[r] = "crashed" \/ (pc[r] = "reserving" /\ i = pos[r])
  /\ (pc[r] = "price" /\ pos[r] > 1) \/ pc[r] = "insert" => priced[r]
  /\ pc[r] \in {"compensate", "compensating"} => ReleasedUpTo(r, r, pos[r] - 1)
  /\ pc[r] = "done" /\ orders[r] = NoOrder => ReleasedUpTo(r, r, reserved[r])
  /\ answer[r] # None => pc[r] = "done"

(* A cancelOrder past its compensation has released all of the order.      *)
HandlerCalm(h) ==
  job[h] # None /\ job[h].kind = "cancel" =>
    LET o == job[h].order IN
    /\ pc[h] \in {"compensate", "compensating"} => ReleasedUpTo(h, o, pos[h] - 1)
    /\ pc[h] \in {"update", "publish", "done"} => ReleasedUpTo(h, o, Len(Items[o]))

(* An answer says what was done.                                           *)
RepliesCalm ==
  \A m \in replies :
    /\ m.call.op = "reserve" /\ ~m.ok => m.call \notin applied
    /\ m.call.op = "release" => m.call \in applied

CalmInv ==
  /\ \A r \in Requests : RequestCalm(r)
  /\ \A h \in Handlers : HandlerCalm(h)
  /\ RepliesCalm
  /\ \A p \in Products : Live(products, p)

LedgerInvs == BookInv /\ ReplyInv /\ CancelledInv

LEMMA CallItems ==
  ASSUME SafeInv, NEW call \in calls
  PROVE  /\ ItemOf(call).product \in Products /\ ItemOf(call).quantity \in Nat
         /\ call \in CallSet /\ CallInv(call)
<1>1. call \in CallSet /\ CallInv(call) /\ call.item \in DOMAIN Items[call.order]
  BY DEF SafeInv, CallInv, TypeOK, NetTypes
<1>2. QED
  BY <1>1, ItemFacts DEF CallSet, ItemOf

LEMMA LiveStep ==
  ASSUME NothingLost, SafeInv, Next, \A p \in Products : Live(products, p)
  PROVE  \A p \in Products : Live(products', p)
<1>0. IsTable(products) /\ DOMAIN products = Products
  BY DEF SafeInv, TypeOK, DataTypes
<1>1. CASE \E c \in Callers : CallerNext(c)
  BY <1>1, CallerCalls
<1>2. ASSUME NEW p \in Products, DeleteProduct(p) PROVE FALSE
  BY <1>2 DEF DeleteProduct, NothingLost
<1>3. ASSUME NEW call \in calls, HandleReserve(call)
      PROVE  \A p \in Products : Live(products', p)
  <2> DEFINE q == ItemOf(call).product
             n == ItemOf(call).quantity
  <2>1. q \in Products /\ n \in Nat
    BY CallItems
  <2>2. CASE products' = ReserveRow(products, q, n) /\ CanReserve(products, q, n)
    <3> HIDE DEF q, n
    <3>1. /\ DOMAIN products' = Products /\ products'[q].isDeleted = products[q].isDeleted
          /\ \A p \in Products : p # q => products'[p] = products[p]
      BY <1>0, <2>1, <2>2, ReserveRowTable
    <3>2. QED
      BY <2>1, <3>1 DEF Live
  <2>3. QED
    BY <1>3, <2>2 DEF HandleReserve
<1>4. ASSUME NEW call \in calls, HandleRelease(call)
      PROVE  \A p \in Products : Live(products', p)
  <2> DEFINE q == ItemOf(call).product
             n == ItemOf(call).quantity
  <2>1. q \in DOMAIN products /\ n \in Nat
    BY <1>0, CallItems
  <2>2. CASE products' = ReleaseRow(products, q, n)
    <3> HIDE DEF q, n
    <3>1. /\ DOMAIN products' = Products /\ products'[q].isDeleted = products[q].isDeleted
          /\ \A p \in DOMAIN products : p # q => products'[p] = products[p]
      BY <1>0, <2>1, <2>2, ReleaseRowTable
    <3>2. QED
      BY <1>0, <2>1, <3>1 DEF Live
  <2>3. QED
    BY <1>4, <2>2 DEF HandleRelease
<1>5. QED
  BY <1>1, <1>2, <1>3, <1>4, NextSplit DEF WorldNext, ProductStep

(* What product-service does with a call.                                  *)
LEMMA HandledCalls ==
  ASSUME NothingLost, LedgerInvs, CalmInv, NEW call \in calls,
         HandleReserve(call) \/ HandleRelease(call)
  PROVE  /\ call \notin applied /\ calls' = calls \ {call}
         /\ \/ applied' = applied \cup {call}
               /\ replies' \subseteq replies \cup {[call |-> call, ok |-> TRUE]}
            \/ /\ call.op = "reserve" /\ applied' = applied
               /\ replies' \subseteq replies \cup {[call |-> call, ok |-> FALSE]}
<1>1. call \notin applied
  BY DEF LedgerInvs, BookInv, OnceInv
<1>2. Live(products, ItemOf(call).product)
  BY CallItems DEF CalmInv, LedgerInvs, BookInv
<1>3. "dbError" \notin Faults
  BY DEF NothingLost
<1>4. CASE HandleReserve(call)
  BY <1>1, <1>3, <1>4 DEF HandleReserve, Reply
<1>5. CASE HandleRelease(call)
  BY <1>1, <1>2, <1>3, <1>5 DEF HandleRelease, Reply
<1>6. QED
  BY <1>4, <1>5

LEMMA RepliesCalmStep ==
  ASSUME NothingLost, LedgerInvs, CalmInv, Next
  PROVE  RepliesCalm'
<1>1. CASE \E c \in Callers : CallerNext(c)
  BY <1>1, CallerReplies, CallerCalls DEF LedgerInvs, CalmInv, RepliesCalm
<1>2. ASSUME NEW call \in calls, HandleReserve(call) \/ HandleRelease(call)
      PROVE  RepliesCalm'
  <2>1. \A m \in replies : m.call # call
    BY DEF LedgerInvs, ReplyInv
  <2>2. QED
    BY <1>2, <2>1, HandledCalls DEF CalmInv, RepliesCalm
<1>3. ASSUME NEW p \in Products, DeleteProduct(p) PROVE FALSE
  BY <1>3 DEF DeleteProduct, NothingLost
<1>4. QED
  BY <1>1, <1>2, <1>3, NextSplit DEF WorldNext, ProductStep

-----------------------------------------------------------------------------
(* The progress of createOrder when nothing is lost.                       *)

(* A step of somebody else.                                                *)
LEMMA UntouchedCalm ==
  ASSUME NEW r \in Requests, RequestCalm(r),
         pc'[r] = pc[r], pos'[r] = pos[r], reserved'[r] = reserved[r],
         priced'[r] = priced[r], answer'[r] = answer[r],
         orders[r] # NoOrder => orders'[r] # NoOrder,
         applied \subseteq applied',
         \A i : /\ ReserveOf(r, i) \in calls' => ReserveOf(r, i) \in calls
                /\ ReserveOf(r, i) \in applied' => ReserveOf(r, i) \in calls \cup applied
  PROVE  RequestCalm(r)'
BY DEF RequestCalm, ReleasedUpTo

LEMMA OthersCalm ==
  ASSUME SafeInv, NEW r \in Requests, RequestCalm(r),
         WorldNext \/ \E c \in Callers : c # r /\ CallerNext(c)
  PROVE  RequestCalm(r)'
<1>0. HandlerTypes /\ r \in Callers
  BY DEF SafeInv, TypeOK, Callers
<1>1. CASE WorldNext
  <2>1. /\ calls' \subseteq calls /\ applied' \subseteq calls \cup applied
    BY <1>1 DEF WorldNext, ProductStep, HandleReserve, HandleRelease, DeleteProduct
  <2>2. QED
    BY <1>1, <2>1, WorldFrame, UntouchedCalm
<1>2. ASSUME NEW c \in Callers, c # r, CallerNext(c)
      PROVE  RequestCalm(r)'
  <2>1. /\ pc'[r] = pc[r] /\ pos'[r] = pos[r] /\ reserved'[r] = reserved[r]
        /\ answer'[r] = answer[r]
    BY <1>0, <1>2, LocalFrame
  <2>2. priced'[r] = priced[r]
    BY <1>0, <1>2
       DEF CallerNext, CreateStep, HandlerStep, ReleaseStep, StartRequest, FindExisting,
           CheckItem, SendReserve, Send, ReserveSucceeds, ReserveFails, PriceItem,
           InsertOrder, PublishCreated, SendRelease, ReleaseReturns, CompensationEnds,
           LookUp, UpdateStatus, PublishUpdated, Crash, HandlerTypes
  <2>3. applied' = applied /\ (orders[r] # NoOrder => orders'[r] # NoOrder)
    BY <1>2, DataFrame
  <2>4. \A i : ReserveOf(r, i) \in calls' => ReserveOf(r, i) \in calls
    BY <1>2, CallerCalls DEF ReserveOf, Call
  <2>5. QED
    BY <2>1, <2>2, <2>3, <2>4, UntouchedCalm
<1>3. QED
  BY <1>1, <1>2

(* The request's own step.                                                 *)
LEMMA OwnCalm ==
  ASSUME NothingLost, LedgerInvs, CalmInv, NEW r \in Requests,
         StartRequest(r) \/ CreateStep(r) \/ ReleaseStep(r) \/ Crash(r)
  PROVE  RequestCalm(r)'
<1>0. /\ r \in Callers /\ HandlerTypes /\ RequestInv(r) /\ RequestCalm(r)
      /\ OrderOf(r) = r
      /\ pos[r] \in Nat \ {0} /\ reserved[r] \in Nat /\ Len(Items[r]) \in Nat \ {0}
      /\ DOMAIN Items[r] = 1..Len(Items[r])
  BY ItemFacts
     DEF Callers, LedgerInvs, BookInv, SafeInv, TypeOK, HandlerTypes, OrderOf, CalmInv
<1>1. pc[r] \in {"idle", "find", "check"} => \A i : ReserveOf(r, i) \notin calls \cup applied
  BY DEF LedgerInvs, BookInv, OnceInv, SentInv, ReserveOf, Call
<1>2. CASE StartRequest(r)
  <2>1. /\ pc[r] = "idle" /\ pc'[r] \in {"check", "find"}
        /\ UNCHANGED <<calls, applied, pos, reserved, answer, orders>>
    BY <1>0, <1>2, GoTypes DEF StartRequest, Phases, CreatePhases, netVars
  <2>2. QED
    BY <1>0, <1>1, <2>1 DEF RequestCalm, ReleasedUpTo
<1>3. CASE FindExisting(r) \/ CheckItem(r)
  <2>1. /\ pc[r] \in {"find", "check"}
        /\ UNCHANGED <<calls, applied, reserved, orders>>
        /\ \/ pc'[r] \in {"check", "reserve"} /\ answer' = answer
           \/ pc'[r] = "done"
    <3>1. CASE FindExisting(r)
      BY <1>0, <3>1, GoTypes, FinishTypes DEF FindExisting, netVars, Phases, CreatePhases
    <3>2. CASE CheckItem(r)
      <4>1. CASE NextItem(r, "check", "reserve") /\ UNCHANGED answer
        BY <1>0, <3>2, <4>1, NextItemTypes DEF CheckItem, netVars, Phases, CreatePhases
      <4>2. CASE Finish(r, "failed")
        BY <1>0, <3>2, <4>2, FinishTypes DEF CheckItem, netVars
      <4>3. QED
        BY <3>2, <4>1, <4>2 DEF CheckItem
    <3>3. QED
      BY <1>3, <3>1, <3>2
  <2>2. reserved[r] = 0
    BY <1>0, <2>1 DEF RequestInv
  <2>3. QED
    BY <1>0, <1>1, <2>1, <2>2 DEF RequestCalm, ReleasedUpTo
<1>4. CASE SendReserve(r)
  <2>1. /\ pc[r] = "reserve" /\ pc'[r] = "reserving"
        /\ calls' = calls \cup {ReserveOf(r, pos[r])}
        /\ UNCHANGED <<applied, pos, reserved, answer, orders>>
    BY <1>0, <1>4, GoTypes DEF SendReserve, Send, Phases, CreatePhases, ReserveOf
  <2>2. \A i : ReserveOf(r, i) = ReserveOf(r, pos[r]) => i = pos[r]
    BY DEF ReserveOf, Call
  <2>3. QED
    BY <1>0, <2>1, <2>2 DEF RequestCalm, ReleasedUpTo
<1>5. CASE ReserveSucceeds(r)
  <2>1. /\ pc[r] = "reserving" /\ reserved'[r] = pos[r] /\ reserved[r] = pos[r] - 1
        /\ \/ pc'[r] = "reserve"
           \/ pc'[r] = "price" /\ pos'[r] = 1
        /\ UNCHANGED <<calls, applied, answer, orders>>
    BY <1>0, <1>5, NextItemTypes
       DEF ReserveSucceeds, Phases, CreatePhases, HandlerTypes, RequestInv
  <2>2. CurrentCall(r) = ReserveOf(r, pos[r])
    BY <1>0, <2>1 DEF CurrentCall, ReserveOf
  <2>3. ReserveOf(r, pos[r]) \notin calls
    BY <1>5, <2>2 DEF ReserveSucceeds, LedgerInvs, ReplyInv
  <2>4. QED
    BY <1>0, <2>1, <2>3 DEF RequestCalm, ReleasedUpTo
<1>6. CASE ReserveFails(r)
  <2>1. /\ pc[r] = "reserving" /\ pc'[r] = "compensate" /\ pos'[r] = 1
        /\ UNCHANGED <<calls, applied, reserved, answer, orders>>
    BY <1>0, <1>6, GoAtTypes DEF ReserveFails, Phases, CreatePhases
  <2>2. CurrentCall(r) = ReserveOf(r, pos[r]) /\ CurrentCall(r).op = "reserve"
    BY <1>0, <2>1 DEF CurrentCall, ReserveOf, Call
  <2>3. [call |-> CurrentCall(r), ok |-> FALSE] \in replies
    BY <1>6 DEF ReserveFails, GiveUp, NothingLost
  <2>4. ReserveOf(r, pos[r]) \notin calls \cup applied
    BY <2>2, <2>3 DEF LedgerInvs, ReplyInv, CalmInv, RepliesCalm
  <2>5. QED
    BY <1>0, <2>1, <2>4 DEF RequestCalm, ReleasedUpTo
<1>7. CASE PriceItem(r)
  <2>1. /\ pc[r] = "price" /\ pc'[r] \in {"price", "insert"}
        /\ UNCHANGED <<calls, applied, reserved, answer, orders>>
    BY <1>0, <1>7, NextItemTypes DEF PriceItem, Phases, CreatePhases, netVars
  <2>2. Items[r][pos[r]].product \in Products
    BY <1>0, <2>1, ItemFacts DEF RequestInv
  <2>3. priced'[r]
    BY <1>0, <1>7, <2>2 DEF PriceItem, CalmInv, NothingLost, HandlerTypes
  <2>4. QED
    BY <1>0, <2>1, <2>3 DEF RequestCalm, ReleasedUpTo
<1>8. CASE InsertOrder(r)
  <2>1. pc[r] = "insert" /\ priced[r] /\ orders[r] = NoOrder
    BY <1>0, <1>8 DEF InsertOrder, RequestCalm, RequestInv, Ended
  <2>2. InsertAllowed(r)
    BY <2>1 DEF InsertAllowed, HasKey, NothingLost
  <2>3. /\ pc'[r] = "publish"
        /\ UNCHANGED <<calls, applied, pos, reserved, answer>>
    BY <1>0, <1>8, <2>2, GoTypes DEF InsertOrder, NothingLost, netVars, Phases, CreatePhases
  <2>4. QED
    BY <1>0, <2>1, <2>3 DEF RequestCalm, ReleasedUpTo
<1>9. CASE PublishCreated(r)
  <2>1. /\ pc[r] = "publish" /\ pc'[r] = "done"
        /\ UNCHANGED <<calls, applied, reserved, orders>>
    BY <1>0, <1>9, FinishTypes DEF PublishCreated, netVars
  <2>2. orders[r] # NoOrder
    BY <1>0, <2>1 DEF RequestInv
  <2>3. QED
    BY <1>0, <2>1, <2>2 DEF RequestCalm, ReleasedUpTo
<1>10. CASE SendRelease(r)
  <2>1. /\ pc[r] = "compensate" /\ pc'[r] = "compensating"
        /\ calls' = calls \cup {Call("release", r, r, pos[r])}
        /\ UNCHANGED <<applied, pos, reserved, answer, orders>>
    BY <1>0, <1>10, GoTypes DEF SendRelease, Send, Phases, CreatePhases
  <2>2. \A i : ReserveOf(r, i) # Call("release", r, r, pos[r])
    BY DEF ReserveOf, Call
  <2>3. QED
    BY <1>0, <2>1, <2>2 DEF RequestCalm, ReleasedUpTo
<1>11. CASE ReleaseReturns(r)
  <2>1. /\ pc[r] = "compensating" /\ pc'[r] = "compensate" /\ pos'[r] = pos[r] + 1
        /\ UNCHANGED <<calls, applied, reserved, answer, orders>>
    <3>1. "compensate" \in Phases /\ pos[r] + 1 \in Nat \ {0}
      BY <1>0 DEF Phases, CreatePhases
    <3>2. GoAt(r, "compensate", pos[r] + 1)
      BY <1>11 DEF ReleaseReturns
    <3>3. QED
      BY <1>0, <1>11, <3>1, <3>2, GoAtTypes DEF ReleaseReturns
  <2>2. CurrentCall(r) = Call("release", r, r, pos[r]) /\ CurrentCall(r).op = "release"
    BY <1>0, <2>1 DEF CurrentCall, Call
  <2>3. Call("release", r, r, pos[r]) \in applied
    BY <1>11, <2>2 DEF ReleaseReturns, GiveUp, NothingLost, CalmInv, RepliesCalm
  <2>4. QED
    BY <1>0, <2>1, <2>3 DEF RequestCalm, ReleasedUpTo
<1>12. CASE CompensationEnds(r)
  <2>1. /\ pc[r] = "compensate" /\ pc'[r] = "done" /\ pos[r] > reserved[r]
        /\ UNCHANGED <<calls, applied, reserved, orders>>
    BY <1>0, <1>12, FinishTypes, CallersAssumption DEF CompensationEnds, ReleaseCount, netVars
  <2>2. QED
    BY <1>0, <2>1 DEF RequestCalm, ReleasedUpTo
<1>13. CASE Crash(r)
  <2>1. /\ pc[r] \notin {"idle", "done"} /\ pc'[r] = "crashed"
        /\ UNCHANGED <<calls, applied, reserved, answer, orders>>
    BY <1>0, <1>13, GoTypes DEF Crash, Phases, Ended
  <2>2. QED
    BY <1>0, <2>1 DEF RequestCalm, ReleasedUpTo
<1>14. QED
  BY <1>2, <1>3, <1>4, <1>5, <1>6, <1>7, <1>8, <1>9, <1>10, <1>11, <1>12, <1>13
     DEF CreateStep, ReleaseStep

LEMMA RequestCalmStep ==
  ASSUME NothingLost, LedgerInvs, CalmInv, Next
  PROVE  \A r \in Requests : RequestCalm(r)'
<1> SUFFICES ASSUME NEW r \in Requests PROVE RequestCalm(r)'
  OBVIOUS
<1>1. SafeInv /\ RequestCalm(r)
  BY DEF LedgerInvs, BookInv, CalmInv
<1>2. CASE CallerNext(r)
  BY <1>2, OwnCalm, CallersAssumption DEF CallerNext
<1>3. CASE ~CallerNext(r)
  BY <1>1, <1>3, OthersCalm, NextSplit
<1>4. QED
  BY <1>2, <1>3

-----------------------------------------------------------------------------
(* The progress of cancelOrder when nothing is lost.                       *)

LEMMA HandlerCalmStep ==
  ASSUME NothingLost, LedgerInvs, CalmInv, Next
  PROVE  \A h \in Handlers : HandlerCalm(h)'
<1> SUFFICES ASSUME NEW h \in Handlers PROVE HandlerCalm(h)'
  OBVIOUS
<1>0. /\ SafeInv /\ HandlerInv(h) /\ HandlerCalm(h) /\ HandlerTypes
      /\ h \in Callers /\ h \notin Requests /\ pos[h] \in Nat \ {0}
      /\ job[h] # None => job[h].order \in Requests
  BY CallersAssumption
     DEF LedgerInvs, BookInv, SafeInv, CalmInv, TypeOK, HandlerTypes, Callers, Job
<1>1. applied \subseteq applied'
  BY <1>0, NextSplit, WorldFrame, DataFrame
<1>2. CASE pc'[h] = pc[h] /\ pos'[h] = pos[h] /\ job'[h] = job[h]
  BY <1>0, <1>1, <1>2 DEF HandlerCalm, ReleasedUpTo
<1>3. CASE WorldNext
  BY <1>2, <1>3, WorldFrame
<1>4. ASSUME NEW c \in Callers, CallerNext(c), c # h
      PROVE  HandlerCalm(h)'
  BY <1>0, <1>2, <1>4, LocalFrame
<1>5. CASE CallerNext(h)
  <2>1. ASSUME NEW kind \in {"confirm", "cancel"}, NEW o \in Requests, LookUp(h, kind, o)
        PROVE  HandlerCalm(h)'
    <3>1. pc[h] = "idle" /\ pos'[h] = 1 /\ job[h] = None
      BY <1>0, <2>1 DEF LookUp, HandlerInv
    <3>2. CASE Finish(h, "failed") /\ UNCHANGED job
      BY <3>1, <3>2 DEF HandlerCalm
    <3>3. CASE /\ job' = [job EXCEPT ![h] = [kind |-> kind, order |-> o]]
               /\ Go(h, IF kind = "confirm" THEN "update" ELSE "compensate")
      <4>1. /\ pc'[h] = IF kind = "confirm" THEN "update" ELSE "compensate"
            /\ job'[h] = [kind |-> kind, order |-> o]
        BY <1>0, <3>3, GoTypes DEF Phases, HandlerPhases, HandlerTypes
      <4>2. \A i \in DOMAIN Items[o] : ~(i <= 1 - 1)
        BY ItemFacts
      <4>3. QED
        BY <3>1, <4>1, <4>2 DEF HandlerCalm, ReleasedUpTo
    <3>4. QED
      BY <2>1, <3>2, <3>3 DEF LookUp
  <2>2. CASE HandlerStep(h)
    <3>1. /\ pc[h] \in {"update", "publish"} /\ pc'[h] \in {"publish", "done"}
          /\ job' = job
      BY <1>0, <2>2, GoTypes, FinishTypes
         DEF HandlerStep, UpdateStatus, PublishUpdated, Phases, HandlerPhases, Finish,
             HandlerTypes, Go
    <3>2. QED
      BY <1>0, <1>1, <3>1 DEF HandlerCalm, ReleasedUpTo
  <2>3. CASE SendRelease(h)
    <3>1. pc[h] = "compensate" /\ pc'[h] = "compensating" /\ job' = job /\ pos' = pos
      BY <1>0, <2>3, GoTypes DEF SendRelease, Send, Phases, HandlerPhases
    <3>2. QED
      BY <1>0, <1>1, <3>1 DEF HandlerCalm, ReleasedUpTo
  <2>4. CASE ReleaseReturns(h)
    <3> DEFINE o == job[h].order
    <3>1. /\ pc[h] = "compensating" /\ pc'[h] = "compensate" /\ pos'[h] = pos[h] + 1
          /\ job' = job
      BY <1>0, <2>4, GoAtTypes DEF ReleaseReturns, Phases, HandlerPhases
    <3>2. job[h] # None /\ o \in Requests
      BY <1>0, <3>1 DEF HandlerInv, HandlerPhases
    <3>3. CurrentCall(h) = Call("release", h, o, pos[h]) /\ CurrentCall(h).op = "release"
      BY <1>0, <3>1 DEF CurrentCall, OrderOf, Call
    <3>4. Call("release", h, o, pos[h]) \in applied
      BY <2>4, <3>3 DEF ReleaseReturns, GiveUp, NothingLost, CalmInv, RepliesCalm
    <3>5. \A i \in DOMAIN Items[o] : i <= pos[h] + 1 - 1 => i <= pos[h] - 1 \/ i = pos[h]
      BY <1>0, <3>2, ItemFacts
    <3>6. QED
      BY <1>0, <1>1, <3>1, <3>2, <3>4, <3>5 DEF HandlerCalm, ReleasedUpTo
  <2>5. CASE CompensationEnds(h)
    <3> DEFINE o == job[h].order
    <3>1. pc[h] = "compensate" /\ pc'[h] = "update" /\ job' = job /\ pos[h] > Len(Items[o])
      BY <1>0, <2>5, GoTypes DEF CompensationEnds, ReleaseCount, Phases, HandlerPhases
    <3>2. job[h] # None /\ o \in Requests
      BY <1>0, <3>1 DEF HandlerInv, HandlerPhases
    <3>3. \A i \in DOMAIN Items[o] : i <= pos[h] - 1
      BY <1>0, <3>1, <3>2, ItemFacts
    <3>4. QED
      BY <1>0, <1>1, <3>1, <3>2, <3>3 DEF HandlerCalm, ReleasedUpTo
  <2>6. CASE Crash(h)
    <3>1. pc'[h] = "crashed"
      BY <1>0, <2>6, GoTypes DEF Crash, Phases, Ended
    <3>2. QED
      BY <3>1 DEF HandlerCalm
  <2>7. QED
    BY <1>0, <1>5, <2>1, <2>2, <2>3, <2>4, <2>5, <2>6 DEF CallerNext, ReleaseStep
<1>6. QED
  BY <1>3, <1>4, <1>5, NextSplit

-----------------------------------------------------------------------------
(* Stock is neither lost nor invented.                                     *)

LEMMA InitLedgerInvs == Init => LedgerInvs
<1> SUFFICES ASSUME Init PROVE LedgerInvs
  OBVIOUS
<1>1. ReplyInv /\ CancelledInv
  BY DEF Init, ReplyInv, CancelledInv, NoOrder
<1>2. QED
  BY <1>1, InitBooks DEF LedgerInvs

LEMMA LedgerInvsStep == LedgerInvs /\ [Next]_vars => LedgerInvs'
<1> SUFFICES ASSUME LedgerInvs, [Next]_vars PROVE LedgerInvs'
  OBVIOUS
<1>1. CASE UNCHANGED vars
  <2>1. ReplyInv' /\ CancelledInv'
    BY <1>1 DEF LedgerInvs, ReplyInv, CancelledInv, BeingCancelled, Waiting, CurrentCall,
       OrderOf, vars
  <2>2. QED
    BY <2>1, BooksStep DEF LedgerInvs
<1>2. CASE Next
  BY <1>2, BooksStep, ReplyStep, CancelledStep DEF LedgerInvs, BookInv
<1>3. QED
  BY <1>1, <1>2

LEMMA InitCalm == Init => CalmInv
<1> SUFFICES ASSUME Init PROVE CalmInv
  OBVIOUS
<1>1. \A p \in Products : Live(products, p)
  BY DEF Init, Live, NewRow
<1>2. \A r \in Requests : RequestCalm(r)
  BY DEF Init, RequestCalm, Callers
<1>3. \A h \in Handlers : HandlerCalm(h)
  BY DEF Init, HandlerCalm
<1>4. QED
  BY <1>1, <1>2, <1>3 DEF Init, CalmInv, RepliesCalm

LEMMA CalmStep ==
  ASSUME NothingLost
  PROVE  LedgerInvs /\ CalmInv /\ [Next]_vars => CalmInv'
<1> SUFFICES ASSUME LedgerInvs, CalmInv, [Next]_vars PROVE CalmInv'
  OBVIOUS
<1>1. CASE UNCHANGED vars
  <2>1. /\ \A r \in Requests : RequestCalm(r)'
        /\ \A h \in Handlers : HandlerCalm(h)'
    BY <1>1 DEF CalmInv, RequestCalm, HandlerCalm, ReleasedUpTo, vars
  <2>2. QED
    BY <1>1, <2>1 DEF CalmInv, RepliesCalm, vars
<1>2. CASE Next
  <2>1. \A p \in Products : Live(products', p)
    BY <1>2, LiveStep DEF LedgerInvs, BookInv, CalmInv
  <2>2. QED
    BY <1>2, <2>1, RequestCalmStep, HandlerCalmStep, RepliesCalmStep DEF CalmInv
<1>3. QED
  BY <1>1, <1>2

(* Where nothing is lost, every caller's progress says what was applied.   *)
THEOREM CalmInvariance ==
  ASSUME NothingLost
  PROVE  Spec => [](LedgerInvs /\ CalmInv)
<1>1. Init => LedgerInvs /\ CalmInv
  BY InitLedgerInvs, InitCalm
<1>2. (LedgerInvs /\ CalmInv) /\ [Next]_vars => (LedgerInvs /\ CalmInv)'
  BY LedgerInvsStep, CalmStep
<1>3. QED
  BY <1>1, <1>2, PTL DEF Spec

(* A reservation that was not undone is of a live order, once every call   *)
(* has run to its end.                                                     *)
LEMMA LeftIsHeld ==
  ASSUME LedgerInvs, CalmInv, NEW p,
         \A c \in Callers : pc[c] \in {"idle", "done"},
         NEW call \in TakenCalls(p), call \notin UndoneCalls(p)
  PROVE  /\ call = ReserveOf(call.order, call.item)
         /\ <<call.order, call.item>> \in HeldItems(p)
         /\ ItemOf(call) = Items[call.order][call.item]
<1> DEFINE r == call.order
           i == call.item
<1>0. /\ SafeInv /\ OnceInv /\ CancelledInv /\ call \in applied
      /\ call.op = "reserve" /\ ItemOf(call).product = p
  BY DEF LedgerInvs, BookInv, TakenCalls
<1>1. /\ call \in CallSet /\ CallInv(call) /\ r \in Requests /\ r \in Callers
      /\ i \in DOMAIN Items[r] /\ i \in Nat
      /\ call = ReserveOf(r, i) /\ call.by = r
  BY <1>0 DEF SafeInv, TypeOK, NetTypes, CallSet, CallInv, ReserveOf, Call, Callers
<1>2. Items[r][i].product = p
  BY <1>0 DEF ItemOf
<1>3. pc[r] = "done" /\ i <= reserved[r]
  <2>1. pc[r] # "idle"
    BY <1>0, <1>1 DEF OnceInv, SentInv
  <2>2. QED
    BY <1>0, <1>1, <2>1 DEF CalmInv, RequestCalm
<1>4. ASSUME NEW c \in Callers PROVE Call("release", c, r, i) \notin applied
  <2>1. SUFFICES ASSUME Call("release", c, r, i) \in applied PROVE FALSE
    OBVIOUS
  <2>2. Call("release", c, r, i) \in GivenCalls(p)
    BY <1>2, <2>1 DEF GivenCalls, ItemOf, Call
  <2>3. ReserveOf(r, i) \in UndoneCalls(p)
    BY <2>2 DEF UndoneCalls, Call
  <2>4. QED
    BY <1>1, <2>3
<1>5. orders[r] # NoOrder
  BY <1>1, <1>3, <1>4 DEF CalmInv, RequestCalm, ReleasedUpTo
<1>6. ~BeingCancelled(r)
  <2>1. SUFFICES ASSUME NEW h \in Handlers, job[h] = [kind |-> "cancel", order |-> r]
                 PROVE  FALSE
    BY DEF BeingCancelled
  <2>2. job[h] # None /\ h \in Callers
    BY <1>1, <2>1, NoneAssumption DEF Callers
  <2>3. pc[h] = "done"
    BY <1>0, <2>2 DEF SafeInv, HandlerInv
  <2>4. ReleasedUpTo(h, r, Len(Items[r]))
    BY <2>1, <2>2, <2>3 DEF CalmInv, HandlerCalm
  <2>5. i <= Len(Items[r])
    BY <1>1, ItemFacts
  <2>6. QED
    BY <1>1, <1>4, <2>2, <2>4, <2>5 DEF ReleasedUpTo
<1>7. orders[r] \in Cancellable
  BY <1>0, <1>1, <1>5, <1>6
     DEF CancelledInv, SafeInv, TypeOK, DataTypes, Statuses, Cancellable
<1>8. <<r, i>> \in HeldItems(p)
  BY <1>1, <1>2, <1>6, <1>7 DEF HeldItems
<1>9. QED
  BY <1>1, <1>8 DEF ItemOf

(* Where nothing is lost, once every call has run to its end what is on    *)
(* the shelf and what live orders hold add up to what there was.           *)
THEOREM StockIsConserved ==
  ASSUME NothingLost
  PROVE  Spec => []StockAddsUp
<1>1. LedgerInvs /\ CalmInv => StockAddsUp
  <2> SUFFICES ASSUME LedgerInvs, CalmInv, \A c \in Callers : pc[c] \in {"idle", "done"},
                      calls = {}, disturbed = {}, NEW p \in Products
               PROVE  products[p].stock + Held(p) = InitStock[p]
    BY DEF StockAddsUp
  <2> DEFINE left == UnitsOf(TakenCalls(p)) \ UnitsOf(UndoneCalls(p))
             f == [u \in HeldUnits(p) |-> <<ReserveOf(u[1][1], u[1][2]), u[2]>>]
  <2>0. SafeInv /\ CancelOnceInv /\ LedgerInv
    BY DEF LedgerInvs, BookInv
  <2>1. /\ IsFiniteSet(left) /\ Cardinality(left) \in Nat
        /\ products[p].stock \in Nat /\ InitStock[p] \in Nat
        /\ products[p].stock + Cardinality(left) = InitStock[p]
    BY <2>0, ShelfAndLeft
  <2>2. f \in [HeldUnits(p) -> left] /\ \A u, v \in HeldUnits(p) : f[u] = f[v] => u = v
    BY <2>0, HeldMap
  <2>3. ASSUME NEW y \in left PROVE \E u \in HeldUnits(p) : f[u] = y
    <3>1. /\ y = <<y[1], y[2]>> /\ y[1] \in TakenCalls(p)
          /\ y[2] \in 1..ItemOf(y[1]).quantity /\ y[1] \notin UndoneCalls(p)
      BY InUnits
    <3> DEFINE x == <<y[1].order, y[1].item>>
    <3>2. /\ y[1] = ReserveOf(y[1].order, y[1].item) /\ x \in HeldItems(p)
          /\ ItemOf(y[1]) = Items[y[1].order][y[1].item]
      BY <3>1, LeftIsHeld
    <3>3. <<x, y[2]>> \in HeldUnits(p)
      BY <3>1, <3>2 DEF HeldUnits
    <3>4. f[<<x, y[2]>>] = <<ReserveOf(y[1].order, y[1].item), y[2]>>
      BY <3>3
    <3>5. QED
      BY <3>1, <3>2, <3>3, <3>4
  <2> HIDE DEF left, f
  <2>4. IsFiniteSet(HeldUnits(p))
    BY <2>1, <2>2, FewerByMap
  <2>5. Cardinality(left) = Cardinality(HeldUnits(p))
    BY <2>2, <2>3, <2>4, SameCount
  <2>6. QED
    BY <2>1, <2>5 DEF Held
<1>2. QED
  BY <1>1, CalmInvariance, PTL

(* Where nothing is lost, a createOrder that fails and leaves no row holds *)
(* no stock, as the comment in the code says; the run saga_leak shows that *)
(* a timeout is enough to break it.                                        *)
THEOREM FailedSagasHoldNothing ==
  ASSUME NothingLost
  PROVE  Spec => []FailedSagaHoldsNoStock
<1>1. LedgerInvs /\ CalmInv => FailedSagaHoldsNoStock
  <2> SUFFICES ASSUME LedgerInvs, CalmInv, NEW r \in Requests,
                      answer[r] = "failed", orders[r] = NoOrder,
                      NEW i \in DOMAIN Items[r], Call("reserve", r, r, i) \in applied
               PROVE  Call("release", r, r, i) \in applied
    BY DEF FailedSagaHoldsNoStock
  <2>1. pc[r] = "done"
    BY NoneAssumption DEF CalmInv, RequestCalm
  <2>2. i <= reserved[r] /\ ReleasedUpTo(r, r, reserved[r])
    BY <2>1 DEF CalmInv, RequestCalm, ReserveOf
  <2>3. QED
    BY <2>2 DEF ReleasedUpTo
<1>2. QED
  BY <1>1, CalmInvariance, PTL
=============================================================================
