--------------------------- MODULE GatewayProofs ----------------------------
(***************************************************************************)
(* What the idempotency store replays, for any number of requests, keys    *)
(* and routes: the gateway's own 401 and 404 answers to the same key.      *)
(***************************************************************************)
EXTENDS Gateway, TLAPS

(* A request under a hook has a key and has been looked up; an answer on   *)
(* its way to the store was given to a request of its key, and may be kept.*)
SlotInv ==
  \A s \in Slots :
    /\ pc[s] = "lookup" => KeyOf(s) \in Keys
    /\ hooked[s] => KeyOf(s) \in Keys /\ pc[s] \in {"routing", "forwarded", "storing"}
    /\ pc[s] = "storing" =>
         /\ KeyOf(s) \in Keys
         /\ reply[s] \in {401, 404}
         /\ reply[s] \in said[KeyOf(s)]

(* All that is ever kept is the refusal of a request that had no valid     *)
(* token or no route: a service's answer leaves no body to keep.           *)
KeptInv == \A k \in Keys : store[k] # None => store[k].status \in {401, 404}

StoreInv == ReplaysOwnAnswers /\ KeptInv

IInv == TypeOK /\ SlotInv /\ StoreInv

(* At the start nothing is kept and nothing under way.                     *)
LEMMA InitInv == Init => IInv
BY KeysAssumption
   DEF Init, IInv, TypeOK, SlotInv, StoreInv, ReplaysOwnAnswers, KeptInv,
       Entry, Phases, Requests, Routes, NoRequest, KeyOf

(* Redis' own step: entries grow older or go.                              *)
LEMMA TickInv == IInv /\ Tick => IInv'
<1> SUFFICES ASSUME IInv, Tick PROVE IInv'
  OBVIOUS
<1>1. UNCHANGED <<pc, request, hooked, reply, said, effects>>
  BY DEF Tick
<1>2. ASSUME NEW k \in Keys
      PROVE  /\ store'[k] \in Entry \cup {None}
             /\ store'[k] # None => store[k] # None /\ store'[k].status = store[k].status
  <2>1. store'[k] = IF store[k] = None \/ store[k].left = 1 THEN None
                      ELSE [store[k] EXCEPT !.left = @ - 1]
    BY DEF Tick
  <2>2. store[k] \in Entry \cup {None}
    BY DEF IInv, TypeOK
  <2>3. CASE store[k] = None \/ store[k].left = 1
    BY <2>1, <2>3
  <2>4. CASE ~(store[k] = None \/ store[k].left = 1)
    <3>1. store[k] \in Entry /\ store[k].left - 1 \in 1..Ttl
      BY <2>2, <2>4, TtlAssumption DEF Entry
    <3>2. store'[k] = [status |-> store[k].status, left |-> store[k].left - 1]
      BY <2>1, <2>4, <3>1 DEF Entry
    <3>3. QED
      BY <2>4, <3>1, <3>2 DEF Entry
  <2>5. QED
    BY <2>3, <2>4
<1>3. TypeOK'
  <2>1. store' \in [Keys -> Entry \cup {None}]
    BY <1>2 DEF Tick
  <2>2. QED
    BY <1>1, <2>1 DEF IInv, TypeOK
<1>4. SlotInv'
  BY <1>1 DEF IInv, SlotInv, KeyOf
<1>5. StoreInv'
  BY <1>1, <1>2 DEF IInv, StoreInv, ReplaysOwnAnswers, KeptInv
<1>6. QED
  BY <1>3, <1>4, <1>5 DEF IInv

(* A request that ends leaves an idle slot, on which nothing depends.      *)
LEMMA EndInv ==
  ASSUME IInv, NEW s \in Slots, End(s), UNCHANGED store,
         said' \in [Keys -> SUBSET AllStatuses],
         \A k \in Keys : said[k] \subseteq said'[k],
         effects' \in [Keys -> 0..2]
  PROVE  IInv'
<1>1. TypeOK'
  BY KeysAssumption
     DEF End, IInv, TypeOK, NoRequest, Requests, Routes, Phases
<1>2. SlotInv'
  <2> SUFFICES ASSUME NEW t \in Slots
               PROVE  /\ pc'[t] = "lookup" => KeyOf(t)' \in Keys
                      /\ hooked'[t] => /\ KeyOf(t)' \in Keys
                                       /\ pc'[t] \in {"routing", "forwarded", "storing"}
                      /\ pc'[t] = "storing" =>
                           /\ KeyOf(t)' \in Keys
                           /\ reply'[t] \in {401, 404}
                           /\ reply'[t] \in said'[KeyOf(t)']
    BY DEF SlotInv, KeyOf
  <2>1. CASE t = s
    BY <2>1 DEF End, IInv, TypeOK
  <2>2. CASE t # s
    <3>1. /\ pc'[t] = pc[t] /\ request'[t] = request[t]
          /\ hooked'[t] = hooked[t] /\ reply'[t] = reply[t]
      BY <2>2 DEF End, IInv, TypeOK
    <3>2. QED
      BY <3>1 DEF IInv, SlotInv, KeyOf
  <2>3. QED
    BY <2>1, <2>2
<1>3. StoreInv'
  BY DEF IInv, StoreInv, ReplaysOwnAnswers, KeptInv
<1>4. QED
  BY <1>1, <1>2, <1>3 DEF IInv

(* What a request of a key is answered is added to what the key was told.  *)
LEMMA SayAdds ==
  ASSUME TypeOK, NEW s \in Slots, NEW status \in AllStatuses, Say(s, status)
  PROVE  /\ said' \in [Keys -> SUBSET AllStatuses]
         /\ \A k \in Keys : said[k] \subseteq said'[k]
         /\ KeyOf(s) \in Keys /\ status < 500 => status \in said'[KeyOf(s)]
BY DEF Say, TypeOK

(* Every way a service is reached leaves the count in its range.           *)
LEMMA CarryEffects ==
  ASSUME TypeOK, NEW s \in Slots, NEW done, Carry(s, done)
  PROVE  effects' \in [Keys -> 0..2]
BY DEF Carry, TypeOK

(* A request that goes on under another phase.                             *)
LEMMA GoToInv ==
  ASSUME IInv, NEW s \in Slots, NEW phase \in {"lookup", "routing", "forwarded"},
         GoTo(s, phase), phase = "lookup" => KeyOf(s) \in Keys,
         hooked' = hooked, hooked[s] => phase # "lookup",
         UNCHANGED <<store, said, effects>>
  PROVE  IInv'
<1>1. TypeOK'
  BY DEF GoTo, IInv, TypeOK, Phases
<1>2. SlotInv'
  BY DEF GoTo, IInv, TypeOK, SlotInv, KeyOf
<1>3. StoreInv'
  BY DEF IInv, StoreInv, ReplaysOwnAnswers, KeptInv
<1>4. QED
  BY <1>1, <1>2, <1>3 DEF IInv

(* The gateway's own answers: what is kept of them is 401 or 404, for only *)
(* a hooked request's answer is.                                           *)
LEMMA AnswerInv ==
  ASSUME IInv, NEW s \in Slots, NEW status \in GatewayStatuses,
         status \in {400, 429} => ~hooked[s], Answer(s, status)
  PROVE  IInv'
<1>1. /\ Say(s, status)
      /\ said' \in [Keys -> SUBSET AllStatuses]
      /\ \A k \in Keys : said[k] \subseteq said'[k]
      /\ KeyOf(s) \in Keys /\ status < 500 => status \in said'[KeyOf(s)]
  BY SayAdds DEF Answer, IInv, AllStatuses
<1>2. CASE ~Kept(s, status)
  BY <1>1, <1>2, EndInv DEF Answer, IInv, TypeOK
<1>3. CASE Kept(s, status)
  <2>1. /\ hooked[s] /\ status \in {401, 404} /\ Store(s, status)
        /\ KeyOf(s) \in Keys
    BY <1>3 DEF Answer, Kept, GatewayStatuses, IInv, SlotInv
  <2>2. TypeOK'
    BY <1>1, <2>1 DEF Answer, Store, IInv, TypeOK, Phases
  <2>3. SlotInv'
    BY <1>1, <2>1 DEF Store, IInv, TypeOK, SlotInv, KeyOf
  <2>4. StoreInv'
    BY <1>1 DEF Answer, IInv, StoreInv, ReplaysOwnAnswers, KeptInv
  <2>5. QED
    BY <2>2, <2>3, <2>4 DEF IInv
<1>4. QED
  BY <1>2, <1>3

(* The entry that SETEX writes is the answer given to the key.             *)
LEMMA SetExInv ==
  ASSUME IInv, NEW s \in Slots, SetEx(s)
  PROVE  IInv'
<1> DEFINE k == KeyOf(s)
           entry == [status |-> reply[s], left |-> Ttl]
<1>1. /\ k \in Keys /\ reply[s] \in {401, 404} /\ reply[s] \in said[k]
      /\ entry \in Entry
  BY TtlAssumption DEF IInv, SlotInv, SetEx, Entry, AllStatuses, GatewayStatuses
<1>2. store' = [store EXCEPT ![k] = entry] /\ End(s) /\ UNCHANGED <<said, effects>>
  BY DEF SetEx
<1>3. TypeOK'
  BY <1>1, <1>2, KeysAssumption
     DEF End, IInv, TypeOK, NoRequest, Requests, Routes, Phases
<1>4. SlotInv'
  BY <1>2 DEF End, IInv, TypeOK, SlotInv, KeyOf
<1>5. StoreInv'
  <2>1. ASSUME NEW j \in Keys, store'[j] # None
        PROVE  store'[j].status \in {401, 404} /\ store'[j].status \in said'[j]
    <3>1. CASE j = k
      BY <1>1, <1>2, <3>1 DEF IInv, TypeOK
    <3>2. CASE j # k
      BY <1>2, <2>1, <3>2
         DEF IInv, TypeOK, StoreInv, ReplaysOwnAnswers, KeptInv
    <3>3. QED
      BY <3>1, <3>2
  <2>2. QED
    BY <2>1 DEF StoreInv, ReplaysOwnAnswers, KeptInv
<1>6. QED
  BY <1>3, <1>4, <1>5 DEF IInv

(* A request arrives in an idle slot.                                      *)
LEMMA ReceiveInv ==
  ASSUME IInv, NEW s \in Slots, NEW r \in Requests, Receive(s, r)
  PROVE  IInv'
<1>1. TypeOK'
  BY DEF Receive, IInv, TypeOK, Phases
<1>2. SlotInv'
  BY DEF Receive, IInv, TypeOK, SlotInv, KeyOf
<1>3. StoreInv'
  BY DEF Receive, IInv, StoreInv, ReplaysOwnAnswers, KeptInv
<1>4. QED
  BY <1>1, <1>2, <1>3 DEF IInv

(* Every step of a request.                                                *)
LEMMA StepInv ==
  ASSUME IInv, NEW s \in Slots, Step(s)
  PROVE  IInv'
<1>1. /\ effects \in [Keys -> 0..2]
      /\ said \in [Keys -> SUBSET AllStatuses]
      /\ KeyOf(s) \in Keys \cup {NoKey, BadKey}
      /\ hooked[s] => pc[s] \in {"routing", "forwarded", "storing"}
      /\ pc[s] = "lookup" => KeyOf(s) \in Keys
      /\ {400, 401, 404, 429, 500, 502, 503} = GatewayStatuses
  BY DEF IInv, TypeOK, SlotInv, Requests, KeyOf, GatewayStatuses
<1>2. CASE Limit(s)
  BY <1>1, <1>2, AnswerInv DEF Limit
<1>3. CASE RejectKey(s)
  BY <1>1, <1>3, AnswerInv DEF RejectKey
<1>4. CASE Admit(s)
  BY <1>1, <1>4, GoToInv DEF Admit
<1>5. CASE Replay(s)
  BY <1>1, <1>5, EndInv DEF Replay
<1>6. CASE Hook(s)
  <2>1. TypeOK'
    BY <1>6 DEF Hook, GoTo, IInv, TypeOK, Phases
  <2>2. SlotInv'
    BY <1>1, <1>6 DEF Hook, GoTo, IInv, TypeOK, SlotInv, KeyOf
  <2>3. StoreInv'
    BY <1>6 DEF Hook, IInv, StoreInv, ReplaysOwnAnswers, KeptInv
  <2>4. QED
    BY <2>1, <2>2, <2>3 DEF IInv
<1>7. CASE PassWithoutStore(s)
  BY <1>1, <1>7, GoToInv DEF PassWithoutStore
<1>8. CASE NotFound(s) \/ CircuitOpen(s) \/ Unauthorized(s) \/ InternalError(s)
  BY <1>1, <1>8, AnswerInv DEF NotFound, CircuitOpen, Unauthorized, InternalError
<1>9. CASE Forward(s)
  BY <1>1, <1>9, GoToInv DEF Forward
<1>10. ASSUME NEW status \in ServiceStatuses, ServiceAnswers(s, status)
       PROVE  IInv'
  <2>1. effects' \in [Keys -> 0..2]
    BY <1>10, CarryEffects DEF ServiceAnswers, IInv
  <2>2. status \in AllStatuses /\ Say(s, status) /\ End(s) /\ UNCHANGED store
    BY <1>10 DEF ServiceAnswers, AllStatuses
  <2>3. QED
    BY <2>1, <2>2, SayAdds, EndInv DEF IInv
<1>11. CASE ProxyFails(s)
  <2>1. effects' \in [Keys -> 0..2]
    BY <1>11, CarryEffects DEF ProxyFails, IInv
  <2>2. 502 \in AllStatuses /\ Say(s, 502) /\ End(s) /\ UNCHANGED store
    BY <1>1, <1>11 DEF ProxyFails, Kept, AllStatuses
  <2>3. QED
    BY <1>1, <2>1, <2>2, SayAdds, EndInv DEF IInv
<1>12. CASE BreakOff(s)
  BY <1>1, <1>12, CarryEffects, EndInv DEF BreakOff, IInv
<1>13. CASE SetEx(s)
  BY <1>13, SetExInv
<1>14. CASE SetExFails(s)
  BY <1>1, <1>14, EndInv DEF SetExFails
<1>15. QED
  BY <1>2, <1>3, <1>4, <1>5, <1>6, <1>7, <1>8, <1>9, <1>10, <1>11, <1>12, <1>13,
     <1>14 DEF Step, LookUp

(* IInv is an invariant of the gateway.                                    *)
THEOREM GatewayInvariance == Spec => []IInv
<1>1. IInv /\ [Next]_vars => IInv'
  <2> SUFFICES ASSUME IInv, [Next]_vars PROVE IInv'
    OBVIOUS
  <2>1. CASE UNCHANGED vars
    BY <2>1 DEF vars, IInv, TypeOK, SlotInv, StoreInv, ReplaysOwnAnswers,
                KeptInv, KeyOf
  <2>2. CASE Next
    BY <2>2, StepInv, ReceiveInv, TickInv DEF Next
  <2>3. QED
    BY <2>1, <2>2
<1>2. QED
  BY InitInv, <1>1, PTL DEF Spec

(* Every variable keeps its type.                                          *)
THEOREM GatewayTypeCorrect == Spec => []TypeOK
<1>1. IInv => TypeOK
  BY DEF IInv
<1>2. QED
  BY GatewayInvariance, <1>1, PTL

(* A key is replayed only what a request of that key was answered before.  *)
THEOREM StoreHoldsOwnAnswers == Spec => []ReplaysOwnAnswers
<1>1. IInv => ReplaysOwnAnswers
  BY DEF IInv, StoreInv
<1>2. QED
  BY GatewayInvariance, <1>1, PTL

(* The store holds 401 and 404 answers and nothing else: the answer of a   *)
(* request that a service carried out is not there for its retry.          *)
THEOREM OnlyRefusalsAreKept == Spec => []KeptInv
<1>1. IInv => KeptInv
  BY DEF IInv, StoreInv
<1>2. QED
  BY GatewayInvariance, <1>1, PTL

(* No 429, 502 or 503 is replayed to a retry.                              *)
THEOREM RefusalsAreNotKept == Spec => []RetriesGetThrough
<1>1. IInv => RetriesGetThrough
  BY DEF IInv, StoreInv, KeptInv, RetriesGetThrough
<1>2. QED
  BY GatewayInvariance, <1>1, PTL
=============================================================================
