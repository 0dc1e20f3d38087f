-------------------------- MODULE DiscoveryProofs ---------------------------
(***************************************************************************)
(* Proofs about Discovery, for any services, replicas, interval, timeout   *)
(* and delay below the interval.                                           *)
(***************************************************************************)
EXTENDS Discovery, Integers, TLAPS

Age(s) == registry[s].lastHeartbeat

(* What is healthy is not older than the checker lets it become before it  *)
(* looks again.                                                            *)
CheckInv == \A s \in Services : Healthy(s) => Age(s) + checkTimer <= Timeout + Interval

(* Since its name was last received, a replica has published a heartbeat   *)
(* per interval, save perhaps the one it was waiting to publish then.      *)
BeatInv ==
  \A r \in alive :
    registry[ServiceOf[r]] # None =>
      \/ missed[r] >= AllMissed
      \/ (missed[r] + 1) * Interval >= Age(ServiceOf[r]) + beatTimer[r]

IInv == TypeOK /\ CheckInv /\ BeatInv

LEMMA AllMissedType == AllMissed \in Nat
BY TimesAssumption DEF AllMissed

(* m * Interval beyond the timeout makes m more than AllMissed.            *)
LEMMA EnoughMissed ==
  ASSUME NEW m \in Nat, (m + 1) * Interval > Timeout
  PROVE  m >= AllMissed
<1>1. Interval \in Nat /\ Interval > 0 /\ Timeout \in Nat
  BY TimesAssumption
<1>2. AllMissed * Interval <= Timeout
  BY <1>1 DEF AllMissed
<1>3. ASSUME m + 1 <= AllMissed PROVE FALSE
  <2>1. (m + 1) * Interval <= AllMissed * Interval
    BY <1>1, <1>3, AllMissedType
  <2>2. QED
    BY <1>1, <1>2, <2>1, AllMissedType
<1>4. QED
  BY <1>3, AllMissedType

LEMMA OneMore ==
  ASSUME NEW m \in Nat
  PROVE  (m + 2) * Interval = (m + 1) * Interval + Interval
BY TimesAssumption

LEMMA InitIInv == Init => IInv
BY TimesAssumption, AllMissedType, NoneAssumption
   DEF Init, IInv, TypeOK, CheckInv, BeatInv, Healthy, Instance

LEMMA TypeStep == TypeOK /\ [Next]_vars => TypeOK'
<1> SUFFICES ASSUME TypeOK, [Next]_vars PROVE TypeOK'
  OBVIOUS
<1> USE TimesAssumption, AllMissedType DEF TypeOK
<1>1. ASSUME NEW r \in Replicas, Start(r) PROVE TypeOK'
  BY <1>1 DEF Start, Send, Lose
<1>2. ASSUME NEW r \in Replicas, Stop(r) PROVE TypeOK'
  BY <1>2 DEF Stop
<1>3. ASSUME NEW r \in Replicas, Publish(r) \/ PublishLost(r) PROVE TypeOK'
  BY <1>3 DEF Publish, PublishLost, Due, Send, Lose
<1>4. ASSUME NEW r \in Replicas, Receive(r) PROVE TypeOK'
  <2>1. [lastHeartbeat |-> 0, status |-> "healthy"] \in Instance
    BY DEF Instance, Old
  <2>2. registry' \in [Services -> Instance \cup {None}]
    BY <1>4, <2>1, ReplicasAssumption DEF Receive
  <2>3. missed' \in [Replicas -> 0..AllMissed]
    BY <1>4 DEF Receive
  <2>4. QED
    BY <1>4, <2>2, <2>3 DEF Receive
<1>5. CASE Check
  <2>1. \A s \in Services : Stale(s) =>
          [registry[s] EXCEPT !.status = "unhealthy"] \in Instance
    BY DEF Stale, Instance
  <2>2. QED
    BY <1>5, <2>1 DEF Check
<1>6. CASE Restart
  BY <1>6 DEF Restart
<1>7. CASE Tick
  <2>1. \A s \in Services : registry[s] # None =>
          [registry[s] EXCEPT !.lastHeartbeat = Older(@)] \in Instance
    BY DEF Instance, Older, Old
  <2>2. \A r \in Replicas : onWay[r] # None => onWay[r] + 1 \in 0..MaxDelay
    <3>1. \A r \in Replicas : onWay[r] # MaxDelay /\ onWay[r] \in 0..MaxDelay \cup {None}
      BY <1>7 DEF Tick
    <3> HIDE DEF TypeOK
    <3>2. QED
      BY <3>1
  <2>3. registry' \in [Services -> Instance \cup {None}]
    BY <1>7, <2>1 DEF Tick
  <2>4. onWay' \in [Replicas -> 0..MaxDelay \cup {None}]
    BY <1>7, <2>2 DEF Tick
  <2>5. beatTimer' \in [Replicas -> 0..Interval] /\ checkTimer' \in 0..Interval
    <3>1. \A r \in alive : r \in Replicas /\ beatTimer[r] - 1 \in 0..Interval
      BY <1>7 DEF Tick
    <3>2. checkTimer - 1 \in 0..Interval
      BY <1>7 DEF Tick
    <3> HIDE TimesAssumption DEF TypeOK
    <3>3. 0 \in 0..Interval
      BY TimesAssumption
    <3>4. QED
      BY <1>7, <3>1, <3>2, <3>3 DEF Tick
  <2>6. QED
    BY <1>7, <2>3, <2>4, <2>5 DEF Tick
<1>8. QED
  BY <1>1, <1>2, <1>3, <1>4, <1>5, <1>6, <1>7 DEF Next, ReplicaStep, vars

(* What a step makes of an entry.                                          *)
LEMMA EntryAfterTick ==
  ASSUME TypeOK, Tick, NEW s \in Services, registry'[s] # None
  PROVE  /\ registry[s] # None
         /\ registry'[s].status = registry[s].status
         /\ Age(s)' \in Nat /\ Age(s) \in Nat /\ Age(s)' <= Age(s) + 1
<1>1. registry[s] # None /\ registry[s] \in Instance
  BY DEF Tick, TypeOK
<1>2. registry'[s] = [registry[s] EXCEPT !.lastHeartbeat = Older(@)]
  BY <1>1 DEF Tick
<1>3. QED
  BY <1>1, <1>2, TimesAssumption DEF Instance, Older, Old, Age

LEMMA EntryAfterCheck ==
  ASSUME TypeOK, Check, NEW s \in Services
  PROVE  /\ (registry'[s] # None) <=> (registry[s] # None)
         /\ registry[s] # None => Age(s)' = Age(s) /\ Age(s) \in Nat
         /\ Healthy(s)' => Healthy(s) /\ Age(s) <= Timeout
         /\ (Healthy(s) /\ ~Healthy(s)') => Age(s) > Timeout
<1>1. registry[s] # None => registry[s] \in Instance /\ Age(s) \in Nat
  BY TimesAssumption DEF TypeOK, Instance, Old, Age
<1>2. registry'[s] = IF Stale(s) THEN [registry[s] EXCEPT !.status = "unhealthy"]
                       ELSE registry[s]
  BY DEF Check
<1>3. CASE Stale(s)
  <2>1. registry'[s] = [registry[s] EXCEPT !.status = "unhealthy"]
    BY <1>2, <1>3
  <2>2. registry'[s] \in Instance /\ registry'[s].status = "unhealthy"
        /\ Age(s)' = Age(s)
    BY <1>1, <1>3, <2>1 DEF Stale, Instance, Age
  <2>3. registry'[s] # None
    BY <2>2, NoneAssumption, TimesAssumption DEF Instance, Old
  <2>4. QED
    BY <1>1, <1>3, <2>2, <2>3 DEF Stale, Healthy, Age
<1>4. CASE ~Stale(s)
  BY <1>1, <1>2, <1>4, TimesAssumption DEF Stale, Healthy, Age
<1>5. QED
  BY <1>3, <1>4

-----------------------------------------------------------------------------
(* The invariant.                                                          *)

LEMMA AgeType == TypeOK => \A s \in Services : registry[s] # None => Age(s) \in Nat
BY TimesAssumption DEF TypeOK, Instance, Old, Age

LEMMA ServiceStep ==
  ASSUME IInv, NEW r \in Replicas, Start(r) \/ Stop(r) \/ Publish(r) \/ PublishLost(r)
  PROVE  CheckInv' /\ BeatInv'
<1> USE DEF IInv
<1>0. registry' = registry /\ checkTimer' = checkTimer
  BY DEF Start, Stop, Publish, PublishLost, Due
<1>1. CheckInv'
  BY <1>0 DEF CheckInv, Healthy, Age
<1>2. ASSUME NEW q \in alive', registry'[ServiceOf[q]] # None
      PROVE  \/ missed'[q] >= AllMissed
             \/ (missed'[q] + 1) * Interval >= Age(ServiceOf[q])' + beatTimer'[q]
  <2>1. ServiceOf[q] \in Services /\ q \in Replicas
    BY ReplicasAssumption DEF TypeOK, Start, Stop, Publish, PublishLost, Due
  <2>2. Age(ServiceOf[q])' = Age(ServiceOf[q]) /\ Age(ServiceOf[q]) \in Nat
    BY <1>0, <1>2, <2>1, AgeType DEF Age
  <2>3. missed[q] \in Nat /\ beatTimer[q] \in Nat
    BY <2>1, AllMissedType DEF TypeOK
  <2>4. CASE q # r
    <3>1. q \in alive /\ missed'[q] = missed[q] /\ beatTimer'[q] = beatTimer[q]
      BY <2>1, <2>4 DEF TypeOK, Start, Stop, Publish, PublishLost, Due
    <3>2. QED
      BY <1>0, <1>2, <2>2, <3>1 DEF BeatInv
  <2>5. CASE q = r /\ Start(r)
    BY <2>1, <2>5, AllMissedType DEF Start, TypeOK
  <2>6. CASE q = r /\ Due(r)
    <3>1. /\ q \in alive /\ beatTimer[q] = 0 /\ beatTimer'[q] = Interval
          /\ missed'[q] = IF missed[q] < AllMissed THEN missed[q] + 1 ELSE missed[q]
      BY <2>1, <2>6 DEF Due, TypeOK
    <3>2. CASE missed[q] >= AllMissed
      BY <2>3, <3>1, <3>2, AllMissedType
    <3>3. CASE missed[q] < AllMissed
      <4>1. (missed[q] + 1) * Interval >= Age(ServiceOf[q])
        BY <1>0, <1>2, <2>2, <2>3, <3>1, <3>3, AllMissedType DEF BeatInv
      <4>2. (missed[q] + 2) * Interval = (missed[q] + 1) * Interval + Interval
        BY <2>3, OneMore
      <4>3. (missed[q] + 1) * Interval \in Nat /\ Interval \in Nat
        BY <2>3, TimesAssumption
      <4>4. (missed'[q] + 1) = missed[q] + 2
        BY <2>3, <3>1, <3>3
      <4>5. QED
        BY <2>2, <3>1, <4>1, <4>2, <4>3, <4>4
    <3>4. QED
      BY <2>3, <3>2, <3>3, AllMissedType
  <2>7. QED
    BY <1>2, <2>4, <2>5, <2>6 DEF Stop, Publish, PublishLost
<1>3. QED
  BY <1>1, <1>2 DEF BeatInv

LEMMA ReceiveStep ==
  ASSUME IInv, NEW r \in Replicas, Receive(r)
  PROVE  CheckInv' /\ BeatInv'
<1> DEFINE s == ServiceOf[r]
<1>1. /\ s \in Services /\ TypeOK
      /\ registry' = [registry EXCEPT ![s] = [lastHeartbeat |-> 0, status |-> "healthy"]]
      /\ checkTimer' = checkTimer /\ beatTimer' = beatTimer /\ alive' = alive
  BY ReplicasAssumption DEF IInv, Receive
<1>2. Age(s)' = 0
  BY <1>1 DEF TypeOK, Age
<1>3. \A t \in Services : t # s => registry'[t] = registry[t]
  BY <1>1 DEF TypeOK
<1>4. CheckInv'
  <2>1. ASSUME NEW t \in Services, Healthy(t)' PROVE Age(t)' + checkTimer <= Timeout + Interval
    <3>1. CASE t = s
      BY <1>1, <1>2, <3>1, TimesAssumption DEF TypeOK
    <3>2. CASE t # s
      BY <1>3, <2>1, <3>2 DEF IInv, CheckInv, Healthy, Age
    <3>3. QED
      BY <3>1, <3>2
  <2>2. QED
    BY <1>1, <2>1 DEF CheckInv
<1>5. BeatInv'
  <2>1. ASSUME NEW q \in alive, registry'[ServiceOf[q]] # None
        PROVE  \/ missed'[q] >= AllMissed
               \/ (missed'[q] + 1) * Interval >= Age(ServiceOf[q])' + beatTimer[q]
    <3>0. q \in Replicas /\ ServiceOf[q] \in Services /\ beatTimer[q] \in 0..Interval
      BY <1>1, ReplicasAssumption DEF TypeOK
    <3>1. CASE ServiceOf[q] = s
      <4>1. missed'[q] = 0
        BY <3>0, <3>1 DEF Receive
      <4>2. Age(ServiceOf[q])' = 0
        BY <1>2, <3>1 DEF Age
      <4>3. QED
        BY <3>0, <4>1, <4>2, TimesAssumption
    <3>2. CASE ServiceOf[q] # s
      <4>1. missed'[q] = missed[q]
        BY <3>0, <3>2 DEF Receive, IInv, TypeOK
      <4>2. QED
        BY <1>3, <2>1, <3>0, <3>2, <4>1 DEF IInv, BeatInv, Age
    <3>3. QED
      BY <3>1, <3>2
  <2>2. QED
    BY <1>1, <2>1 DEF BeatInv
<1>6. QED
  BY <1>4, <1>5

LEMMA CheckStep ==
  ASSUME IInv, Check
  PROVE  CheckInv' /\ BeatInv'
<1>1. /\ TypeOK /\ checkTimer' = Interval
      /\ alive' = alive /\ missed' = missed /\ beatTimer' = beatTimer
  BY DEF IInv, Check
<1>2. CheckInv'
  BY <1>1, EntryAfterCheck, TimesAssumption DEF CheckInv, Healthy
<1>3. BeatInv'
  <2>1. \A r \in alive : ServiceOf[r] \in Services
    BY <1>1, ReplicasAssumption DEF TypeOK
  <2>2. QED
    BY <1>1, <2>1, EntryAfterCheck DEF IInv, BeatInv
<1>4. QED
  BY <1>2, <1>3

LEMMA TickStep ==
  ASSUME IInv, Tick
  PROVE  CheckInv' /\ BeatInv'
<1>1. /\ TypeOK /\ checkTimer' = checkTimer - 1 /\ checkTimer \in Nat
      /\ alive' = alive /\ missed' = missed
  BY TimesAssumption DEF IInv, TypeOK, Tick
<1>2. CheckInv'
  <2>1. ASSUME NEW s \in Services, Healthy(s)'
        PROVE  Age(s)' + checkTimer' <= Timeout + Interval
    <3>1. Healthy(s) /\ Age(s)' \in Nat /\ Age(s) \in Nat /\ Age(s)' <= Age(s) + 1
      BY <1>1, <2>1, EntryAfterTick DEF Healthy
    <3>2. Age(s) + checkTimer <= Timeout + Interval
      BY <3>1 DEF IInv, CheckInv
    <3>3. QED
      BY <1>1, <3>1, <3>2, TimesAssumption
  <2>2. QED
    BY <2>1 DEF CheckInv
<1>3. BeatInv'
  <2>1. ASSUME NEW r \in alive, registry'[ServiceOf[r]] # None, ~(missed[r] >= AllMissed)
        PROVE  (missed[r] + 1) * Interval >= Age(ServiceOf[r])' + beatTimer'[r]
    <3>1. r \in Replicas /\ ServiceOf[r] \in Services
      BY <1>1, ReplicasAssumption DEF TypeOK
    <3>2. /\ registry[ServiceOf[r]] # None
          /\ Age(ServiceOf[r])' \in Nat /\ Age(ServiceOf[r]) \in Nat
          /\ Age(ServiceOf[r])' <= Age(ServiceOf[r]) + 1
      BY <1>1, <2>1, <3>1, EntryAfterTick
    <3>3. (missed[r] + 1) * Interval >= Age(ServiceOf[r]) + beatTimer[r]
      BY <2>1, <3>2 DEF IInv, BeatInv
    <3>4. beatTimer'[r] = beatTimer[r] - 1 /\ beatTimer[r] \in Nat
      BY <1>1, <2>1, <3>1, TimesAssumption DEF Tick, TypeOK
    <3>5. (missed[r] + 1) * Interval \in Int
      BY <1>1, <3>1, AllMissedType, TimesAssumption DEF TypeOK
    <3>6. QED
      BY <3>2, <3>3, <3>4, <3>5
  <2>2. QED
    BY <1>1, <2>1 DEF BeatInv
<1>4. QED
  BY <1>2, <1>3

LEMMA InvStep == IInv /\ [Next]_vars => IInv'
<1> SUFFICES ASSUME IInv, [Next]_vars PROVE CheckInv' /\ BeatInv'
  BY TypeStep DEF IInv
<1>1. CASE Restart
  <2>1. ASSUME NEW s \in Services PROVE registry'[s] = None
    BY <1>1 DEF Restart
  <2>2. alive' = alive /\ \A r \in alive : ServiceOf[r] \in Services
    BY <1>1, ReplicasAssumption DEF Restart, IInv, TypeOK
  <2>3. QED
    BY <2>1, <2>2 DEF CheckInv, BeatInv, Healthy
<1>2. CASE UNCHANGED vars
  BY <1>2 DEF vars, IInv, CheckInv, BeatInv, Healthy, Age
<1>3. QED
  BY <1>1, <1>2, ServiceStep, ReceiveStep, CheckStep, TickStep DEF Next, ReplicaStep

LEMMA SpecInv == Spec => []IInv
BY InitIInv, InvStep, PTL DEF Spec

-----------------------------------------------------------------------------
(* The theorems.                                                           *)

(* Timers, ages and the registry's entries keep their ranges.              *)
THEOREM DiscoveryTypeCorrect == Spec => []TypeOK
<1>1. IInv => TypeOK
  BY DEF IInv
<1>2. QED
  BY <1>1, SpecInv, PTL

(* A name nobody has been heard under for the timeout and one interval of  *)
(* the checker is not shown as healthy, whatever the delays and losses.    *)
THEOREM SilenceIsNoticed == Spec => []SilentIsFlagged
<1>1. IInv => SilentIsFlagged
  <2> SUFFICES ASSUME IInv, NEW s \in Services, Healthy(s)
               PROVE  registry[s].lastHeartbeat <= Timeout + Interval
    BY DEF SilentIsFlagged
  <2>1. Age(s) + checkTimer <= Timeout + Interval
    BY DEF IInv, CheckInv
  <2>2. Age(s) \in Nat /\ checkTimer \in Nat
    BY AgeType, TimesAssumption DEF IInv, TypeOK, Healthy
  <2>3. QED
    BY <2>1, <2>2, TimesAssumption DEF Age
<1>2. QED
  BY <1>1, SpecInv, PTL

(* When the checker marks a name, each of its replicas has published as    *)
(* many heartbeats as the timeout holds since one was received.            *)
THEOREM MarkedHasMissed == Spec => FlaggedHasMissed
<1> DEFINE Step ==
      \A s \in Services :
        (Healthy(s) /\ registry'[s] # None /\ registry'[s].status = "unhealthy")
          => \A r \in Running(s) : missed[r] >= AllMissed
<1>1. IInv /\ [Next]_vars => [Step]_vars
  <2> SUFFICES ASSUME IInv, Next, NEW s \in Services, Healthy(s), registry'[s] # None,
                      registry'[s].status = "unhealthy", NEW r \in Running(s)
               PROVE  missed[r] >= AllMissed
    BY DEF Step
  <2>0. TypeOK /\ r \in alive /\ r \in Replicas /\ ServiceOf[r] = s
    BY DEF IInv, TypeOK, Running
  <2>1. registry'[s] # registry[s]
    BY DEF Healthy
  <2>2. CASE Check
    <3>1. ~Healthy(s)'
      BY DEF Healthy
    <3>2. registry[s] # None
      BY DEF Healthy
    <3>3. Age(s) > Timeout /\ Age(s) \in Nat
      BY <2>0, <2>2, <3>1, <3>2, EntryAfterCheck
    <3>4. missed[r] >= AllMissed \/ (missed[r] + 1) * Interval >= Age(s) + beatTimer[r]
      BY <2>0, <3>2 DEF IInv, BeatInv
    <3>5. missed[r] \in Nat /\ beatTimer[r] \in Nat
      BY <2>0, AllMissedType, TimesAssumption DEF TypeOK
    <3>6. (missed[r] + 1) * Interval \in Int
      BY <3>5, TimesAssumption
    <3>7. QED
      BY <3>3, <3>4, <3>5, <3>6, EnoughMissed, TimesAssumption
  <2>3. CASE Tick
    <3>1. registry'[s].status = registry[s].status
      BY <2>0, <2>3, EntryAfterTick
    <3>2. QED
      BY <3>1 DEF Healthy
  <2>4. CASE Restart
    BY <2>4 DEF Restart
  <2>5. ASSUME NEW q \in Replicas, ReplicaStep(q) PROVE FALSE
    <3>1. Receive(q)
      BY <2>1, <2>5 DEF ReplicaStep, Start, Stop, Publish, PublishLost, Due
    <3>2. registry'[s] = registry[s] \/ registry'[s].status = "healthy"
      BY <2>0, <3>1 DEF Receive, TypeOK
    <3>3. QED
      BY <2>1, <3>2
  <2>6. QED
    BY <2>2, <2>3, <2>4, <2>5 DEF Next
<1>2. QED
  BY <1>1, SpecInv, PTL DEF Spec, FlaggedHasMissed
=============================================================================
