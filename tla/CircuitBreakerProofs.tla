------------------------ MODULE CircuitBreakerProofs -------------------------
(***************************************************************************)
(* Proofs about CircuitBreaker, for every threshold, timeout and probe     *)
(* limit, any number of overlapping requests, and any skew of the clocks.  *)
(***************************************************************************)
EXTENDS CircuitBreaker, TLAPS

(* While a closed circuit counts, it counts exactly the failures in a row; *)
(* while half-open, every probe but the first is counted; while open,      *)
(* lastFailureTime is not before the opening.                              *)
CountsAgree ==
  /\ state \in {"absent", "CLOSED"} => failureCount < FailureThreshold
  /\ state = "CLOSED" => failureCount = streak
  /\ state = "HALF_OPEN" => probes = halfOpenRequests + 1
  /\ state = "OPEN" => elapsed <= age

IInv == TypeOK /\ CountsAgree

LEMMA SkewFacts ==
  ASSUME NEW s \in Slots
  PROVE  Skew[s] \in Nat /\ Skew[s] <= MaxSkew /\ MaxSkew \in Nat
BY SkewAssumption

LEMMA InitIInv == Init => IInv
BY OptionsAssumption, SkewAssumption
   DEF Init, IInv, TypeOK, CountsAgree, States, LongAgo

(* Asking for permission.                                                  *)
LEMMA CanRequestStep ==
  ASSUME IInv, NEW s \in Slots, CanRequest(s) \/ FailOpen(s)
  PROVE  IInv'
<1> USE OptionsAssumption, SkewAssumption DEF IInv, TypeOK, CountsAgree, States
<1>1. CASE CreateKey(s)
  BY <1>1 DEF CreateKey, LongAgo
<1>2. CASE PassClosed(s) \/ FailOpen(s)
  BY <1>2 DEF PassClosed, FailOpen, hash, counters, history
<1>3. CASE StartProbing(s)
  BY <1>3 DEF StartProbing
<1>4. CASE Probe(s)
  BY <1>4 DEF Probe
<1>5. CASE Refuse(s)
  BY <1>5 DEF Refuse, vars, hash, counters, history
<1>6. QED
  BY <1>1, <1>2, <1>3, <1>4, <1>5 DEF CanRequest

(* Recording a result, or losing it.                                       *)
LEMMA GetResultStep ==
  ASSUME IInv, NEW s \in Slots, GetResult(s)
  PROVE  IInv'
<1> USE OptionsAssumption, SkewFacts DEF IInv, TypeOK, CountsAgree, States
<1>1. CASE RecordSuccess(s)
  <2>1. CASE state = "HALF_OPEN" /\ CountSuccess
    BY <1>1, <2>1 DEF RecordSuccess, CountSuccess
  <2>2. CASE state # "HALF_OPEN"
    BY <1>1, <2>2 DEF RecordSuccess, counters
  <2>3. QED
    BY <1>1, <2>1, <2>2 DEF RecordSuccess
<1>2. CASE RecordFailure(s)
  <2>1. CASE state \in {"absent", "CLOSED"} /\ CountFailure(s)
    BY <1>2, <2>1 DEF RecordFailure, CountFailure
  <2>2. CASE state = "HALF_OPEN" /\ Reopen(s)
    BY <1>2, <2>2 DEF RecordFailure, Reopen
  <2>3. CASE state = "OPEN"
    BY <1>2, <2>3 DEF RecordFailure, hash, counters
  <2>4. QED
    BY <1>2, <2>1, <2>2, <2>3 DEF RecordFailure
<1>3. CASE LoseResult(s)
  BY <1>3 DEF LoseResult, hash, counters
<1>4. QED
  BY <1>1, <1>2, <1>3 DEF GetResult

LEMMA IInvStep == IInv /\ [Next]_vars => IInv'
<1> SUFFICES ASSUME IInv, [Next]_vars PROVE IInv'
  OBVIOUS
<1> USE OptionsAssumption, SkewAssumption
<1>1. CASE KeyLost
  BY <1>1 DEF KeyLost, LongAgo, history, IInv, TypeOK, CountsAgree, States
<1>2. CASE Tick
  BY <1>2 DEF Tick, counters, IInv, TypeOK, CountsAgree, States
<1>3. CASE UNCHANGED vars
  BY <1>3 DEF vars, hash, counters, history, IInv, TypeOK, CountsAgree
<1>4. QED
  BY <1>1, <1>2, <1>3, CanRequestStep, GetResultStep DEF Next

(* The counters of the hash agree with what really happened.               *)
THEOREM BreakerInvariance == Spec => []IInv
<1>1. QED
  BY InitIInv, IInvStep, PTL DEF Spec

(* No counter leaves its range: halfOpenRequests never passes its limit,   *)
(* and failureCount never passes the threshold.                            *)
THEOREM BreakerTypeCorrect == Spec => []TypeOK
<1>1. IInv => TypeOK
  BY DEF IInv
<1>2. QED
  BY <1>1, BreakerInvariance, PTL

(* A threshold of failures in a row never leaves the circuit closed.       *)
THEOREM BreakerTrips == Spec => []ClosedBelowThreshold
<1>1. IInv => ClosedBelowThreshold
  BY DEF IInv, CountsAgree, ClosedBelowThreshold
<1>2. QED
  BY <1>1, BreakerInvariance, PTL

(* At most one probe more than the limit is let through.                   *)
THEOREM BreakerLimitsProbes == Spec => []ProbesBounded
<1>1. IInv => ProbesBounded
  BY OptionsAssumption DEF IInv, TypeOK, ProbesBounded
<1>2. QED
  BY <1>1, BreakerInvariance, PTL

(* The circuit opens only after a threshold of failures in a row.          *)
THEOREM BreakerOpensLate == Spec => OpensOnlyAfterStreak
<1>1. IInv /\ [Next]_vars =>
        [(state \in {"absent", "CLOSED"} /\ state' = "OPEN") => streak' >= FailureThreshold]_vars
  <2> SUFFICES ASSUME IInv, Next, state \in {"absent", "CLOSED"}, state' = "OPEN"
               PROVE  streak' >= FailureThreshold
    OBVIOUS
  <2>1. PICK s \in Slots : RecordFailure(s)
    BY DEF Next, CanRequest, CreateKey, PassClosed, StartProbing, Probe, Refuse, FailOpen,
           GetResult, RecordSuccess, CountSuccess, LoseResult, KeyLost, Tick, vars, hash, history
  <2>2. failureCount' >= FailureThreshold /\ failureCount' = (IF state = "absent" THEN 0 ELSE failureCount) + 1
    BY <2>1 DEF RecordFailure, CountFailure
  <2>3. QED
    BY <2>1, <2>2, OptionsAssumption DEF RecordFailure, IInv, TypeOK, CountsAgree
<1>2. QED
  BY <1>1, BreakerInvariance, PTL DEF Spec, OpensOnlyAfterStreak

(* No probe reaches the service before the recovery timeout, but for what  *)
(* the clocks differ by.                                                   *)
THEOREM BreakerWaits == Spec => NoEarlyProbe
<1>1. IInv /\ [Next]_vars =>
        [(state = "OPEN" /\ state' = "HALF_OPEN") => age + MaxSkew >= RecoveryTimeout]_vars
  <2> SUFFICES ASSUME IInv, Next, state = "OPEN", state' = "HALF_OPEN"
               PROVE  age + MaxSkew >= RecoveryTimeout
    OBVIOUS
  <2>1. PICK s \in Slots : StartProbing(s)
    BY DEF Next, CanRequest, CreateKey, PassClosed, Probe, Refuse, FailOpen,
           GetResult, RecordSuccess, RecordFailure, LoseResult, KeyLost, Tick, vars, hash, history
  <2>2. elapsed + Skew[s] >= RecoveryTimeout /\ elapsed <= age
    BY <2>1 DEF StartProbing, RecoveryDue, IInv, CountsAgree
  <2>3. QED
    BY <2>2, SkewFacts, OptionsAssumption DEF IInv, TypeOK
<1>2. QED
  BY <1>1, BreakerInvariance, PTL DEF Spec, NoEarlyProbe
=============================================================================
