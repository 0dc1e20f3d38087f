------------------------- MODULE RateLimiterProofs --------------------------
(***************************************************************************)
(* The token bucket for any limit, window and number of replicas: how far  *)
(* their clocks can drive it below empty, and that Retry-After is enough.  *)
(***************************************************************************)
EXTENDS RateLimiter, TLAPS

(* Products over a sum or difference.                                      *)
LEMMA Distribute ==
  ASSUME NEW a \in Int, NEW b \in Int, NEW c \in Int
  PROVE  /\ (a + b) * c = a * c + b * c
         /\ (a - b) * c = a * c - b * c
         /\ a * c \in Int
OBVIOUS

(* Products of numbers that are not negative keep their order.             *)
LEMMA TimesOrder ==
  ASSUME NEW a \in Int, NEW b \in Int, NEW c \in Nat, a <= b
  PROVE  a * c <= b * c
OBVIOUS

(* Rounding up gives enough.                                               *)
LEMMA CeilDivEnough ==
  ASSUME NEW a \in Nat, NEW b \in Nat \ {0}
  PROVE  CeilDiv(a, b) \in Nat /\ CeilDiv(a, b) * b >= a
BY DEF CeilDiv

(* How far below empty the bucket is seen, by the clock least ahead.       *)
LeadInv ==
  bucket # None => bucket.tokens - bucket.lead * MaxTokens >= -(MaxSkew * MaxTokens)

(* By the time promised a token will be there, by the clock least ahead.   *)
PromiseInv ==
  (bucket # None /\ promise # None)
    => bucket.tokens + (bucket.since + promise - bucket.lead) * MaxTokens >= Token

IInv == TypeOK /\ LeadInv /\ PromiseInv

(* The numbers a script is run with.                                       *)
LEMMA Numbers ==
  /\ MaxTokens \in Nat \ {0} /\ Window \in Nat \ {0} /\ Second \in Nat \ {0}
  /\ MaxSkew \in Nat
  /\ Token \in Nat \ {0} /\ Full \in Nat /\ Full >= Token
  /\ MaxSkew * MaxTokens \in Nat /\ MaxTokens * MaxSkew = MaxSkew * MaxTokens
  /\ MaxTokens * Second \in Nat \ {0}
  /\ \A r \in Replicas : Skew[r] \in 0..MaxSkew
<1>1. /\ MaxTokens \in Nat \ {0} /\ Window \in Nat \ {0} /\ Second \in Nat \ {0}
      /\ MaxSkew \in Nat
      /\ \A r \in Replicas : Skew[r] \in 0..MaxSkew
  BY LimitsAssumption, SkewAssumption
<1>2. Token \in Nat \ {0} /\ Full \in Nat /\ Full >= Token
  BY <1>1, TimesOrder DEF Full, Token
<1>3. QED
  BY <1>1, <1>2

(* None is no bucket and no number.                                        *)
LEMMA Buckets0 ==
  ASSUME NEW tokens \in -(MaxTokens * MaxSkew)..Full,
         NEW lead \in 0..MaxSkew, NEW since \in 0..(Window - 1)
  PROVE  /\ [tokens |-> tokens, lead |-> lead, since |-> since] \in Buckets
         /\ [tokens |-> tokens, lead |-> lead, since |-> since] # None
<1>1. [tokens |-> tokens, lead |-> lead, since |-> since] \in Buckets
  BY DEF Buckets
<1>2. [tokens |-> tokens, lead |-> lead, since |-> since]
        \in [tokens: Int, lead: 0..MaxSkew, since: Nat]
  BY Numbers
<1>3. QED
  BY <1>1, <1>2, NoneAssumption

(* The fields of a bucket.                                                 *)
LEMMA Fields ==
  ASSUME TypeOK, bucket # None
  PROVE  /\ bucket.tokens \in Int /\ bucket.tokens <= Full
         /\ bucket.lead \in 0..MaxSkew
         /\ bucket.since \in 0..(Window - 1)
         /\ bucket = [tokens |-> bucket.tokens, lead |-> bucket.lead,
                      since |-> bucket.since]
BY Numbers DEF TypeOK, Buckets

(* What a replica sees in the bucket.                                      *)
LEMMA RefilledRange ==
  ASSUME IInv, NEW r \in Replicas
  PROVE  /\ Refilled(r) \in Int /\ Refilled(r) <= Full
         /\ Refilled(r) - Skew[r] * MaxTokens >= -(MaxSkew * MaxTokens)
         /\ Refilled(r) < Token =>
              /\ bucket # None
              /\ Refilled(r) = bucket.tokens + Elapsed(r) * MaxTokens
<1>1. Skew[r] \in 0..MaxSkew /\ Skew[r] * MaxTokens <= MaxSkew * MaxTokens
      /\ Skew[r] * MaxTokens \in Int
  BY Numbers, TimesOrder, Distribute
<1>2. CASE bucket = None
  BY <1>1, <1>2, Numbers DEF Refilled
<1>3. CASE bucket # None
  <2> DEFINE seen == bucket.tokens + Elapsed(r) * MaxTokens
             old == bucket.tokens - bucket.lead * MaxTokens
  <2>1. /\ bucket.tokens \in Int /\ bucket.lead \in Nat /\ bucket.since \in Nat
        /\ Elapsed(r) \in Int
    BY <1>1, <1>3, Fields, Numbers DEF IInv, Elapsed
  <2>2. /\ Elapsed(r) * MaxTokens
             = bucket.since * MaxTokens + Skew[r] * MaxTokens - bucket.lead * MaxTokens
        /\ bucket.since * MaxTokens \in Nat
        /\ bucket.lead * MaxTokens \in Int /\ Elapsed(r) * MaxTokens \in Int
    BY <1>1, <2>1, Numbers, Distribute DEF Elapsed
  <2>3. old >= -(MaxSkew * MaxTokens)
    BY <1>3 DEF IInv, LeadInv
  <2>4. seen - Skew[r] * MaxTokens >= -(MaxSkew * MaxTokens) /\ seen \in Int
    <3> HIDE DEF seen, old
    <3>1. seen - Skew[r] * MaxTokens = old + bucket.since * MaxTokens /\ seen \in Int
      BY <1>1, <2>1, <2>2 DEF seen, old
    <3>2. old \in Int
      BY <2>1, <2>2 DEF old
    <3>3. QED
      BY <2>2, <2>3, <3>1, <3>2, Numbers
  <2>5. Refilled(r) = Least(Full, seen)
    BY <1>3 DEF Refilled
  <2> HIDE DEF seen
  <2>6. /\ Refilled(r) \in Int /\ Refilled(r) <= Full
        /\ Refilled(r) = Full \/ Refilled(r) = seen
    BY <2>4, <2>5, Numbers DEF Least
  <2>7. Refilled(r) - Skew[r] * MaxTokens >= -(MaxSkew * MaxTokens)
    BY <1>1, <2>4, <2>6, Numbers
  <2>8. Refilled(r) < Token => Refilled(r) = seen
    BY <2>6, Numbers
  <2>9. QED
    BY <1>3, <2>6, <2>7, <2>8 DEF seen
<1>4. QED
  BY <1>2, <1>3

(* What HMSET writes is a bucket, no further below empty than before.      *)
LEMMA WriteInv ==
  ASSUME IInv, NEW r \in Replicas, NEW tokens \in Int, tokens <= Full,
         tokens - Skew[r] * MaxTokens >= -(MaxSkew * MaxTokens), Write(r, tokens)
  PROVE  /\ bucket' \in Buckets /\ bucket' # None /\ LeadInv'
         /\ bucket'.tokens = tokens /\ bucket'.lead = Skew[r] /\ bucket'.since = 0
<1>1. Skew[r] \in 0..MaxSkew /\ Skew[r] * MaxTokens \in Nat
  BY Numbers, TimesOrder, Distribute
<1>2. tokens \in -(MaxTokens * MaxSkew)..Full
  BY <1>1, Numbers
<1>3. bucket' = [tokens |-> tokens, lead |-> Skew[r], since |-> 0] /\ 0 \in 0..(Window - 1)
  BY Numbers DEF Write
<1>4. bucket' \in Buckets /\ bucket' # None
  BY <1>1, <1>2, <1>3, Buckets0
<1>5. QED
  BY <1>3, <1>4 DEF LeadInv

(* The promise a refusal makes is kept by the bucket as it leaves it, and  *)
(* an earlier promise too.                                                 *)
LEMMA RefusePromise ==
  ASSUME IInv, NEW r \in Replicas, Refuse(r)
  PROVE  /\ promise' \in Nat
         /\ Refilled(r) + (promise' - Skew[r]) * MaxTokens >= Token
<1> DEFINE wait == RetryAfter(r)
           due == wait + MaxSkew
           short == Token - Refilled(r)
<1>1. /\ bucket # None /\ Refilled(r) \in Int /\ Refilled(r) < Token
      /\ Refilled(r) = bucket.tokens + Elapsed(r) * MaxTokens
      /\ Skew[r] \in 0..MaxSkew
  BY RefilledRange, Numbers DEF Refuse
<1>2. wait \in Nat /\ wait * MaxTokens >= short
  <2> DEFINE n == CeilDiv(short, MaxTokens * Second)
  <2>1. short \in Nat
    BY <1>1, Numbers
  <2>2. n \in Nat /\ n * (MaxTokens * Second) >= short
    <3> HIDE DEF short
    <3>1. QED
      BY <2>1, Numbers, CeilDivEnough
  <2>3. wait = n * Second
    BY DEF RetryAfter
  <2> HIDE DEF n, wait, short
  <2>4. n * (MaxTokens * Second) = (n * Second) * MaxTokens /\ n * Second \in Nat
    BY <2>2, Numbers
  <2>5. QED
    BY <2>2, <2>3, <2>4
<1>3. due \in Nat /\ Refilled(r) + (due - Skew[r]) * MaxTokens >= Token
  <2> HIDE DEF wait
  <2>1. due - Skew[r] \in Int /\ wait <= due - Skew[r] /\ due \in Nat
    BY <1>1, <1>2, Numbers
  <2>2. wait * MaxTokens <= (due - Skew[r]) * MaxTokens
        /\ wait * MaxTokens \in Int /\ (due - Skew[r]) * MaxTokens \in Int
    BY <1>2, <2>1, Numbers, TimesOrder, Distribute
  <2> HIDE DEF due
  <2>3. QED
    BY <1>1, <1>2, <2>1, <2>2, Numbers
<1>4. CASE promise = None
  BY <1>3, <1>4 DEF Refuse
<1>5. CASE promise # None
  <2>1. promise \in Nat
    BY <1>5 DEF IInv, TypeOK
  <2>2. Refilled(r) + (promise - Skew[r]) * MaxTokens >= Token
    <3> DEFINE later == bucket.since + promise - bucket.lead
    <3>1. bucket.tokens + later * MaxTokens >= Token
      BY <1>1, <1>5 DEF IInv, PromiseInv
    <3>2. bucket.tokens \in Int /\ bucket.lead \in Nat /\ bucket.since \in Nat
      BY <1>1, Fields, Numbers DEF IInv
    <3>3. later = Elapsed(r) + (promise - Skew[r])
          /\ Elapsed(r) \in Int /\ promise - Skew[r] \in Int
      BY <1>1, <2>1, <3>2, Numbers DEF Elapsed
    <3>4. later * MaxTokens = Elapsed(r) * MaxTokens + (promise - Skew[r]) * MaxTokens
          /\ Elapsed(r) * MaxTokens \in Int /\ (promise - Skew[r]) * MaxTokens \in Int
      <4> HIDE DEF later
      <4>1. QED
        BY <3>3, Numbers, Distribute
    <3> HIDE DEF later
    <3>5. QED
      BY <1>1, <3>1, <3>2, <3>4, Numbers
  <2>3. promise' = promise \/ promise' = due
    BY <1>5 DEF Refuse, Least
  <2>4. QED
    BY <1>3, <2>1, <2>2, <2>3
<1>6. QED
  BY <1>4, <1>5

(* IInv is kept by each of the actions.                                    *)
LEMMA AdmitInv ==
  ASSUME IInv, NEW r \in Replicas, Admit(r)
  PROVE  IInv'
<1>1. /\ Refilled(r) - Token \in Int /\ Refilled(r) - Token <= Full
      /\ (Refilled(r) - Token) - Skew[r] * MaxTokens >= -(MaxSkew * MaxTokens)
  <2>1. Skew[r] * MaxTokens <= MaxSkew * MaxTokens /\ Skew[r] * MaxTokens \in Int
    BY Numbers, TimesOrder, Distribute
  <2>2. QED
    BY <2>1, RefilledRange, Numbers DEF Admit
<1>2. bucket' \in Buckets /\ LeadInv'
  BY <1>1, WriteInv DEF Admit
<1>3. admitted' \in [Spans -> Nat]
  BY Numbers DEF Admit, IInv, TypeOK
<1>4. QED
  BY <1>2, <1>3 DEF Admit, IInv, TypeOK, PromiseInv

LEMMA RefuseInv ==
  ASSUME IInv, NEW r \in Replicas, Refuse(r)
  PROVE  IInv'
<1>1. promise' \in Nat /\ Refilled(r) + (promise' - Skew[r]) * MaxTokens >= Token
  BY RefusePromise
<1>2. /\ bucket' \in Buckets /\ LeadInv'
      /\ bucket'.tokens = Refilled(r) /\ bucket'.lead = Skew[r] /\ bucket'.since = 0
  BY RefilledRange, WriteInv DEF Refuse
<1>3. bucket'.since + promise' - bucket'.lead = promise' - Skew[r]
  BY <1>1, <1>2, Numbers
<1>4. PromiseInv'
  BY <1>1, <1>2, <1>3 DEF PromiseInv, Token
<1>5. QED
  BY <1>1, <1>2, <1>4 DEF Refuse, IInv, TypeOK

(* What Redis' failures let through is a number of units.                  *)
LEMMA ExceedType ==
  ASSUME TypeOK, NEW units \in Nat, Exceed(units)
  PROVE  /\ excess' \in [Spans -> Nat]
         /\ \A t \in Spans : excess'[t] = excess[t] + units
BY DEF Exceed, TypeOK

LEMMA CapNat == Cap \in Nat
BY Numbers DEF Cap

LEMMA FailOpenInv == IInv /\ FailOpen => IInv'
<1> SUFFICES ASSUME IInv, FailOpen PROVE IInv'
  OBVIOUS
<1>1. excess' \in [Spans -> Nat]
  BY Numbers, ExceedType DEF FailOpen, IInv
<1>2. QED
  BY <1>1 DEF FailOpen, IInv, TypeOK, LeadInv, PromiseInv

LEMMA KeyLostInv == IInv /\ KeyLost => IInv'
<1> SUFFICES ASSUME IInv, KeyLost PROVE IInv'
  OBVIOUS
<1>1. excess' \in [Spans -> Nat]
  BY CapNat, ExceedType DEF KeyLost, IInv
<1>2. QED
  BY <1>1 DEF KeyLost, IInv, TypeOK, LeadInv, PromiseInv

LEMMA TickInv == IInv /\ Tick => IInv'
<1> SUFFICES ASSUME IInv, Tick PROVE IInv'
  OBVIOUS
<1>1. admitted' \in [Spans -> Nat] /\ excess' \in [Spans -> Nat]
  <2>1. ASSUME NEW t \in Spans, t # 0
        PROVE  admitted[t - 1] \in Nat /\ excess[t - 1] \in Nat
    <3>1. t - 1 \in Spans
      BY <2>1, Numbers DEF Spans
    <3>2. QED
      BY <3>1 DEF IInv, TypeOK
  <2>2. QED
    BY <2>1 DEF Tick
<1>2. /\ promise' \in Nat \cup {None}
      /\ promise' # None => /\ promise # None /\ promise' >= promise - 1
                            /\ promise \in Nat /\ promise' \in Nat
  BY NoneAssumption DEF Tick, IInv, TypeOK
<1>3. CASE bucket' = None
  <2>1. TypeOK'
    BY <1>1, <1>2, <1>3 DEF TypeOK
  <2>2. LeadInv' /\ PromiseInv'
    BY <1>3 DEF LeadInv, PromiseInv
  <2>3. QED
    BY <2>1, <2>2 DEF IInv
<1>4. CASE bucket' # None
  <2>1. bucket # None /\ bucket.since + 1 # Window
        /\ bucket' = [bucket EXCEPT !.since = @ + 1]
    BY <1>4 DEF Tick
  <2>2. /\ bucket.tokens \in Int /\ bucket.lead \in 0..MaxSkew
        /\ bucket.since + 1 \in 0..(Window - 1) /\ bucket.since \in Nat
    <3>1. TypeOK
      BY DEF IInv
    <3>2. bucket.since \in 0..(Window - 1) /\ bucket.tokens \in Int
          /\ bucket.lead \in 0..MaxSkew
      BY <2>1, <3>1, Fields
    <3>3. QED
      BY <2>1, <3>2, Numbers
  <2>3. /\ bucket' = [tokens |-> bucket.tokens, lead |-> bucket.lead,
                      since |-> bucket.since + 1]
        /\ bucket.tokens \in -(MaxTokens * MaxSkew)..Full
    BY <2>1, Fields DEF IInv, TypeOK, Buckets
  <2>4. bucket' \in Buckets
    BY <2>2, <2>3, Buckets0
  <2>5. LeadInv'
    BY <2>1, <2>3 DEF IInv, LeadInv
  <2>6. PromiseInv'
    <3> SUFFICES ASSUME promise' # None
                 PROVE  bucket'.tokens + (bucket'.since + promise' - bucket'.lead) * MaxTokens
                          >= Token
      BY DEF PromiseInv, Token
    <3> DEFINE before == bucket.since + promise - bucket.lead
               after == bucket.since + 1 + promise' - bucket.lead
    <3>1. bucket.tokens + before * MaxTokens >= Token
      BY <1>2, <2>1 DEF IInv, PromiseInv
    <3>2. before \in Int /\ after \in Int /\ before <= after
      BY <1>2, <2>2, Numbers
    <3>3. before * MaxTokens <= after * MaxTokens
          /\ before * MaxTokens \in Int /\ after * MaxTokens \in Int
      <4> HIDE DEF before, after
      <4>1. QED
        BY <3>2, Numbers, TimesOrder, Distribute
    <3>4. bucket'.tokens = bucket.tokens
          /\ bucket'.since + promise' - bucket'.lead = after
      BY <2>3
    <3> HIDE DEF before, after
    <3>5. QED
      BY <2>2, <3>1, <3>3, <3>4, Numbers
  <2>7. QED
    <3>1. TypeOK'
      BY <1>1, <1>2, <2>4 DEF TypeOK
    <3>2. QED
      BY <2>5, <2>6, <3>1 DEF IInv
<1>5. QED
  BY <1>3, <1>4

(* IInv is an invariant of the bucket.                                     *)
THEOREM LimiterInvariance == Spec => []IInv
<1>1. Init => IInv
  BY Numbers DEF Init, IInv, TypeOK, LeadInv, PromiseInv
<1>2. IInv /\ [Next]_vars => IInv'
  <2> SUFFICES ASSUME IInv, [Next]_vars PROVE IInv'
    OBVIOUS
  <2>1. CASE UNCHANGED vars
    BY <2>1 DEF vars, IInv, TypeOK, LeadInv, PromiseInv
  <2>2. CASE Next
    BY <2>2, AdmitInv, RefuseInv, FailOpenInv, KeyLostInv, TickInv DEF Next, Ask
  <2>3. QED
    BY <2>1, <2>2
<1>3. QED
  BY <1>1, <1>2, PTL DEF Spec

(* Every variable keeps its type; in particular clocks that differ do not  *)
(* drive the bucket further below empty than their difference refills.     *)
THEOREM LimiterTypeCorrect == Spec => []TypeOK
<1>1. IInv => TypeOK
  BY DEF IInv
<1>2. QED
  BY LimiterInvariance, <1>1, PTL

(* Whoever waits as Retry-After says is not refused again.                 *)
THEOREM RetryAfterSuffices == Spec => RetryAfterIsEnough
<1>1. IInv => (promise = 0 => \A r \in Replicas : ~Refuse(r))
  <2> SUFFICES ASSUME IInv, promise = 0, NEW r \in Replicas, Refuse(r) PROVE FALSE
    OBVIOUS
  <2> DEFINE now == bucket.since - bucket.lead
  <2>1. /\ bucket # None /\ Refilled(r) \in Int /\ Refilled(r) < Token
        /\ Refilled(r) = bucket.tokens + Elapsed(r) * MaxTokens
        /\ Skew[r] \in 0..MaxSkew
    BY RefilledRange, Numbers DEF Refuse
  <2>2. bucket.tokens \in Int /\ bucket.lead \in Nat /\ bucket.since \in Nat
    BY <2>1, Fields, Numbers DEF IInv
  <2>3. bucket.since + promise - bucket.lead = now /\ promise # None
    BY <2>2, NoneAssumption
  <2>4. bucket.tokens + now * MaxTokens >= Token
    BY <2>1, <2>3 DEF IInv, PromiseInv
  <2>5. now \in Int /\ Elapsed(r) \in Int /\ now <= Elapsed(r)
    BY <2>1, <2>2, Numbers DEF Elapsed
  <2>6. now * MaxTokens <= Elapsed(r) * MaxTokens
        /\ now * MaxTokens \in Int /\ Elapsed(r) * MaxTokens \in Int
    <3> HIDE DEF now
    <3>1. QED
      BY <2>5, Numbers, TimesOrder, Distribute
  <2> HIDE DEF now
  <2>7. QED
    BY <2>1, <2>2, <2>4, <2>6, Numbers
<1>2. QED
  BY LimiterInvariance, <1>1, PTL DEF RetryAfterIsEnough

-----------------------------------------------------------------------------
(* The bound on a window.                                                  *)

(* What the bucket holds by that clock: what may still be admitted now.    *)
Level ==
  IF bucket = None THEN Cap
    ELSE Least(Cap, bucket.tokens + (bucket.since - bucket.lead + MaxSkew) * MaxTokens)

(* What was admitted since a tick and what is still there were there at    *)
(* that tick, have been refilled since, or are a failure's.  What was      *)
(* admitted since a tick after which the bucket was not written is covered *)
(* by refill and failures alone: a key that expires makes the bucket full. *)
SpentInv ==
  \A t \in Spans :
    /\ admitted[t] * Token + Level <= Cap + excess[t] + t * MaxTokens
    /\ (bucket = None \/ t < bucket.since) =>
         admitted[t] * Token <= excess[t] + t * MaxTokens

(* The level is never below empty, nor above full.                         *)
LEMMA LevelRange ==
  ASSUME IInv
  PROVE  Level \in Nat /\ Level <= Cap /\ Cap \in Nat
<1>1. Cap \in Nat
  BY Numbers DEF Cap
<1>2. CASE bucket = None
  BY <1>1, <1>2 DEF Level
<1>3. CASE bucket # None
  <2> DEFINE span == bucket.since - bucket.lead + MaxSkew
  <2>1. /\ bucket.tokens \in Int /\ bucket.lead \in Nat /\ bucket.since \in Nat
        /\ MaxTokens \in Nat /\ MaxSkew \in Nat
    BY <1>3, Fields, Numbers DEF IInv
  <2>2. /\ span * MaxTokens
             = bucket.since * MaxTokens - bucket.lead * MaxTokens + MaxSkew * MaxTokens
        /\ bucket.since * MaxTokens \in Nat /\ bucket.lead * MaxTokens \in Int
        /\ MaxSkew * MaxTokens \in Nat /\ span * MaxTokens \in Int
    BY <2>1
  <2>3. bucket.tokens - bucket.lead * MaxTokens >= -(MaxSkew * MaxTokens)
    BY <1>3 DEF IInv, LeadInv
  <2>4. Level = Least(Cap, bucket.tokens + span * MaxTokens)
    BY <1>3 DEF Level
  <2> HIDE DEF span
  <2>5. bucket.tokens + span * MaxTokens \in Nat
    BY <2>1, <2>2, <2>3
  <2>6. QED
    BY <1>1, <2>4, <2>5 DEF Least
<1>4. QED
  BY <1>2, <1>3

(* The level a write leaves.                                               *)
LEMMA WriteLevel ==
  ASSUME IInv, NEW r \in Replicas, NEW tokens \in Int, tokens <= Full,
         tokens - Skew[r] * MaxTokens >= -(MaxSkew * MaxTokens), Write(r, tokens)
  PROVE  Level' = tokens + (MaxSkew - Skew[r]) * MaxTokens
<1>1. /\ bucket' # None
      /\ bucket'.tokens = tokens /\ bucket'.lead = Skew[r] /\ bucket'.since = 0
  BY WriteInv
<1>2. /\ Skew[r] \in Nat /\ MaxSkew \in Nat /\ MaxTokens \in Nat
      /\ MaxSkew * MaxTokens \in Nat /\ Full \in Nat
  BY Numbers
<1>3. /\ bucket'.since - bucket'.lead + MaxSkew = MaxSkew - Skew[r]
      /\ (MaxSkew - Skew[r]) * MaxTokens = MaxSkew * MaxTokens - Skew[r] * MaxTokens
      /\ Skew[r] * MaxTokens \in Nat
  BY <1>1, <1>2
<1>4. tokens + (MaxSkew - Skew[r]) * MaxTokens <= Cap
  BY <1>2, <1>3 DEF Cap
<1>5. Level' = Least(Cap, tokens + (MaxSkew - Skew[r]) * MaxTokens)
  BY <1>1, <1>3 DEF Level, Cap, Full, Token
<1>6. Cap \in Int /\ tokens + (MaxSkew - Skew[r]) * MaxTokens \in Int
  BY <1>2, <1>3 DEF Cap
<1>7. QED
  BY <1>4, <1>5, <1>6 DEF Least

(* What a replica sees is no more than the level, less its clock's lag;    *)
(* and it is the level, if that is too little for a request.               *)
LEMMA RefilledLevel ==
  ASSUME IInv, NEW r \in Replicas
  PROVE  /\ Refilled(r) + (MaxSkew - Skew[r]) * MaxTokens <= Level
         /\ Refilled(r) + (MaxSkew - Skew[r]) * MaxTokens \in Int
         /\ Refilled(r) < Token => Refilled(r) + (MaxSkew - Skew[r]) * MaxTokens = Level
<1> DEFINE lag == (MaxSkew - Skew[r]) * MaxTokens
<1>1. /\ Skew[r] \in Nat /\ MaxSkew \in Nat /\ MaxTokens \in Nat
      /\ MaxSkew * MaxTokens \in Nat /\ Full \in Nat /\ Full >= Token /\ Token \in Nat
      /\ Refilled(r) \in Int /\ Refilled(r) <= Full
  BY Numbers, RefilledRange
<1>2. lag = MaxSkew * MaxTokens - Skew[r] * MaxTokens /\ Skew[r] * MaxTokens \in Nat
      /\ lag \in Int
  BY <1>1
<1>3. Refilled(r) + lag <= Cap
  <2> HIDE DEF lag
  <2>1. QED
    BY <1>1, <1>2 DEF Cap
<1>4. CASE bucket = None
  <2>1. Refilled(r) = Full /\ Level = Cap
    BY <1>4 DEF Refilled, Level
  <2> HIDE DEF lag
  <2>2. QED
    BY <1>1, <1>2, <1>3, <2>1
<1>5. CASE bucket # None
  <2> DEFINE seen == bucket.tokens + Elapsed(r) * MaxTokens
             held == bucket.tokens + (bucket.since - bucket.lead + MaxSkew) * MaxTokens
  <2>1. bucket.tokens \in Int /\ bucket.lead \in Nat /\ bucket.since \in Nat
    BY <1>5, Fields, Numbers DEF IInv
  <2>2. seen + lag = held /\ seen \in Int /\ held \in Int
    BY <1>1, <2>1 DEF Elapsed
  <2>3. Refilled(r) = Least(Full, seen) /\ Level = Least(Cap, held)
    BY <1>5 DEF Refilled, Level
  <2>4. Cap = Full + MaxSkew * MaxTokens
    BY DEF Cap
  <2> HIDE DEF lag, seen, held
  <2>5. QED
    BY <1>1, <1>2, <1>3, <2>2, <2>3, <2>4 DEF Least
<1>6. QED
  BY <1>4, <1>5

(* Each of the actions keeps SpentInv.                                     *)
LEMMA AdmitSpent ==
  ASSUME IInv, SpentInv, NEW r \in Replicas, Admit(r)
  PROVE  SpentInv'
<1> DEFINE left == Refilled(r) - Token
           lag == (MaxSkew - Skew[r]) * MaxTokens
<1>1. /\ left \in Int /\ left <= Full
      /\ left - Skew[r] * MaxTokens >= -(MaxSkew * MaxTokens)
  <2>1. Skew[r] * MaxTokens <= MaxSkew * MaxTokens /\ Skew[r] * MaxTokens \in Int
    BY Numbers, TimesOrder, Distribute
  <2>2. QED
    BY <2>1, RefilledRange, Numbers DEF Admit
<1>2. Write(r, left)
  BY DEF Admit
<1>3. Level' = left + lag /\ bucket' # None /\ bucket'.since = 0
  BY <1>1, <1>2, WriteLevel, WriteInv
<1>4. left + lag <= Level - Token /\ left + lag \in Int /\ Level \in Int
  <2>1. Refilled(r) + lag <= Level /\ Refilled(r) + lag \in Int /\ Level \in Int
        /\ Refilled(r) \in Int
    BY RefilledLevel, LevelRange, RefilledRange
  <2>2. Token \in Nat
    BY Numbers
  <2> HIDE DEF lag
  <2>3. lag \in Int
    <3>1. MaxSkew \in Nat /\ MaxTokens \in Nat /\ Skew[r] \in Nat
      BY Numbers
    <3>2. QED
      BY <3>1 DEF lag
  <2>4. QED
    BY <2>1, <2>2, <2>3
<1>5. ASSUME NEW t \in Spans
      PROVE  /\ admitted'[t] * Token + Level' <= Cap + excess'[t] + t * MaxTokens
             /\ ~(t < bucket'.since)
  <2>1. /\ admitted'[t] = admitted[t] + 1 /\ admitted[t] \in Nat /\ t \in Nat
        /\ excess'[t] = excess[t] /\ excess[t] \in Nat
    BY Numbers DEF Admit, IInv, TypeOK, Spans
  <2>2. /\ admitted'[t] * Token = admitted[t] * Token + Token
        /\ admitted[t] * Token \in Nat /\ t * MaxTokens \in Nat
    BY <2>1, Numbers
  <2>3. admitted[t] * Token + Level <= Cap + excess[t] + t * MaxTokens
    BY DEF SpentInv
  <2>4. Cap \in Nat /\ Token \in Nat
    BY LevelRange, Numbers
  <2> HIDE DEF left, lag
  <2>5. QED
    BY <1>3, <1>4, <2>1, <2>2, <2>3, <2>4
<1>6. QED
  BY <1>3, <1>5 DEF SpentInv, Cap, Full, Token

LEMMA RefuseSpent ==
  ASSUME IInv, SpentInv, NEW r \in Replicas, Refuse(r)
  PROVE  SpentInv'
<1>1. /\ Refilled(r) \in Int /\ Refilled(r) <= Full /\ bucket # None
      /\ Refilled(r) - Skew[r] * MaxTokens >= -(MaxSkew * MaxTokens)
  BY RefilledRange DEF Refuse
<1>2. Write(r, Refilled(r)) /\ Refilled(r) < Token /\ UNCHANGED <<admitted, excess>>
  BY DEF Refuse
<1>3. Level' = Level /\ bucket' # None /\ bucket'.since = 0
  BY <1>1, <1>2, WriteLevel, WriteInv, RefilledLevel
<1>4. QED
  BY <1>2, <1>3, Numbers DEF SpentInv, Cap, Full, Token, Spans

LEMMA FailOpenSpent == IInv /\ SpentInv /\ FailOpen => SpentInv'
<1> SUFFICES ASSUME IInv, SpentInv, FailOpen, NEW t \in Spans
             PROVE  /\ admitted'[t] * Token + Level' <= Cap + excess'[t] + t * MaxTokens
                    /\ (bucket' = None \/ t < bucket'.since) =>
                         admitted'[t] * Token <= excess'[t] + t * MaxTokens
  BY DEF SpentInv, Cap, Full, Token, Spans
<1>1. /\ t \in Nat /\ t * MaxTokens \in Nat /\ Cap \in Nat /\ Token \in Nat
      /\ Level \in Nat /\ admitted[t] \in Nat /\ excess[t] \in Nat
  BY Numbers, LevelRange DEF Spans, IInv, TypeOK
<1>2. /\ admitted'[t] = admitted[t] + 1 /\ excess'[t] = excess[t] + Token
      /\ bucket' = bucket
  BY <1>1, ExceedType DEF FailOpen, IInv
<1>3. Level' = Level
  BY <1>2 DEF Level, Cap, Full, Token
<1>4. admitted'[t] * Token = admitted[t] * Token + Token /\ admitted[t] * Token \in Nat
  <2>1. (admitted[t] + 1) * Token = admitted[t] * Token + Token
    BY <1>1
  <2>2. admitted[t] * Token \in Nat
    BY <1>1
  <2>3. QED
    BY <1>2, <2>1, <2>2
<1>5. /\ admitted[t] * Token + Level <= Cap + excess[t] + t * MaxTokens
      /\ (bucket = None \/ t < bucket.since) =>
           admitted[t] * Token <= excess[t] + t * MaxTokens
  BY DEF SpentInv
<1>6. admitted'[t] * Token + Level' <= Cap + excess'[t] + t * MaxTokens
  BY <1>1, <1>2, <1>3, <1>4, <1>5
<1>7. (bucket' = None \/ t < bucket'.since) =>
        admitted'[t] * Token <= excess'[t] + t * MaxTokens
  BY <1>1, <1>2, <1>4, <1>5
<1>8. QED
  BY <1>6, <1>7

LEMMA KeyLostSpent == IInv /\ SpentInv /\ KeyLost => SpentInv'
<1> SUFFICES ASSUME IInv, SpentInv, KeyLost, NEW t \in Spans
             PROVE  /\ admitted'[t] * Token + Level' <= Cap + excess'[t] + t * MaxTokens
                    /\ admitted'[t] * Token <= excess'[t] + t * MaxTokens
  BY DEF SpentInv, Cap, Full, Token, Spans
<1>1. /\ t \in Nat /\ t * MaxTokens \in Nat /\ Cap \in Nat /\ Token \in Nat
      /\ Level \in Nat /\ admitted[t] \in Nat /\ excess[t] \in Nat
      /\ admitted[t] * Token \in Nat
  BY Numbers, LevelRange DEF Spans, IInv, TypeOK
<1>2. /\ admitted'[t] = admitted[t] /\ excess'[t] = excess[t] + Cap
      /\ Level' = Cap
  BY <1>1, ExceedType DEF KeyLost, IInv, Level, Cap, Full, Token
<1>3. admitted[t] * Token + Level <= Cap + excess[t] + t * MaxTokens
  BY DEF SpentInv
<1>4. QED
  BY <1>1, <1>2, <1>3

(* A tick adds a tick's refill to the level of a bucket it leaves.         *)
LEMMA TickLevel ==
  ASSUME IInv, Tick, bucket' # None
  PROVE  /\ bucket # None /\ bucket'.since = bucket.since + 1
         /\ Level' <= Level + MaxTokens /\ Level' <= Cap /\ Level' \in Int
<1> DEFINE held == bucket.tokens + (bucket.since - bucket.lead + MaxSkew) * MaxTokens
<1>1. bucket # None /\ bucket' = [bucket EXCEPT !.since = @ + 1]
  BY DEF Tick
<1>2. /\ bucket.tokens \in Int /\ bucket.lead \in Nat /\ bucket.since \in Nat
      /\ MaxTokens \in Nat /\ MaxSkew \in Nat
      /\ bucket = [tokens |-> bucket.tokens, lead |-> bucket.lead, since |-> bucket.since]
  BY <1>1, Fields, Numbers DEF IInv
<1>3. /\ bucket'.since = bucket.since + 1
      /\ bucket'.tokens = bucket.tokens /\ bucket'.lead = bucket.lead
  BY <1>1, <1>2
<1>4. /\ held \in Int
      /\ bucket'.tokens + (bucket'.since - bucket'.lead + MaxSkew) * MaxTokens
           = held + MaxTokens
  BY <1>2, <1>3
<1>5. Level = Least(Cap, held) /\ Level' = Least(Cap, held + MaxTokens)
  BY <1>1, <1>4 DEF Level, Cap, Full, Token
<1> HIDE DEF held
<1>6. Cap \in Nat
  BY LevelRange
<1>7. QED
  BY <1>1, <1>2, <1>3, <1>4, <1>5, <1>6 DEF Least

(* What refill and failures cover leaves room for any level.               *)
LEMMA Covered ==
  ASSUME NEW spent \in Int, NEW cap \in Nat, NEW more \in Int, spent <= more,
         NEW level \in Int, level <= cap
  PROVE  spent + level <= cap + more
OBVIOUS

(* A bucket that is gone after a tick was written a window ago.            *)
LEMMA TickExpires ==
  ASSUME IInv, Tick, bucket' = None
  PROVE  bucket = None \/ bucket.since + 1 = Window
<1> SUFFICES ASSUME bucket # None, bucket.since + 1 # Window PROVE FALSE
  OBVIOUS
<1>1. bucket' = [bucket EXCEPT !.since = @ + 1]
  BY DEF Tick
<1>2. /\ bucket.tokens \in Int /\ bucket.lead \in 0..MaxSkew /\ bucket.since \in Nat
      /\ bucket = [tokens |-> bucket.tokens, lead |-> bucket.lead, since |-> bucket.since]
  BY Fields, Numbers DEF IInv
<1>3. bucket' \in [tokens: Int, lead: 0..MaxSkew, since: Nat]
  BY <1>1, <1>2
<1>4. QED
  BY <1>3, NoneAssumption

LEMMA TickSpent == IInv /\ SpentInv /\ Tick => SpentInv'
<1> SUFFICES ASSUME IInv, SpentInv, Tick, NEW t \in Spans
             PROVE  /\ admitted'[t] * Token + Level' <= Cap + excess'[t] + t * MaxTokens
                    /\ (bucket' = None \/ t < bucket'.since) =>
                         admitted'[t] * Token <= excess'[t] + t * MaxTokens
  BY DEF SpentInv, Cap, Full, Token, Spans
<1>1. /\ t \in Nat /\ t <= Window - 1 /\ t * MaxTokens \in Nat /\ MaxTokens \in Nat
      /\ Cap \in Nat /\ Token \in Nat /\ Window \in Nat \ {0} /\ Level \in Nat
      /\ 0 * Token = 0
  BY Numbers, LevelRange DEF Spans
<1>2. Level' <= Cap /\ Level' \in Int
  BY <1>1, TickLevel DEF Level, Cap, Full, Token
<1>3. CASE t = 0
  <2>1. admitted'[t] = 0 /\ excess'[t] = 0
    BY <1>3, Numbers DEF Tick, Spans
  <2>2. admitted'[t] * Token = 0 /\ excess'[t] + t * MaxTokens \in Nat
    BY <1>1, <2>1
  <2>3. admitted'[t] * Token <= excess'[t] + t * MaxTokens
    BY <2>2
  <2>4. admitted'[t] * Token + Level' <= Cap + (excess'[t] + t * MaxTokens)
    BY <1>1, <1>2, <2>2, <2>3, Covered
  <2>5. QED
    BY <1>1, <2>1, <2>3, <2>4
<1>4. CASE t # 0
  <2> DEFINE spent == admitted[t - 1] * Token
             refill == (t - 1) * MaxTokens
  <2>1. /\ admitted'[t] = admitted[t - 1] /\ excess'[t] = excess[t - 1]
        /\ t - 1 \in Spans /\ admitted[t - 1] \in Nat /\ excess[t - 1] \in Nat
    BY <1>1, <1>4 DEF Tick, IInv, TypeOK, Spans
  <2>2. /\ spent + Level <= Cap + excess[t - 1] + refill
        /\ (bucket = None \/ t - 1 < bucket.since) => spent <= excess[t - 1] + refill
    BY <2>1 DEF SpentInv
  <2>3. refill + MaxTokens = t * MaxTokens /\ refill \in Nat /\ spent \in Nat
        /\ admitted'[t] * Token = spent
    <3>1. refill + MaxTokens = t * MaxTokens /\ refill \in Nat
      BY <1>1, <2>1 DEF Spans
    <3>2. spent \in Nat /\ admitted'[t] * Token = spent
      BY <1>1, <2>1
    <3>3. QED
      BY <3>1, <3>2
  <2> HIDE DEF spent, refill
  <2>4. CASE bucket' = None
    <3>1. bucket = None \/ bucket.since + 1 = Window
      BY <2>4, TickExpires
    <3>2. bucket # None => t - 1 < bucket.since
      BY <1>1, <3>1, Fields DEF IInv
    <3>3. spent <= excess'[t] + t * MaxTokens
      BY <1>1, <2>1, <2>2, <2>3, <3>2
    <3>4. spent + Level' <= Cap + (excess'[t] + t * MaxTokens)
      BY <1>1, <1>2, <2>1, <2>3, <3>3, Covered
    <3>5. QED
      BY <1>1, <2>1, <2>3, <3>3, <3>4
  <2>5. CASE bucket' # None
    <3>1. /\ bucket # None /\ bucket'.since = bucket.since + 1
          /\ Level' <= Level + MaxTokens
      BY <2>5, TickLevel
    <3>2. bucket.since \in Nat
      BY <3>1, Fields, Numbers DEF IInv
    <3>3. t < bucket'.since => spent <= excess'[t] + t * MaxTokens
      BY <1>1, <2>1, <2>2, <2>3, <3>1, <3>2
    <3>4. spent + Level' <= Cap + excess'[t] + t * MaxTokens
      BY <1>1, <1>2, <2>1, <2>2, <2>3, <3>1
    <3>5. QED
      BY <2>3, <2>5, <3>3, <3>4
  <2>6. QED
    BY <2>4, <2>5
<1>5. QED
  BY <1>3, <1>4

(* No client is let through more often than a full bucket and its refill   *)
(* allow, in any span up to a window, with any number of replicas whose    *)
(* clocks differ, also if the key expires on the way: but for a full       *)
(* bucket each time Redis lost the key, and the requests it never saw.     *)
THEOREM WindowIsBounded == Spec => []WindowBound
<1>1. Init => SpentInv
  <2> SUFFICES ASSUME Init, NEW t \in Spans
               PROVE  /\ admitted[t] * Token + Level <= Cap + excess[t] + t * MaxTokens
                      /\ admitted[t] * Token <= excess[t] + t * MaxTokens
    BY DEF SpentInv
  <2>1. admitted[t] = 0 /\ excess[t] = 0 /\ Level = Cap
    BY DEF Init, Level
  <2>2. 0 * Token = 0 /\ t * MaxTokens \in Nat /\ Cap \in Nat
    BY Numbers, CapNat DEF Spans
  <2>3. QED
    BY <2>1, <2>2
<1>2. IInv /\ SpentInv /\ [Next]_vars => SpentInv'
  <2> SUFFICES ASSUME IInv, SpentInv, [Next]_vars PROVE SpentInv'
    OBVIOUS
  <2>1. CASE UNCHANGED vars
    BY <2>1 DEF vars, SpentInv, Level, Cap, Full, Token, Spans
  <2>2. CASE Next
    BY <2>2, AdmitSpent, RefuseSpent, FailOpenSpent, KeyLostSpent, TickSpent DEF Next, Ask
  <2>3. QED
    BY <2>1, <2>2
<1>3. IInv /\ SpentInv => WindowBound
  <2> SUFFICES ASSUME IInv, SpentInv, NEW t \in Spans
               PROVE  admitted[t] * Token <= Full + excess[t] + (t + MaxSkew) * MaxTokens
    BY DEF WindowBound
  <2>1. admitted[t] * Token + Level <= Cap + excess[t] + t * MaxTokens /\ Level \in Nat
        /\ admitted[t] \in Nat /\ excess[t] \in Nat
    BY LevelRange DEF SpentInv, IInv, TypeOK
  <2>2. /\ admitted[t] * Token \in Nat /\ t * MaxTokens \in Nat
        /\ MaxSkew * MaxTokens \in Nat /\ Full \in Nat
        /\ (t + MaxSkew) * MaxTokens = t * MaxTokens + MaxSkew * MaxTokens
    BY <2>1, Numbers DEF Spans
  <2>3. QED
    BY <2>1, <2>2 DEF Cap
<1>4. QED
  BY LimiterInvariance, <1>1, <1>2, <1>3, PTL DEF Spec
=============================================================================
