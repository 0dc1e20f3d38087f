---------------------------- MODULE CircuitBreaker ----------------------------
(***************************************************************************)
(* The gateway's circuit breaker in front of one downstream service.  Its  *)
(* state is a hash in Redis that every gateway replica shares; each of the *)
(* three operations is one Lua script, which Redis runs atomically.  What  *)
(* is not atomic is a request: its permission is asked for in one script   *)
(* and its result is recorded, by the hook on res.end, in another, with    *)
(* other requests and changes of state in between.                         *)
(*                                                                         *)
(* A result is a failure if the response's status is 500 or above; any     *)
(* other response is a success, also one the gateway's own authentication  *)
(* made.  Times are passed in by the replicas, whose clocks may differ.    *)
(***************************************************************************)
EXTENDS Integers

CONSTANTS
  Slots,                \* requests under way at once, over all replicas
  Skew,                 \* how far each slot's replica's clock is ahead
  MaxSkew,              \* a bound on that
  FailureThreshold,     \* failures before opening circuit
  RecoveryTimeout,      \* ticks before trying half-open
  HalfOpenMaxRequests   \* max requests in half-open state

ASSUME OptionsAssumption ==
  /\ FailureThreshold \in Nat \ {0}
  /\ RecoveryTimeout \in Nat \ {0}
  /\ HalfOpenMaxRequests \in Nat \ {0}
ASSUME SkewAssumption == MaxSkew \in Nat /\ Skew \in [Slots -> 0..MaxSkew]

VARIABLES
  state,                \* the hash: its field `state`, or "absent" without one
  failureCount,
  elapsed,              \* the true time less lastFailureTime (capped, see Tick)
  halfOpenRequests,
  successCount,
  inflight,             \* slots whose request was let through and has no result yet
  probes,               \* history: requests let through in this half-open episode
  probing,              \* history: those of them that have no result yet
  lost,                 \* history: how many of them will never have one
  streak,               \* history: failures recorded in a row (capped)
  age                   \* history: true time since the circuit opened (capped)

counters == <<failureCount, halfOpenRequests, successCount>>
hash == <<state, elapsed, counters>>
history == <<probes, probing, lost, streak, age>>
vars == <<hash, inflight, history>>

States == {"absent", "CLOSED", "OPEN", "HALF_OPEN"}
LongAgo == RecoveryTimeout

Init ==
  /\ state = "absent"
  /\ failureCount = 0 /\ halfOpenRequests = 0 /\ successCount = 0
  /\ elapsed = LongAgo
  /\ inflight = {}
  /\ probes = 0 /\ probing = {} /\ lost = 0 /\ streak = 0 /\ age = 0

-----------------------------------------------------------------------------
(* CAN_REQUEST_SCRIPT, one operator for each way through it.               *)

(* No state yet: the fields are written with their initial values.         *)
CreateKey(s) ==
  /\ state = "absent"
  /\ state' = "CLOSED"
  /\ failureCount' = 0 /\ halfOpenRequests' = 0 /\ successCount' = 0
  /\ elapsed' = LongAgo
  /\ streak' = 0
  /\ inflight' = inflight \cup {s}
  /\ UNCHANGED <<probes, probing, lost, age>>

PassClosed(s) ==
  /\ state = "CLOSED"
  /\ inflight' = inflight \cup {s}
  /\ UNCHANGED <<hash, history>>

(* now - lastFailureTime, by the clock of the replica that asks.           *)
RecoveryDue(s) == elapsed + Skew[s] >= RecoveryTimeout

(* Mutant: the request that starts probing is counted.                    *)
StartProbingCounted(s) ==
  /\ state = "OPEN" /\ RecoveryDue(s)
  /\ state' = "HALF_OPEN"
  /\ halfOpenRequests' = 1 /\ successCount' = 0
  /\ inflight' = inflight \cup {s}
  /\ probes' = 1 /\ probing' = {s} /\ lost' = 0
  /\ UNCHANGED <<failureCount, elapsed, streak, age>>

(* The request that finds the timeout over is let through itself, and is   *)
(* not counted in halfOpenRequests.                                        *)
StartProbing(s) ==
  /\ state = "OPEN" /\ RecoveryDue(s)
  /\ state' = "HALF_OPEN"
  /\ halfOpenRequests' = 0 /\ successCount' = 0
  /\ inflight' = inflight \cup {s}
  /\ probes' = 1 /\ probing' = {s} /\ lost' = 0
  /\ UNCHANGED <<failureCount, elapsed, streak, age>>

(* Mutant: `<=` for `<`.                                                   *)
ProbeOneMore(s) ==
  /\ state = "HALF_OPEN" /\ halfOpenRequests <= HalfOpenMaxRequests
  /\ halfOpenRequests' = halfOpenRequests + 1
  /\ inflight' = inflight \cup {s}
  /\ probes' = probes + 1 /\ probing' = probing \cup {s}
  /\ UNCHANGED <<state, failureCount, successCount, elapsed, lost, streak, age>>

Probe(s) ==
  /\ state = "HALF_OPEN" /\ halfOpenRequests < HalfOpenMaxRequests
  /\ halfOpenRequests' = halfOpenRequests + 1
  /\ inflight' = inflight \cup {s}
  /\ probes' = probes + 1 /\ probing' = probing \cup {s}
  /\ UNCHANGED <<state, failureCount, successCount, elapsed, lost, streak, age>>

(* A refused request is answered 503 and records no result.                *)
Refuse(s) ==
  /\ \/ state = "OPEN" /\ ~RecoveryDue(s)
     \/ state = "HALF_OPEN" /\ halfOpenRequests >= HalfOpenMaxRequests
  /\ UNCHANGED vars

CanRequest(s) ==
  /\ s \notin inflight
  /\ CreateKey(s) \/ PassClosed(s) \/ StartProbing(s) \/ Probe(s) \/ Refuse(s)

(* canRequest's catch: without Redis every request is let through.         *)
FailOpen(s) ==
  /\ s \notin inflight
  /\ inflight' = inflight \cup {s}
  /\ UNCHANGED <<hash, history>>

-----------------------------------------------------------------------------
(* RECORD_SUCCESS_SCRIPT.                                                  *)

(* Mutants: `>` for `>=`; failureCount is not reset.                       *)
CountSuccessLate ==
  IF successCount + 1 > HalfOpenMaxRequests
    THEN /\ state' = "CLOSED"
         /\ failureCount' = 0 /\ successCount' = 0 /\ halfOpenRequests' = 0
    ELSE /\ successCount' = successCount + 1
         /\ UNCHANGED <<state, failureCount, halfOpenRequests>>
CountSuccessKeeping ==
  IF successCount + 1 >= HalfOpenMaxRequests
    THEN /\ state' = "CLOSED"
         /\ successCount' = 0 /\ halfOpenRequests' = 0
         /\ UNCHANGED failureCount
    ELSE /\ successCount' = successCount + 1
         /\ UNCHANGED <<state, failureCount, halfOpenRequests>>

CountSuccess ==
  IF successCount + 1 >= HalfOpenMaxRequests
    THEN /\ state' = "CLOSED"
         /\ failureCount' = 0 /\ successCount' = 0 /\ halfOpenRequests' = 0
    ELSE /\ successCount' = successCount + 1
         /\ UNCHANGED <<state, failureCount, halfOpenRequests>>

RecordSuccess(s) ==
  /\ s \in inflight
  /\ inflight' = inflight \ {s} /\ probing' = probing \ {s}
  /\ streak' = 0
  /\ \/ state = "HALF_OPEN" /\ CountSuccess
     \/ /\ state = "CLOSED"
        /\ failureCount' = 0
        /\ UNCHANGED <<state, halfOpenRequests, successCount>>
     \/ /\ state \in {"absent", "OPEN"}
        /\ UNCHANGED <<state, counters>>
  /\ UNCHANGED <<elapsed, probes, lost, age>>

(* Mutant: `>` for `>=`.                                                   *)
CountFailureLate(s) ==
  LET failures == (IF state = "absent" THEN 0 ELSE failureCount) + 1 IN
  /\ failureCount' = failures
  /\ elapsed' = -Skew[s]
  /\ IF failures > FailureThreshold
       THEN state' = "OPEN" /\ age' = 0
       ELSE UNCHANGED <<state, age>>
  /\ UNCHANGED <<halfOpenRequests, successCount>>

(* RECORD_FAILURE_SCRIPT.  Without a state it counts from 0 and writes no  *)
(* state, unless the circuit opens.                                        *)
CountFailure(s) ==
  LET failures == (IF state = "absent" THEN 0 ELSE failureCount) + 1 IN
  /\ failureCount' = failures
  /\ elapsed' = -Skew[s]
  /\ IF failures >= FailureThreshold
       THEN state' = "OPEN" /\ age' = 0
       ELSE UNCHANGED <<state, age>>
  /\ UNCHANGED <<halfOpenRequests, successCount>>

(* Mutant: lastFailureTime is not set.                                     *)
ReopenUndated(s) ==
  /\ state' = "OPEN"
  /\ age' = 0
  /\ failureCount' = 0 /\ halfOpenRequests' = 0 /\ successCount' = 0
  /\ UNCHANGED elapsed

Reopen(s) ==
  /\ state' = "OPEN"
  /\ elapsed' = -Skew[s]
  /\ age' = 0
  /\ failureCount' = 0 /\ halfOpenRequests' = 0 /\ successCount' = 0

(* Mutant: a failure recorded while open starts the timeout again.         *)
RecordFailureExtending(s) ==
  /\ s \in inflight
  /\ inflight' = inflight \ {s} /\ probing' = probing \ {s}
  /\ streak' = IF streak < FailureThreshold THEN streak + 1 ELSE streak
  /\ \/ state \in {"absent", "CLOSED"} /\ CountFailure(s)
     \/ state = "HALF_OPEN" /\ Reopen(s)
     \/ state = "OPEN" /\ elapsed' = -Skew[s] /\ UNCHANGED <<state, counters, age>>
  /\ UNCHANGED <<probes, lost>>

RecordFailure(s) ==
  /\ s \in inflight
  /\ inflight' = inflight \ {s} /\ probing' = probing \ {s}
  /\ streak' = IF streak < FailureThreshold THEN streak + 1 ELSE streak
  /\ \/ state \in {"absent", "CLOSED"} /\ CountFailure(s)
     \/ state = "HALF_OPEN" /\ Reopen(s)
     \/ state = "OPEN" /\ UNCHANGED <<hash, age>>
  /\ UNCHANGED <<probes, lost>>

(* The result is never recorded: the client left before the response, the  *)
(* replica stopped, or the script threw.  Nothing bounds how often.         *)
LoseResult(s) ==
  /\ s \in inflight
  /\ inflight' = inflight \ {s} /\ probing' = probing \ {s}
  /\ lost' = IF state = "HALF_OPEN" /\ s \in probing THEN lost + 1 ELSE lost
  /\ UNCHANGED <<hash, probes, streak, age>>

-----------------------------------------------------------------------------

(* Redis comes back without the key.                                       *)
KeyLost ==
  /\ state # "absent" \/ failureCount > 0
  /\ state' = "absent"
  /\ failureCount' = 0 /\ halfOpenRequests' = 0 /\ successCount' = 0
  /\ elapsed' = LongAgo
  /\ UNCHANGED <<inflight, history>>

(* Time passes; past the recovery timeout, how much more makes no          *)
(* difference.                                                             *)
Tick ==
  /\ elapsed < RecoveryTimeout
  /\ elapsed' = elapsed + 1
  /\ age' = IF age < RecoveryTimeout THEN age + 1 ELSE age
  /\ UNCHANGED <<state, counters, inflight, probes, probing, lost, streak>>

GetResult(s) == RecordSuccess(s) \/ RecordFailure(s) \/ LoseResult(s)

Next ==
  \/ \E s \in Slots : CanRequest(s) \/ FailOpen(s) \/ GetResult(s)
  \/ KeyLost
  \/ Tick

Spec == Init /\ [][Next]_vars

(* Clients keep calling and Redis keeps answering them, every request let  *)
(* through ends, and time passes.                                          *)
FairSpec ==
  /\ Spec
  /\ SF_vars(\E s \in Slots : CanRequest(s))
  /\ \A s \in Slots : WF_vars(GetResult(s))
  /\ WF_vars(Tick)

-----------------------------------------------------------------------------

TypeOK ==
  /\ state \in States
  /\ failureCount \in 0..FailureThreshold
  /\ elapsed \in -MaxSkew..RecoveryTimeout
  /\ halfOpenRequests \in 0..HalfOpenMaxRequests
  /\ successCount \in 0..(HalfOpenMaxRequests - 1)
  /\ inflight \subseteq Slots
  /\ probes \in 0..(HalfOpenMaxRequests + 1)
  /\ probing \subseteq inflight
  /\ lost \in Nat
  /\ streak \in 0..FailureThreshold
  /\ age \in 0..RecoveryTimeout

(* A closed circuit has seen fewer failures in a row than the threshold,   *)
(* since Redis made the key, however the results of overlapping requests   *)
(* of several replicas are ordered: it never fails to open.                *)
ClosedBelowThreshold == state = "CLOSED" => streak < FailureThreshold

(* And it never opens early: before it opens a first time, or again after  *)
(* it was closed, a full threshold of failures was recorded with no        *)
(* success in between.  What an outage left in failureCount does not       *)
(* count against the service once it has recovered.                        *)
OpensOnlyAfterStreak ==
  [][(state \in {"absent", "CLOSED"} /\ state' = "OPEN")
       => streak' >= FailureThreshold]_vars

(* While half-open, canRequest lets through at most one request more than  *)
(* halfOpenMaxRequests, over all replicas: the one that finds the timeout  *)
(* over is not counted, although `max requests in half-open state` is what *)
(* the option's comment says.                                              *)
ProbesBounded == state = "HALF_OPEN" => probes <= HalfOpenMaxRequests + 1

(* The service is left alone for the recovery timeout after the circuit    *)
(* opens, the first time or again, less what the replicas' clocks differ   *)
(* by.                                                                     *)
NoEarlyProbe ==
  [][(state = "OPEN" /\ state' = "HALF_OPEN")
       => age + MaxSkew >= RecoveryTimeout]_vars

(* An open circuit does not stay open: some request probes the service.    *)
OutageIsProbed == state = "OPEN" ~> state # "OPEN"

(* Half-open ends, one way or the other, unless the results of two of its  *)
(* own requests are never recorded: the request let through beyond the     *)
(* limit makes up for one.  After two the counter is used up, the          *)
(* successes stay too few and no timeout resets either, so that the        *)
(* circuit may refuse every request for ever; nothing but results, or the  *)
(* loss of the key, ends half-open.                                        *)
ProbingEnds ==
  state = "HALF_OPEN" ~> (state # "HALF_OPEN" \/ lost > 1)
=============================================================================
