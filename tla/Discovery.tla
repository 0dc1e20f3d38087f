----------------------------- MODULE Discovery ------------------------------
(***************************************************************************)
(* Service discovery: every replica of a service publishes a heartbeat     *)
(* when it starts and at a fixed interval after that; the gateway keeps,   *)
(* per service name, when it last received one, and a checker marks the    *)
(* names it has not heard of for too long.  Nothing but a heartbeat marks  *)
(* a name healthy again, and nothing removes it.                           *)
(*                                                                         *)
(* Heartbeats are core NATS messages: one published while a side is not    *)
(* connected is lost, and one under way may take up to MaxDelay ticks.     *)
(* Timers fire at the tick they are due.                                   *)
(***************************************************************************)
EXTENDS Naturals

CONSTANTS
  Services,         \* service names
  Replicas,         \* the processes that may run one
  ServiceOf,        \* the name each publishes
  Interval,         \* HEARTBEAT_INTERVAL of the services and of the checker
  Timeout,          \* HEARTBEAT_TIMEOUT
  MaxDelay,         \* a bound on how long a heartbeat takes
  None              \* not registered, nothing under way

ASSUME ReplicasAssumption == ServiceOf \in [Replicas -> Services]
ASSUME TimesAssumption ==
  /\ Interval \in Nat \ {0} /\ Timeout \in Nat /\ MaxDelay \in Nat
  /\ MaxDelay < Interval
ASSUME NoneAssumption ==
  None \notin Nat \cup [lastHeartbeat: Nat, status: {"healthy", "unhealthy"}]

VARIABLES
  alive,            \* replicas that run
  beatTimer,        \* ticks until each publishes again
  onWay,            \* ticks each replica's last heartbeat is under way, or None
  registry,         \* the gateway's map; lastHeartbeat is the age, see Tick
  checkTimer,       \* ticks until the checker runs
  missed            \* history: heartbeats each replica has published since its
                    \* name was last received; all of them for one that starts

vars == <<alive, beatTimer, onWay, registry, checkTimer, missed>>

Old == Timeout + Interval + 1       \* ages above this are not told apart
AllMissed == Timeout \div Interval  \* heartbeats due within the timeout

Instance == [lastHeartbeat: 0..Old, status: {"healthy", "unhealthy"}]

Running(s) == {r \in alive : ServiceOf[r] = s}

Init ==
  /\ alive = {}
  /\ beatTimer = [r \in Replicas |-> 0]
  /\ onWay = [r \in Replicas |-> None]
  /\ registry = [s \in Services |-> None]
  /\ checkTimer = Interval
  /\ missed = [r \in Replicas |-> 0]

-----------------------------------------------------------------------------
(* The services.                                                           *)

(* A heartbeat is on its way; or it is not, because one side is not        *)
(* connected: nothing is published, or NATS has nobody to give it to.      *)
Send(r) == onWay' = [onWay EXCEPT ![r] = 0]
Lose == UNCHANGED onWay

(* startHeartbeat: one at once, the next when the interval is over.        *)
Start(r) ==
  /\ r \notin alive /\ onWay[r] = None
  /\ alive' = alive \cup {r}
  /\ beatTimer' = [beatTimer EXCEPT ![r] = Interval]
  /\ missed' = [missed EXCEPT ![r] = AllMissed]
  /\ Send(r) \/ Lose
  /\ UNCHANGED <<registry, checkTimer>>

(* stopHeartbeat, or the process dies; what it sent is still delivered.    *)
Stop(r) ==
  /\ r \in alive
  /\ alive' = alive \ {r}
  /\ beatTimer' = [beatTimer EXCEPT ![r] = 0]
  /\ missed' = [missed EXCEPT ![r] = 0]
  /\ UNCHANGED <<onWay, registry, checkTimer>>

Due(r) ==
  /\ r \in alive /\ beatTimer[r] = 0 /\ onWay[r] = None
  /\ beatTimer' = [beatTimer EXCEPT ![r] = Interval]
  /\ missed' = [missed EXCEPT ![r] = IF @ < AllMissed THEN @ + 1 ELSE @]
  /\ UNCHANGED <<alive, registry, checkTimer>>

Publish(r) == Due(r) /\ Send(r)
PublishLost(r) == Due(r) /\ Lose

-----------------------------------------------------------------------------
(* The gateway.                                                            *)

(* Mutants: the status is left to the checker; the status of a name known  *)
(* before is kept.                                                         *)
ReceiveWithoutStatus(r) ==
  LET s == ServiceOf[r] IN
  /\ onWay[r] # None
  /\ onWay' = [onWay EXCEPT ![r] = None]
  /\ registry' = [registry EXCEPT ![s] = [lastHeartbeat |-> 0, status |-> None]]
  /\ missed' = [q \in Replicas |-> IF ServiceOf[q] = s THEN 0 ELSE missed[q]]
  /\ UNCHANGED <<alive, beatTimer, checkTimer>>
ReceiveKeepingStatus(r) ==
  LET s == ServiceOf[r] IN
  /\ onWay[r] # None
  /\ onWay' = [onWay EXCEPT ![r] = None]
  /\ registry' = [registry EXCEPT ![s] =
       IF @ = None THEN [lastHeartbeat |-> 0, status |-> "healthy"]
         ELSE [@ EXCEPT !.lastHeartbeat = 0]]
  /\ missed' = [q \in Replicas |-> IF ServiceOf[q] = s THEN 0 ELSE missed[q]]
  /\ UNCHANGED <<alive, beatTimer, checkTimer>>

(* The subscription's loop registers the name, or registers it again.      *)
Receive(r) ==
  LET s == ServiceOf[r] IN
  /\ onWay[r] # None
  /\ onWay' = [onWay EXCEPT ![r] = None]
  /\ registry' = [registry EXCEPT ![s] = [lastHeartbeat |-> 0, status |-> "healthy"]]
  /\ missed' = [q \in Replicas |-> IF ServiceOf[q] = s THEN 0 ELSE missed[q]]
  /\ UNCHANGED <<alive, beatTimer, checkTimer>>

(* Mutants: an interval early; an interval late; the timeout in other      *)
(* units than the age.                                                     *)
StaleEarly(s) ==
  registry[s] # None /\ registry[s].lastHeartbeat + Interval > Timeout
StaleLate(s) ==
  registry[s] # None /\ registry[s].lastHeartbeat > Timeout + Interval
StaleUnits(s) ==
  registry[s] # None /\ registry[s].lastHeartbeat > 1000 * Timeout

(* now - lastHeartbeat > HEARTBEAT_TIMEOUT.                                *)
Stale(s) == registry[s] # None /\ registry[s].lastHeartbeat > Timeout

Check ==
  /\ checkTimer = 0
  /\ checkTimer' = Interval
  /\ registry' = [s \in Services |->
       IF Stale(s) THEN [registry[s] EXCEPT !.status = "unhealthy"] ELSE registry[s]]
  /\ UNCHANGED <<alive, beatTimer, onWay, missed>>

(* The gateway starts again with an empty map.                             *)
Restart ==
  /\ \E s \in Services : registry[s] # None
  /\ registry' = [s \in Services |-> None]
  /\ checkTimer' = Interval
  /\ UNCHANGED <<alive, beatTimer, onWay, missed>>

-----------------------------------------------------------------------------

Older(age) == IF age < Old THEN age + 1 ELSE age

(* Time passes when nothing is due.                                        *)
Tick ==
  /\ \A r \in alive : beatTimer[r] > 0
  /\ \A r \in Replicas : onWay[r] # MaxDelay
  /\ checkTimer > 0
  /\ beatTimer' = [r \in Replicas |-> IF r \in alive THEN beatTimer[r] - 1 ELSE 0]
  /\ onWay' = [r \in Replicas |-> IF onWay[r] = None THEN None ELSE onWay[r] + 1]
  /\ checkTimer' = checkTimer - 1
  /\ registry' = [s \in Services |->
       IF registry[s] = None THEN None
         ELSE [registry[s] EXCEPT !.lastHeartbeat = Older(@)]]
  /\ UNCHANGED <<alive, missed>>

ReplicaStep(r) == Start(r) \/ Stop(r) \/ Publish(r) \/ PublishLost(r) \/ Receive(r)

Next == (\E r \in Replicas : ReplicaStep(r)) \/ Check \/ Restart \/ Tick

Spec == Init /\ [][Next]_vars

(* Time passes, timers fire, and of heartbeats sent for ever not all are   *)
(* lost.                                                                   *)
FairSpec ==
  /\ Spec
  /\ SF_vars(Tick) /\ WF_vars(Check)
  /\ \A r \in Replicas :
       /\ WF_vars(Publish(r) \/ PublishLost(r)) /\ SF_vars(Publish(r))
       /\ WF_vars(Receive(r))

-----------------------------------------------------------------------------

TypeOK ==
  /\ alive \subseteq Replicas
  /\ beatTimer \in [Replicas -> 0..Interval]
  /\ onWay \in [Replicas -> 0..MaxDelay \cup {None}]
  /\ registry \in [Services -> Instance \cup {None}]
  /\ checkTimer \in 0..Interval
  /\ missed \in [Replicas -> 0..AllMissed]

Healthy(s) == registry[s] # None /\ registry[s].status = "healthy"

(* A name nobody has been heard under for the timeout and one interval of  *)
(* the checker is not shown as healthy.                                    *)
SilentIsFlagged ==
  \A s \in Services : Healthy(s) => registry[s].lastHeartbeat <= Timeout + Interval

(* `mark unhealthy after 3 missed beats': when a name is marked, every one *)
(* of its replicas has published that many heartbeats since the last that  *)
(* was received, or has just started; a late heartbeat or two are not      *)
(* enough.                                                                 *)
FlaggedHasMissed ==
  [][\A s \in Services :
       (Healthy(s) /\ registry'[s] # None /\ registry'[s].status = "unhealthy")
         => \A r \in Running(s) : missed[r] >= AllMissed]_vars

(* A service that has stopped is marked in the end, unless it starts again *)
(* or the gateway does.                                                    *)
DeadIsFlagged ==
  \A s \in Services :
    (Healthy(s) /\ Running(s) = {}) ~> (~Healthy(s) \/ Running(s) # {})

(* While a replica runs its service is shown as healthy in the end, also   *)
(* after it was marked, or the gateway has forgotten it.                   *)
RunningIsHealthy ==
  \A r \in Replicas : r \in alive ~> (Healthy(ServiceOf[r]) \/ r \notin alive)
=============================================================================
