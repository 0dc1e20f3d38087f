------------------------------ MODULE Gateway -------------------------------
(***************************************************************************)
(* A mutation (POST, PUT or PATCH) on its way through the gateway: rate    *)
(* limiter, idempotency store, router, circuit breaker, authentication,    *)
(* proxy.  The middleware share nothing but the response object, whose     *)
(* json and end methods the idempotency layer replaces, and Redis, which   *)
(* every gateway replica uses.  The steps of a request are the stretches   *)
(* between two awaits.                                                     *)
(*                                                                         *)
(* What the replaced methods see depends on who answers.  The gateway's    *)
(* own answers go through res.json, body and all.  A service's answer is   *)
(* piped: its body goes through res.write and is followed by res.end()     *)
(* without an argument, which leaves nothing to store.                     *)
(*                                                                         *)
(* The limiter's and the circuit's answers, and the validity of a token,   *)
(* are left open: other requests decide them.  A request without a hook    *)
(* (DELETE, GET, or no key) is a request with NoKey.                       *)
(***************************************************************************)
EXTENDS Naturals

CONSTANTS
  Slots,        \* requests under way at once, over all replicas
  Keys,         \* well-formed idempotency keys
  NoKey,        \* no such header
  BadKey,       \* a header that is not a UUID
  AuthRoutes,   \* routes with `auth: true`
  OpenRoutes,   \* routes with `auth: false`
  Unrouted,     \* a path no route matches
  Ttl,          \* ticks an entry of the store lives
  RedisFails,   \* whether a command sent to Redis may fail
  None          \* no entry

ASSUME KeysAssumption == NoKey \notin Keys /\ BadKey \notin Keys
ASSUME TtlAssumption == Ttl \in Nat \ {0}
ASSUME NoneAssumption == None \notin [status: Nat, left: Nat]
ASSUME RedisAssumption == RedisFails \in BOOLEAN

VARIABLES
  store,        \* Redis: the response kept under each key
  pc,           \* where each request is
  request,      \* its key and route
  hooked,       \* whether res.json and res.end are replaced
  reply,        \* the status on its way to the store
  said,         \* history: the statuses below 500 a key's requests were answered with
  effects       \* history: how often a service carried out a request of a key (to 2)

vars == <<store, pc, request, hooked, reply, said, effects>>

Routes == AuthRoutes \cup OpenRoutes \cup {Unrouted}
Requests == [key: Keys \cup {NoKey, BadKey}, route: Routes]

(* A service carries the request out, refuses it, or breaks.               *)
ServiceStatuses == {200, 409, 500}
GatewayStatuses == {400, 401, 404, 429, 500, 502, 503}
AllStatuses == GatewayStatuses \cup ServiceStatuses

Entry == [status: AllStatuses, left: 1..Ttl]

NoRequest == [key |-> NoKey, route |-> Unrouted]

KeyOf(s) == request[s].key

Init ==
  /\ store = [k \in Keys |-> None]
  /\ pc = [s \in Slots |-> "idle"]
  /\ request = [s \in Slots |-> NoRequest]
  /\ hooked = [s \in Slots |-> FALSE]
  /\ reply = [s \in Slots |-> 0]
  /\ said = [k \in Keys |-> {}]
  /\ effects = [k \in Keys |-> 0]

-----------------------------------------------------------------------------

(* A request moves on; nothing of one that has ended is kept.              *)
GoTo(s, phase) ==
  /\ pc' = [pc EXCEPT ![s] = phase]
  /\ UNCHANGED <<request, reply>>

End(s) ==
  /\ pc' = [pc EXCEPT ![s] = "idle"]
  /\ request' = [request EXCEPT ![s] = NoRequest]
  /\ hooked' = [hooked EXCEPT ![s] = FALSE]
  /\ reply' = [reply EXCEPT ![s] = 0]

(* Mutant: the status is read when the hook is set, not when the answer    *)
(* ends.                                                                   *)
StoreEarlyStatus(s, status) ==
  /\ pc' = [pc EXCEPT ![s] = "storing"]
  /\ reply' = [reply EXCEPT ![s] = 200]
  /\ UNCHANGED <<request, hooked>>

Store(s, status) ==
  /\ pc' = [pc EXCEPT ![s] = "storing"]
  /\ reply' = [reply EXCEPT ![s] = status]
  /\ UNCHANGED <<request, hooked>>

(* Mutant: a server error is kept as well.                                 *)
KeepAnyStatus(s, status) == hooked[s]

(* responseBody && res.statusCode < 500, for an answer with a body.        *)
Kept(s, status) == hooked[s] /\ status < 500

(* A request of a key is answered, by the gateway or by a service.         *)
Say(s, status) ==
  said' = IF KeyOf(s) \in Keys /\ status < 500
            THEN [said EXCEPT ![KeyOf(s)] = @ \cup {status}] ELSE said

(* The gateway answers by res.json, itself or in its errorHandler.         *)
Answer(s, status) ==
  /\ Say(s, status)
  /\ IF Kept(s, status) THEN Store(s, status) ELSE End(s)
  /\ UNCHANGED <<store, effects>>

(* A service carries out the request, or does not.                         *)
Carry(s, done) ==
  effects' = IF done /\ KeyOf(s) \in Keys /\ effects[KeyOf(s)] < 2
               THEN [effects EXCEPT ![KeyOf(s)] = @ + 1] ELSE effects

-----------------------------------------------------------------------------

Receive(s, r) ==
  /\ pc[s] = "idle"
  /\ pc' = [pc EXCEPT ![s] = "limiter"]
  /\ request' = [request EXCEPT ![s] = r]
  /\ UNCHANGED <<store, hooked, reply, said, effects>>

(* rateLimiter refuses.                                                    *)
Limit(s) == pc[s] = "limiter" /\ Answer(s, 429)

(* rateLimiter lets the request through, or fails open, and                *)
(* idempotencyMiddleware looks at the key.                                 *)
RejectKey(s) ==
  pc[s] = "limiter" /\ KeyOf(s) = BadKey /\ Answer(s, 400)

Admit(s) ==
  /\ pc[s] = "limiter" /\ KeyOf(s) # BadKey
  /\ GoTo(s, IF KeyOf(s) = NoKey THEN "routing" ELSE "lookup")
  /\ UNCHANGED <<store, hooked, said, effects>>

(* Mutant: a hit starts the entry's life again.                            *)
ReplayRenewing(s) ==
  /\ pc[s] = "lookup" /\ store[KeyOf(s)] # None
  /\ End(s)
  /\ store' = [store EXCEPT ![KeyOf(s)].left = Ttl]
  /\ UNCHANGED <<said, effects>>

(* The stored response is sent again; res is not hooked.                   *)
Replay(s) ==
  /\ pc[s] = "lookup" /\ store[KeyOf(s)] # None
  /\ End(s)
  /\ UNCHANGED <<store, said, effects>>

Hook(s) ==
  /\ pc[s] = "lookup" /\ store[KeyOf(s)] = None
  /\ GoTo(s, "routing")
  /\ hooked' = [hooked EXCEPT ![s] = TRUE]
  /\ UNCHANGED <<store, said, effects>>

(* Mutant: the rejected get is not caught.                                 *)
HangWithoutStore(s) ==
  /\ pc[s] = "lookup" /\ RedisFails
  /\ GoTo(s, "hung")
  /\ UNCHANGED <<store, hooked, said, effects>>

(* `Fail open`: the request goes on without the hook.                      *)
PassWithoutStore(s) ==
  /\ pc[s] = "lookup" /\ RedisFails
  /\ GoTo(s, "routing")
  /\ UNCHANGED <<store, hooked, said, effects>>

LookUp(s) == Replay(s) \/ Hook(s) \/ PassWithoutStore(s)

-----------------------------------------------------------------------------
(* The router: the circuit is asked first, then the token is checked.      *)

NotFound(s) ==
  pc[s] = "routing" /\ request[s].route = Unrouted /\ Answer(s, 404)

CircuitOpen(s) ==
  pc[s] = "routing" /\ request[s].route # Unrouted /\ Answer(s, 503)

Unauthorized(s) ==
  pc[s] = "routing" /\ request[s].route \in AuthRoutes /\ Answer(s, 401)

(* errorHandler: an error of any other kind, raised on the way.            *)
InternalError(s) == pc[s] = "routing" /\ Answer(s, 500)

Forward(s) ==
  /\ pc[s] = "routing" /\ request[s].route # Unrouted
  /\ GoTo(s, "forwarded")
  /\ UNCHANGED <<store, hooked, said, effects>>

(* The service's answer is piped: res.end() sees no body.                  *)
ServiceAnswers(s, status) ==
  /\ pc[s] = "forwarded"
  /\ Carry(s, status = 200)
  /\ Say(s, status)
  /\ End(s)
  /\ UNCHANGED store

(* The proxy's error handler: the service is away, or the connection broke *)
(* before an answer began; the request may have been carried out.          *)
ProxyFails(s) ==
  /\ pc[s] = "forwarded"
  /\ \E done \in BOOLEAN : Carry(s, done)
  /\ Say(s, 502)
  /\ IF Kept(s, 502) THEN Store(s, 502) ELSE End(s)
  /\ UNCHANGED store

(* The client closes the connection, or the answer breaks off: res.end is  *)
(* never called.                                                           *)
BreakOff(s) ==
  /\ pc[s] = "forwarded"
  /\ \E done \in BOOLEAN : Carry(s, done)
  /\ End(s)
  /\ UNCHANGED <<store, said>>

-----------------------------------------------------------------------------

(* Mutant: SET without an expiry.                                          *)
SetExForever(s) ==
  /\ pc[s] = "storing"
  /\ store' = [store EXCEPT ![KeyOf(s)] = [status |-> reply[s], left |-> 0]]
  /\ End(s)
  /\ UNCHANGED <<said, effects>>

(* redis.setex, which res.end did not wait for.                            *)
SetEx(s) ==
  /\ pc[s] = "storing"
  /\ store' = [store EXCEPT ![KeyOf(s)] = [status |-> reply[s], left |-> Ttl]]
  /\ End(s)
  /\ UNCHANGED <<said, effects>>

SetExFails(s) ==
  /\ pc[s] = "storing" /\ RedisFails
  /\ End(s)
  /\ UNCHANGED <<store, said, effects>>

(* Redis counts the lives of its entries down and drops those that end.    *)
Tick ==
  /\ \E k \in Keys : store[k] # None
  /\ store' = [k \in Keys |->
       IF store[k] = None \/ store[k].left = 1 THEN None
         ELSE [store[k] EXCEPT !.left = @ - 1]]
  /\ UNCHANGED <<pc, request, hooked, reply, said, effects>>

-----------------------------------------------------------------------------

Step(s) ==
  \/ Limit(s) \/ RejectKey(s) \/ Admit(s)
  \/ LookUp(s)
  \/ NotFound(s) \/ CircuitOpen(s) \/ Unauthorized(s) \/ InternalError(s)
  \/ Forward(s)
  \/ \E status \in ServiceStatuses : ServiceAnswers(s, status)
  \/ ProxyFails(s) \/ BreakOff(s)
  \/ SetEx(s) \/ SetExFails(s)

Next ==
  \/ \E s \in Slots : Step(s) \/ \E r \in Requests : Receive(s, r)
  \/ Tick

Spec == Init /\ [][Next]_vars

(* Every await ends, with an answer or an error, and time passes.          *)
FairSpec ==
  /\ Spec
  /\ \A s \in Slots : WF_vars(Step(s))
  /\ WF_vars(Tick)

-----------------------------------------------------------------------------

Phases == {"idle", "limiter", "lookup", "routing", "forwarded", "storing"}

TypeOK ==
  /\ store \in [Keys -> Entry \cup {None}]
  /\ pc \in [Slots -> Phases]
  /\ request \in [Slots -> Requests]
  /\ hooked \in [Slots -> BOOLEAN]
  /\ reply \in [Slots -> AllStatuses \cup {0}]
  /\ said \in [Keys -> SUBSET AllStatuses]
  /\ effects \in [Keys -> 0..2]

(* A key is replayed only what a request of that very key was answered     *)
(* before, by the gateway or by a service: an entry never holds the answer *)
(* to another key, nor a status that was never sent, however two requests  *)
(* with one key overlap and whenever Redis fails between their steps.      *)
ReplaysOwnAnswers ==
  \A k \in Keys : store[k] # None => store[k].status \in said[k]

(* A retry is never met by an old refusal that was to pass: not by the     *)
(* limiter's, not by an open circuit's, not by a dead service's.           *)
RetriesGetThrough ==
  \A k \in Keys : store[k] # None => store[k].status # 429 /\ store[k].status < 500

(* A key answered 401 for a token that has since been renewed, or 404, is  *)
(* not refused for ever, however often its client retries: retries that    *)
(* find the entry do not prolong it, and requests that found none can      *)
(* write it again only so often.                                           *)
RefusalExpires ==
  \A k \in Keys : (store[k] # None) ~> (store[k] = None)

(* Every request ends, also if Redis fails between its steps.              *)
EveryRequestEnds ==
  \A s \in Slots : (pc[s] # "idle") ~> (pc[s] = "idle")

-----------------------------------------------------------------------------
(* What a comment in the code promises, and the code does not.             *)

(* `This prevents duplicate side effects in distributed systems.'          *)
OneEffectPerKey == \A k \in Keys : effects[k] <= 1
=============================================================================
