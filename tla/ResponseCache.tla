--------------------------- MODULE ResponseCache ----------------------------
(***************************************************************************)
(* The gateway's response cache in front of the proxy: a GET is looked up  *)
(* in Redis, and after a miss res.json is replaced by a function that also *)
(* fills the cache; after a mutation's answer is finished, the entries of  *)
(* the resource it names are listed and deleted.                           *)
(*                                                                         *)
(* res.json is called by the gateway's own error answers.  The answer of a *)
(* service is piped to the response by the proxy and passes res.write and  *)
(* res.end only, so what a hit would send can never have been filled in.   *)
(***************************************************************************)
EXTENDS Naturals

CONSTANTS
  Slots,        \* requests under way at once, over all replicas
  Paths,        \* paths with their query, under /api/v1/<resource>
  Matches       \* [Paths -> SUBSET Paths]: the paths whose keys contain a
                \* path's resource

VARIABLES
  cached,       \* Redis: the paths that have an entry
  pc,           \* where each request is
  path,         \* the path it is for
  intercepted,  \* whether its res.json fills the cache
  statusCode,   \* of its answer, 0 before
  keys          \* invalidateCache: the entries KEYS returned

vars == <<cached, pc, path, intercepted, statusCode, keys>>

ServiceStatuses == {200, 404, 500}
GatewayStatuses == {401, 502, 503}

Successful(status) == status \in 200..299

Init ==
  /\ cached = {}
  /\ pc = [s \in Slots |-> "idle"]
  /\ path \in [Slots -> Paths]
  /\ intercepted = [s \in Slots |-> FALSE]
  /\ statusCode = [s \in Slots |-> 0]
  /\ keys = [s \in Slots |-> {}]

GoTo(s, phase) == pc' = [pc EXCEPT ![s] = phase]

(* A GET arrives: it is looked up, unless its Cache-Control asks for fresh *)
(* data.  A mutation is not.                                               *)
Receive(s, p) ==
  /\ pc[s] = "idle"
  /\ path' = [path EXCEPT ![s] = p]
  /\ intercepted' = [intercepted EXCEPT ![s] = FALSE]
  /\ statusCode' = [statusCode EXCEPT ![s] = 0]
  /\ \E phase \in {"lookup", "getting", "mutating"} : GoTo(s, phase)
  /\ UNCHANGED <<cached, keys>>

Hit(s) ==
  /\ pc[s] = "lookup" /\ path[s] \in cached
  /\ GoTo(s, "idle")
  /\ UNCHANGED <<cached, path, intercepted, statusCode, keys>>

Miss(s) ==
  /\ pc[s] = "lookup" /\ path[s] \notin cached
  /\ GoTo(s, "getting")
  /\ intercepted' = [intercepted EXCEPT ![s] = TRUE]
  /\ UNCHANGED <<cached, path, statusCode, keys>>

(* Redis is down: the request goes on as if there were no cache.           *)
FailOpen(s) ==
  /\ pc[s] = "lookup"
  /\ GoTo(s, "getting")
  /\ UNCHANGED <<cached, path, intercepted, statusCode, keys>>

(* The gateway answers by res.json.                                        *)
GatewayAnswers(s, status) ==
  /\ pc[s] \in {"getting", "mutating"}
  /\ statusCode' = [statusCode EXCEPT ![s] = status]
  /\ GoTo(s, IF intercepted[s] /\ Successful(status) THEN "filling" ELSE "idle")
  /\ UNCHANGED <<cached, path, intercepted, keys>>

(* The answer of the service is piped; `finish` follows a mutation's.      *)
ServiceAnswers(s, status) ==
  /\ pc[s] \in {"getting", "mutating"}
  /\ statusCode' = [statusCode EXCEPT ![s] = status]
  /\ GoTo(s, IF pc[s] = "mutating" /\ Successful(status) THEN "listing" ELSE "idle")
  /\ UNCHANGED <<cached, path, intercepted, keys>>

(* setex, which nobody waits for; it may fail.                             *)
Fill(s) ==
  /\ pc[s] = "filling"
  /\ GoTo(s, "idle")
  /\ \/ cached' = cached \cup {path[s]}
     \/ UNCHANGED cached
  /\ UNCHANGED <<path, intercepted, statusCode, keys>>

(* invalidateCache: KEYS, and DEL of what it returned; either may fail.    *)
ListKeys(s) ==
  /\ pc[s] = "listing"
  /\ keys' = [keys EXCEPT ![s] = cached \cap Matches[path[s]]]
  /\ GoTo(s, IF keys'[s] = {} THEN "idle" ELSE "deleting")
  /\ UNCHANGED <<cached, path, intercepted, statusCode>>

DeleteKeys(s) ==
  /\ pc[s] = "deleting"
  /\ cached' = cached \ keys[s]
  /\ GoTo(s, "idle")
  /\ UNCHANGED <<path, intercepted, statusCode, keys>>

InvalidationFails(s) ==
  /\ pc[s] \in {"listing", "deleting"}
  /\ GoTo(s, "idle")
  /\ UNCHANGED <<cached, path, intercepted, statusCode, keys>>

(* The TTL of an entry ends.                                               *)
Expire(p) ==
  /\ p \in cached
  /\ cached' = cached \ {p}
  /\ UNCHANGED <<pc, path, intercepted, statusCode, keys>>

Next ==
  \/ \E s \in Slots :
       \/ \E p \in Paths : Receive(s, p)
       \/ Hit(s) \/ Miss(s) \/ FailOpen(s)
       \/ \E status \in GatewayStatuses : GatewayAnswers(s, status)
       \/ \E status \in ServiceStatuses : ServiceAnswers(s, status)
       \/ Fill(s) \/ ListKeys(s) \/ DeleteKeys(s) \/ InvalidationFails(s)
  \/ \E p \in Paths : Expire(p)

Spec == Init /\ [][Next]_vars

-----------------------------------------------------------------------------
(* What a comment in the code promises, and the code does not.             *)

(* `Caches the full JSON response in Redis with TTL.  Only caches          *)
(* successful (2xx) GET responses': a successful answer after a miss is on *)
(* its way to the cache when it has been given.                            *)
MissFills ==
  [][\A s \in Slots :
       (intercepted[s] /\ statusCode[s] = 0 /\ Successful(statusCode'[s]))
         => pc'[s] = "filling"]_vars
=============================================================================
