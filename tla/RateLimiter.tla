---------------------------- MODULE RateLimiter -----------------------------
(***************************************************************************)
(* The gateway's token bucket for one client: a hash in Redis, shared by   *)
(* the replicas, that one Lua script reads, refills, takes a token from    *)
(* and writes.  The time is the clock of the replica that asks; the key's  *)
(* expiry is counted by Redis.                                             *)
(*                                                                         *)
(* Tokens are counted in units of which one token is Window: then a tick   *)
(* of a clock refills MaxTokens units and a full bucket is a whole number  *)
(* of them, as refill_rate = max_tokens / window_ms has it.  The rounding  *)
(* of the script's floating-point numbers is left out.                     *)
(***************************************************************************)
EXTENDS Integers

CONSTANTS
  Replicas,     \* the gateway's replicas
  Skew,         \* how far each replica's clock is ahead
  MaxSkew,      \* a bound on that
  MaxTokens,    \* max_tokens: requests a full bucket admits
  Window,       \* window_ms, in ticks
  Second,       \* ticks per second, the unit of Retry-After
  MaxExcess,    \* a bound on excess over a window
  None          \* no such key, no such promise

ASSUME SkewAssumption == MaxSkew \in Nat /\ Skew \in [Replicas -> 0..MaxSkew]
ASSUME LimitsAssumption ==
  MaxTokens \in Nat \ {0} /\ Window \in Nat \ {0} /\ Second \in Nat \ {0}
ASSUME ExcessAssumption == MaxExcess \in Nat
ASSUME NoneAssumption ==
  None \notin Nat \cup [tokens: Int, lead: 0..MaxSkew, since: Nat]

VARIABLES
  bucket,       \* the hash: its tokens, how far ahead the clock last_refill was
                \* read from is, and the ticks since then
  admitted,     \* history: admitted[t] counts the requests admitted since t ticks
                \* ago, for each t in a window
  excess,       \* history: excess[t] is what Redis' failures since t ticks ago
                \* may have let through, in units
  promise       \* history: the ticks until a client that was refused, and has
                \* not been overtaken, has waited as Retry-After told it

vars == <<bucket, admitted, excess, promise>>

Token == Window
Full == MaxTokens * Token

(* A full bucket, by the clock that is most ahead.                         *)
Cap == Full + MaxSkew * MaxTokens

Spans == 0..(Window - 1)

Buckets == [tokens: (-(MaxTokens * MaxSkew))..Full, lead: 0..MaxSkew,
            since: 0..(Window - 1)]

Init ==
  /\ bucket = None
  /\ admitted = [t \in Spans |-> 0]
  /\ excess = [t \in Spans |-> 0]
  /\ promise = None

-----------------------------------------------------------------------------

CeilDiv(a, b) == (a + b - 1) \div b
Least(a, b) == IF a < b THEN a ELSE b

(* now - last_refill: negative if this replica's clock is behind.          *)
Elapsed(r) == bucket.since + Skew[r] - bucket.lead

(* Mutant: a bucket is not capped.                                         *)
RefilledUncapped(r) ==
  IF bucket = None THEN Full ELSE bucket.tokens + Elapsed(r) * MaxTokens

(* new_tokens.                                                             *)
Refilled(r) ==
  IF bucket = None THEN Full
    ELSE Least(Full, bucket.tokens + Elapsed(r) * MaxTokens)

(* Mutant: last_refill is written for a new bucket only.                   *)
WriteUndated(r, tokens) ==
  bucket' = [tokens |-> tokens,
             lead |-> IF bucket = None THEN Skew[r] ELSE bucket.lead,
             since |-> IF bucket = None THEN 0 ELSE bucket.since]

(* HMSET and PEXPIRE.                                                      *)
Write(r, tokens) == bucket' = [tokens |-> tokens, lead |-> Skew[r], since |-> 0]

Admit(r) ==
  /\ Refilled(r) >= Token
  /\ Write(r, Refilled(r) - Token)
  /\ admitted' = [t \in Spans |-> admitted[t] + 1]
  /\ promise' = None
  /\ UNCHANGED excess

(* Mutant: rounded down.                                                   *)
RetryAfterFloor(r) == ((Token - Refilled(r)) \div (MaxTokens * Second)) * Second

(* The Retry-After header: wait_ms in whole seconds, as ticks.             *)
RetryAfter(r) == CeilDiv(Token - Refilled(r), MaxTokens * Second) * Second

(* Mutant: a refusal writes the time but not the refilled tokens.          *)
RefuseForgetting(r) ==
  /\ Refilled(r) < Token
  /\ Write(r, bucket.tokens)
  /\ promise' = IF promise = None THEN RetryAfter(r) + MaxSkew
                  ELSE Least(promise, RetryAfter(r) + MaxSkew)
  /\ UNCHANGED <<admitted, excess>>

Refuse(r) ==
  /\ Refilled(r) < Token
  /\ Write(r, Refilled(r))
  /\ promise' = IF promise = None THEN RetryAfter(r) + MaxSkew
                  ELSE Least(promise, RetryAfter(r) + MaxSkew)
  /\ UNCHANGED <<admitted, excess>>

(* A request of the client this bucket is kept for.  The limiter runs      *)
(* before authenticate, so that is an address, under the anonymous limit.  *)
Ask(r) == Admit(r) \/ Refuse(r)

(* A failure of Redis that lets requests through beside the bucket.        *)
Exceed(units) ==
  /\ excess[Window - 1] + units <= MaxExcess
  /\ excess' = [t \in Spans |-> excess[t] + units]

(* Without an answer of Redis the request is let through, and no token is  *)
(* taken.  (If the script ran and its answer was lost, that is a step of   *)
(* Ask beside this one.)                                                   *)
FailOpen ==
  /\ Exceed(Token)
  /\ admitted' = [t \in Spans |-> admitted[t] + 1]
  /\ UNCHANGED <<bucket, promise>>

(* Redis comes back without the key: the next request finds a full bucket, *)
(* although what was admitted was admitted.                                *)
KeyLost ==
  /\ bucket # None
  /\ Exceed(Cap)
  /\ bucket' = None
  /\ UNCHANGED <<admitted, promise>>

(* Time passes, and the key expires a window after it was written.         *)
Tick ==
  /\ bucket' = IF bucket = None \/ bucket.since + 1 = Window THEN None
                 ELSE [bucket EXCEPT !.since = @ + 1]
  /\ admitted' = [t \in Spans |-> IF t = 0 THEN 0 ELSE admitted[t - 1]]
  /\ excess' = [t \in Spans |-> IF t = 0 THEN 0 ELSE excess[t - 1]]
  /\ promise' = IF promise = None \/ promise = 0 THEN promise ELSE promise - 1

Next == (\E r \in Replicas : Ask(r)) \/ FailOpen \/ KeyLost \/ Tick

Spec == Init /\ [][Next]_vars

(* Clients keep asking, and time passes.                                   *)
FairSpec == Spec /\ WF_vars(\E r \in Replicas : Ask(r)) /\ WF_vars(Tick)

-----------------------------------------------------------------------------

TypeOK ==
  /\ bucket \in Buckets \cup {None}
  /\ admitted \in [Spans -> Nat]
  /\ excess \in [Spans -> Nat]
  /\ promise \in Nat \cup {None}

(* In no span of time up to a window are more requests admitted than a     *)
(* full bucket holds and is refilled with from the span's first tick to    *)
(* its last, by the clock that is most ahead, however requests and the     *)
(* key's expiry interleave; each loss of the key adds at most one more     *)
(* full bucket and the clocks' difference, and each request let through    *)
(* without Redis itself.  For a whole window that is almost twice the      *)
(* configured limit even while Redis works, where the repository's README  *)
(* has `Rate limit per minute'.                                            *)
WindowBound ==
  \A t \in Spans :
    admitted[t] * Token <= Full + excess[t] + (t + MaxSkew) * MaxTokens

(* A client that waited as long as Retry-After told it, and the replicas'  *)
(* clocks' difference, is not refused again unless another of its requests *)
(* was admitted meanwhile.  Those that were refused do not set it back.    *)
RetryAfterIsEnough ==
  [][promise = 0 => \A r \in Replicas : ~Refuse(r)]_vars

(* A refused client that keeps asking is admitted, however often it asks.  *)
RefusedIsAdmitted == promise # None ~> promise = None
=============================================================================
