# A verification of the microservices API gateway

TLA+ models of the gateway, its services and their protocols, checked with TLC
on small instances and proved with TLAPS for all of them. Paths below are those
of the repository; the map from each definition to the lines it models is in
`PROJECT.json`.

## The system

Clients talk HTTP to the **gateway** (any number of replicas), which proxies to
three services. The gateway keeps everything it shares between replicas in
**Redis**; each service owns one **Postgres** database; services talk to each
other, and report that they are alive, over **NATS**.

| component | state | operations | interacts by |
|---|---|---|---|
| order-service, `order.service.ts` | `orders` table; local variables of each handler | createOrder, confirmOrder, cancelOrder, compensateReservations, reads | NATS request/reply to product-service, events on NATS |
| product-service, `product.service.ts` | `products` table (stock, version, isDeleted) | create, update (optimistic lock), soft delete, checkStock, reserveStock, releaseStock, reads | HTTP for admins, NATS responders for order-service |
| user-service, `user.service.ts`, `index.ts` | `users` table; each process's NATS connection | createUser, loginUser, getUserById; start, drain, exit | HTTP, a NATS responder |
| shared NATS layer, `shared/src/nats` | one connection per process, dead-letter subject | natsRequest, natsPublish, natsSubscribe, natsRespond, heartbeats | NATS |
| gateway circuit breaker | one Redis hash per service | canRequest, recordSuccess, recordFailure (Lua scripts) | hook on `res.end` of each proxied request |
| gateway idempotency | one Redis string per key, TTL 24 h | lookup, store on response | wraps `res.json` and `res.end` |
| gateway response cache | one Redis string per GET path, TTL 60 s | lookup, fill, invalidate after a write | wraps `res.json`, listens to `finish` |
| gateway rate limiter | one Redis hash per client | token bucket (Lua script) | refuses with 429 |
| gateway service discovery | in-memory registry | heartbeat received, periodic check | NATS subject `health.ping` |
| gateway chain, proxy, auth, health | none of their own | order of the middlewares, header injection, 502 on proxy errors | all of the above |

### What is hard

* **The saga has no log.** createOrder's progress (`reservedItems`) lives in
  local variables of the HTTP handler. A crash, a timeout or a failed statement
  after some reservations leaves whatever the code at that point does about it.
* **Timeouts do not cancel.** `natsRequest` gives up after 5 s; product-service
  may handle the request later all the same.
* **Reads decide writes.** findUnique before create, findFirst before update,
  checkStock before reserve: every one of them may be stale when it is used.
* **Shutdown is half graceful.** A service drains its NATS connection before it
  exits and leaves its HTTP server open; calls under way are cut off, and what
  drain or disconnect wait for may be what is broken.
* **Shared state in Redis.** A request's permission and its result are two
  scripts, with other requests and state changes between them; times come from
  the replicas' clocks; Redis may fail (the gateway then lets requests through)
  or come back empty (docker-compose.dev.yml and infra/k8s/redis give it no
  volume).

### What makes each part correct

* order-service: an order has its stock; stock is given back only where it was
  taken; one order per idempotency key; a cancelled order stays cancelled; stock
  is neither lost nor sold twice; every call ends.
* product-service: no update is lost; no blind overwrite; conflicts are real;
  deleted rows stay as they are; stock is never negative.
* circuit breaker: it opens exactly after a threshold of failures in a row,
  leaves the service alone for the timeout, limits the probes, and reaches a
  decision unless its probes' results are lost.
* gateway chain and idempotency: what is replayed to a key was said to that key;
  a refusal of the moment is never replayed; a lasting one ends; a request gets
  through the chain whatever Redis does.
* response cache: no answer older than the last invalidation (it turns out that
  nothing is ever cached, see below).
* rate limiter: a bound on what any window admits, whatever fails; Retry-After is long enough;
  a client that keeps asking is admitted.
* discovery: a silent service is marked, in time; a live one is not marked by a
  late heartbeat or two, and comes back.
* user-service: one account per e-mail, however many register it at once; whoever
  was told 201 is known to every process from then on; a responder's queue keeps
  moving although handlers throw; a process told to stop is gone in the end.

## Modules

| module | models | extends |
|---|---|---|
| `ProductStore` | the products table and each SQL statement on it, as operators on a table | |
| `ProductService` | admins' HTTP calls interleaved with stock traffic | `ProductStore` |
| `OrderSaga` | order-service's three writers, NATS calls, product-service's responders | `ProductStore` |
| `Reservations` | abstract: what is promised about orders and the stock set aside for them | |
| `SagaRefinement` | `OrderSaga` as an implementation of `Reservations` | `OrderSaga` |
| `UserService` | user-service's handlers, its responder, and the life of its processes | |
| `CircuitBreaker` | the shared circuit of one service | |
| `Gateway` | a mutation's way through the middlewares and the proxy, with the idempotency store | |
| `ResponseCache` | GETs and invalidations around the proxy | |
| `RateLimiter` | the token bucket of one client, shared by replicas | |
| `Discovery` | heartbeats, the registry and its checker | |
| `MC...` | instances for TLC | each its module |
| `...Proofs` | lemmas and theorems | each its module (`OrderSagaProofs`: `SagaRefinement`) |

`ProductStore` is shared: the saga reserves and releases through the same
operators that the optimistic lock is checked against, and its lemmas
(`ReserveRowTable` and the like) serve both proofs.

### ProductStore and ProductService

A row is `details` (name, description, price: nothing computes with them),
`stock`, `version`, `isDeleted`. Each statement is one operator; `updateMany` with
a WHERE clause is a condition (`CanUpdate`, `CanReserve`, `Live`) and an effect.
An admin session goes GET, edit, PUT, and may edit again from the PUT's answer. A
PUT is the versioned update and then one more read, as separate steps. The
header is either the version the admin saw or unusable, which
`parseInt(...) || 1` turns into 1. `original` is a history variable: each row as
it was created.

### OrderSaga

Each await of createOrder, confirmOrder and cancelOrder is a phase (`pc`); loops
keep their index (`pos`). A reserve or release is sent (`calls`), handled
(`applied` records that it took effect), and its reply read (`replies`). checkStock
and product.get change nothing and are one step each. The caller may give up
at any time between; a call given up on stays in `calls` and may be handled
later or never. The table's constraints decide an insert: UNIQUE on the
idempotency key, CHECK on the total, which is positive when at least one price
could be read (`priced`; a price that could not be read counts as 0).

What may go wrong is the constant `Faults`: `timeout` (natsRequest rejects, at
once or after 5 s), `dbError` (a statement throws, applied or not), `overflow` (a
total too large for DECIMAL(10,2) fails the insert), `natsDown` (natsPublish
throws), `crash`, `delete` (an admin deletes a product). With `Faults`
empty, only interleaving is left.

`disturbed` is a history variable: orders on which a confirmation or
cancellation began while another was under way, or after one had stopped half
way. What the code guarantees about such orders is less, and the properties say
so instead of leaving the overlap out; what it then breaks is the run
`saga_double_release`.

### Reservations and SagaRefinement

`Reservations` has no messages, handlers or failures: an order is a status, and a
place for each of its items, which goes from `free` to `held` (`Take`), and from
`held` to `returned` (`GiveBack`), never again. It goes back only while the order
is not placed or somebody has set out to cancel it; an order is placed (`Place`)
when all of its items are held and no other order has its key; a cancelled
order is confirmed only if it is contested.

`SagaRefinement` reads the abstract state off `OrderSaga`: the status is the row's,
an item is held when its reserve call is in `applied` and returned when a release
call for it is (`Place`), an order is being cancelled once some cancelOrder has found it
(`BeingCancelled`), contested when it is `disturbed`. Sends, waits,
replies, timeouts and crashes are stutters. So is the second release of an item
by an overlapping cancellation: the item has been returned already. That the
stock of the product is raised once more by it is not visible here, and is
the finding `saga_double_release`; `Reservations` is about which order holds what,
`StockAddsUp` about the numbers.

### UserService

A call is a registration, a login or a profile call; each of its database calls
is a step, and between them other calls, failures and the end of its process may
come. `users.email` is UNIQUE, so of two registrations that both found the e-mail
free the second fails at its insert (`InsertUser`). Prisma's error is none that
the controller or `errorHandler` know: the second is answered 500, where the
gateway's API page (`gateway/src/routes/docs.ts:40`) and the sequential case say
409. Hashes, tokens, names and roles are left out; a user is named by the call
that made it.

A process is `running`, `draining` (SIGTERM was received), `closed` (the connection
is) or `exited`. Its responder takes messages one at a time from the
subscription's queue, until the connection is closed; a reply over a closed
connection is lost, and throws, which ends the process as `ShutDown` does. The dead
letter is published to a subject nobody subscribes to, so that it leaves no
trace in the model. HTTP calls are accepted and served until the process is
gone, since `app.listen`'s server is not closed; what it was at is answered
with a reset (`cut off`). `promised` is a history variable: the calls and requests
that began after the registration of the user they are about was answered.

order-service and product-service start and stop by the same code, and their
responders are the same function.

### CircuitBreaker

The hash is kept field by field; `state = "absent"` is a hash without the field
`state`, which the scripts treat differently from CLOSED. `elapsed` is the true
time less `lastFailureTime`; the replica serving slot `s` has a clock that is
`Skew[s]` ahead, so a failure it records sets `elapsed` to `-Skew[s]` and a
permission it asks for sees `elapsed + Skew[s]`. It stops counting at the recovery
timeout, beyond which no comparison changes. Requests are slots; a slot's request
is let through, later has one result, and the slot is free again. Redis failing
(`FailOpen`, `LoseResult`) and losing the key (`KeyLost`) are actions; nothing bounds
how many results are lost. `streak`, `age`, `probes`, `probing` (whose request is one
of the present half-open episode) and `lost` (how many results of such requests
were not recorded) are history variables the properties compare the hash with.

### Gateway

`app.ts` fixes the order: limiter, idempotency, cache (GET only), router; the
router asks the circuit, then checks the token, then proxies. A request is a slot;
its steps are the stretches between two awaits. The limiter's and the circuit's
verdicts and the token's validity are left open, since they depend on other
requests; so this module does not contain `CircuitBreaker` and `RateLimiter`,
which answer for those verdicts.

`hooked` says whether `res.json` and `res.end` have been replaced. Who answers
decides what they see: the gateway's own answers (`Answer`, `ProxyFails`) pass
`res.json`; a service's answer (`ServiceAnswers`) is piped, `res.write` and then
`res.end()`, and leaves no body to store. `Kept` is the condition of the code
on both. The SETEX that `res.end` does not wait for is a step of its own
(`storing`). `InternalError` is errorHandler's 500 for an error it does not know.
`said` (what the requests of a key were answered below 500, by the gateway or a
service) and `effects` are history variables.

### ResponseCache

The same observation decides this module: after a miss only `GatewayAnswers` passes
the replaced `res.json`, never with a 2xx. The invalidation is its two Redis calls,
KEYS and DEL, with other steps in between.

### RateLimiter

One script call is one step. The bucket keeps tokens in units of which one token
is `Window`, so that a tick refills a whole number of them (`MaxTokens`).
`last_refill` is kept as the ticks since it was written (`since`) and how far ahead
the clock was that wrote it (`lead`); `Elapsed` is what the next replica computes
from it, and may be negative. The key expires a window after its last write.
`admitted[t]` counts the admissions since `t` ticks ago, for every `t` within a window,
those that Redis's failures let through included (`FailOpen`), and a loss of the
key (`KeyLost`) takes none of them back. `excess[t]` is what these failures account
for in the same span: a token for a request let through without Redis, a full
bucket and the clocks' difference (`Cap`) for a loss of the key. `MaxExcess` bounds how many of them happen in
a window. `promise` is the time after which a refused client may rely on
Retry-After.

The client is the address: the limiter runs before `authenticate` sets
`req.user`, so the branch of `getRateLimitKey` for authenticated users is never
taken, and `RATE_LIMIT_AUTHENTICATED_MAX` has no effect.

### Discovery

Each replica's timer, the checker's timer and a heartbeat under way are counters
that `Tick` moves; time stops when one is due, so timers fire when they are due and
deliveries take at most `MaxDelay`. A heartbeat published without a connection on
either side is lost (core NATS). The registry's `lastHeartbeat` is kept as an age.

## Runs

| run | what it asks | states |
|---|---|---|
| `product` | the writers of one product, two admins | 254 047 |
| `saga_faults` | every fault at once, two requests under one key, one handler | 116 880 |
| `saga_handlers` | scarce stock, two requests, two overlapping handlers, crashes; the refinement | about 320 000 |
| `saga_leak` | violated: a failed createOrder holds no stock | |
| `saga_double_release` | violated: stock is released once | |
| `users` | a race for one e-mail, or a login or profile call beside a registration, two user.get requests, two processes that stop, crash and start | 534 716 |
| `circuit` | three overlapping requests, one clock ahead, results lost without bound, safety and liveness | 22 562 |
| `gateway` | two overlapping requests, one key or none, Redis failing at any step | 199 800 |
| `gateway_effects` | violated: a key's effects happen once | |
| `cache_unused` | violated: a 2xx answer after a miss is cached | |
| `limiter` | two replicas, one clock ahead, tokens that are no whole number of ticks, Redis failing and losing the key | 286 609 |
| `discovery` | two replicas of one service, late and lost heartbeats, restarts | 5 200 |

The four violated runs are findings, each with the lines it contradicts, in
`PROJECT.json`:

* **saga_leak** (no fault needed): two createOrders under one key both find no
  order, both reserve, the second insert violates UNIQUE, and its stock is never
  released: only the reserve loop is inside the `try`.
* **saga_double_release** (no fault needed): two cancellations of one order
  overlap, both release.
* **gateway_effects** (no fault needed): two requests with one key, one after the
  other, are both forwarded and both carried out, since the first one's piped
  answer was not stored. For orders the table's UNIQUE key makes up for it
  (`OneOrderPerKey`); products and users have none. What the store does keep is
  the gateway's own 401 and 404: a client that repeats a request with a renewed
  token and the same key is answered 401 until the entry expires.
* **cache_unused** (no fault needed): a GET that missed and was answered 200 fills
  nothing.

What `circuit` shows besides: halfOpenMaxRequests (`max requests in half-open
state`, `circuitBreaker.ts:16`) is exceeded by one, for the request that finds the
timeout over passes without being counted (`ProbesBounded` is tight). That same
request is what makes up for one lost result (`ProbingEnds`): the mutant that
counts it gets stuck half-open. With two lost results the code itself may get
stuck: the counter is used up, the successes stay below the limit, and the
circuit refuses every request until Redis loses the key. `ProbingEnds` therefore
excludes exactly the episodes that lost two results, and fails if it excludes
only those that lost three. No line of the repository says that half-open ends,
so this is stated here and in the property, not as a finding.

What `limiter` shows besides: a full bucket and a window's refills pass in one
window, almost twice `MaxTokens`, while Redis works (`WindowBound` is what the token
bucket keeps). `RATE_LIMIT_MAX_REQUESTS` is described as `Rate limit per minute
(anonymous)` (README.md:245 of the repository), which read as a cap on every minute
the code does not keep; README.md:257 names the token bucket, whose rate it is in
the long run. Redis's failures come on top, each by its own amount.

### Bounds, and why they are enough

* `product`: stock to 2, versions to 4 (`MaxStock`, `MaxVersion`): two edits and two
  reservations or releases fit between a GET and its PUT, and two admins can
  conflict both ways.
* `saga_faults`: two requests with one key make every race on the key; two items
  make a saga fail half way; ample stock, so that failures come from the faults
  and not from shortage. One handler, after which the order may be in any status.
* `saga_handlers`: the requests take first what the other needs last, with too
  little for both, and one names a product twice; two handlers are the fewest that
  overlap.
* `users`: two calls make the race on an e-mail, and every overlap of a
  registration with a login of either password or a profile call; a third call
  could only repeat one of these. A profile call names a user or, as it may when
  the service is called without the gateway, none. Two requests fill a queue behind a message
  that is being handled; two processes let a request go to one that is
  stopping while the other runs, or find none running.
* `circuit`: threshold 2 and limit 2 are the smallest values at which counting
  shows; three slots are as many as the probes let through; timeout 3 and skew 1
  make an early and a late clock differ.
* `gateway`: two slots give every overlap of two requests of one key; a second key
  would share nothing with the first. One route of each kind; `Ttl` 2 lets an
  entry expire between the lookup and the store of another request. With
  `gateway_effects` Redis never fails, so that the violation owes nothing to it.
* `limiter`: 2 tokens in 5 ticks, a second of 2 ticks: a token takes neither a
  whole number of ticks nor of seconds, so every rounding shows. `MaxExcess` = 24
  units is two losses of the key in a window, or one and two requests let
  through without Redis, or four such requests.
* `discovery`: a tick is 5 s, the constants are those of `heartbeat.ts` and
  `discovery.ts` (10 s, 30 s): 2 and 6, and a delivery of up to 5 s. Ages above
  `Timeout + Interval` are not told apart (`Old`), nor more missed heartbeats than
  `AllMissed`.

Deadlock is checked for the circuit, user-service and the parts of the gateway. The
product and saga instances stop when everything in them has been done, which
their cfg files say.

### Fairness

* `LossySpec` (saga): each caller's own step, once enabled, is taken. Node resumes
  a handler whose await is over, and the timer of `nc.request` fires if nothing
  else ends the wait. That a Prisma call answers or fails is an assumption: the
  code gives it no timeout. Nothing is assumed of product-service, NATS or new
  clients. In `saga_faults` crashed callers count as ended: their client sees the
  connection close.
* `FairSpec` (user-service): a responder takes the next message and ends with it
  (Node resumes it, the database answers or fails), and the 10 s timer of a
  shutdown fires. Nothing is assumed of NATS confirming the drain, of
  `$disconnect`, of callers, or of who starts and stops processes.
* `FairSpec` (circuit): time passes; clients keep calling, and Redis answers some
  of them whenever it answers again and again (strong fairness, because a slot
  may be taken by requests let through without Redis); every request let through
  ends. The code has no proxy timeout, so the last one rests on the client or
  the service closing the connection. That its result is recorded is not
  assumed: Redis may fail just then, as often as it likes.
* `FairSpec` (gateway): every await ends (ioredis settles its promises; a proxied
  request ends as for the circuit), and Redis counts its entries down. No
  fairness for clients.
* `FairSpec` (limiter): a client keeps asking, of whichever replica, and time
  passes.
* `FairSpec` (discovery): timers fire when due, deliveries happen, time passes
  (strongly fair, since it waits while something is due), and a replica that
  publishes for ever is not unheard for ever. Nothing is assumed about starting,
  stopping, or the gateway's restarts.

## Proofs

All theorems hold for every value of the constants under the named assumptions
of the modules, which TLC evaluates on every run.

* **ProductServiceProofs.** `IInv` adds to the types: a row's version is at least
  the version seen by a session that has its product open, and if it is equal the
  row is the one seen, or that row deleted; likewise against the row as created
  with version 1. From it follow `TypeOK`, `NoLostUpdate`, `NoBlindOverwrite`,
  `ConflictMeansNewerVersion` and `DeletedStaysDeleted`. The invariant is needed
  because what a PUT overwrites was read in an earlier step: only the fact that
  every writer of a live row moves its version connects the two.
* **OrderSagaProofs.** `SafeInv` is, beside `TypeOK`: `RequestInv` (the phase of a
  createOrder says how many items are reserved, and those are in `applied`),
  `HandlerInv` (a handler past its lookup works on an order that exists), `CallInv`
  (a release in flight comes from a request that never inserted its order and
  had the reservation acknowledged, or from a cancellation), `RepliesAreTrue`
  (`reserved: true` is only said of an applied reservation) and `KeyInv`. It gives
  `OrderHasItsStock`, `ReleaseFollowsReserve` and `OneOrderPerKey`, for every
  combination of faults. `OverlapInv` (two handlers on one order have disturbed it;
  a confirmation about to write finds an undisturbed order not cancelled) gives
  `CancelledIsFinal`. The step lemmas split `Next` into the caller's own steps and
  the rest of the world (`NextSplit`), and state once what each leaves alone
  (`LocalFrame`, `DataFrame`, `WorldFrame`).

  The refinement (`SagaRefines`) uses the same invariants: that a reserve is
  applied only for an order that is not placed and of which nothing was given back
  (`NoReleaseYet`), and that a release is applied only for a held item, of an order
  not placed or being cancelled, make product-service's steps `Take` and `GiveBack`
  or stutters; `KeyInv` is `Place`'s condition on keys, `OverlapInv` is `Confirm`'s.

  The ledger (`BookInv`, `BooksBalance`) is about numbers. `OnceInv`: the loop that
  sent a call has gone on since, or waits for it (`SentInv`), so the next call it
  sends is a new one, and none is both on its way and applied; without this a
  call could be sent again after it took effect, and the sets would not count.
  `LedgerInv`: what is on the shelf plus the units of applied reservations is what
  there was plus the units of applied releases. A unit is a call and a number up to
  its item's quantity (`UnitsOf`), so the sums are cardinalities, one more call is
  one more product of a singleton and an interval (`UnitsAdd`), and no induction
  over the items is needed. `CancelOnceInv`: two cancellations of one order have
  disturbed it. With nothing disturbed each release undoes a reservation of its
  own (`OneReleaser`, `GivenUnits`), live orders hold units that were taken and not
  given back, one to one (`HeldMap`), and `NoOversell` follows (`NothingOversold`),
  for every combination of faults. `ReleasedOnce` is `StockReleasedOnce` for the
  orders that were not disturbed.

  `StockIsConserved` is `StockAddsUp`, from the hypothesis `NothingLost`: none of the
  faults `timeout`, `dbError`, `overflow` and `delete`, and no two requests with one key. Each
  part is needed, as `saga_leak` shows for the keys; crashes, failing publishes and
  stock that runs out between check and reservation remain, and so does any
  overlap of requests and handlers (the property itself speaks of the states in
  which no caller is at work or crashed). `ReplyInv`: a reply answers the one call its caller
  waits for, and is the only one. `CalmInv`: a reservation that was sent is
  acknowledged or waited for, a compensation has released what it has passed, a
  createOrder that ended without a row has released all it reserved, and a
  cancelOrder past its loop all of its order. So every unit taken and not given back
  is held by a live order (`LeftIsHeld`), and `HeldMap` is a bijection. The same
  invariant gives `FailedSagaHoldsNoStock` where nothing is lost
  (`FailedSagasHoldNothing`).
* **UserServiceProofs.** `AccountInv` is, beside `TypeOK`: `CallInv` (a registration past
  its insert, or answered 201, has its row, and a login's token its row's
  password), `UniqueEmails` (the index) and `PromiseInv` (who a promised call or
  request is about has been answered 201). What no step takes back (`Keeps`: rows,
  bodies, answers) is stated once, and every action is a call that answers, a call
  that goes on, or a step in which the calls stand still or are cut off
  (`PlainAnswer`, `GoOnStep`, `QuietStep`). It gives `AnsweredHasAccount` and
  `ReadYourRegistration`, with any number of processes that fail and restart.
* **CircuitBreakerProofs.** `CountsAgree`: while closed, `failureCount` is the number
  of failures in a row and below the threshold; while half-open every probe but
  the first is counted; while open `lastFailureTime` is not before the opening. It
  gives `ClosedBelowThreshold`, `OpensOnlyAfterStreak`, `ProbesBounded` and
  `NoEarlyProbe`.
* **GatewayProofs.** `SlotInv`: the phase of a request says whether it may be
  hooked, and a request is on its way to the store only if it is hooked, has a
  proper key, and its status is one that key was answered with (`said`) and is 401
  or 404 (the answers the gateway gives behind the hook that are not 5xx).
  `StoreInv` says the same of the entries. They give `TypeOK`, `ReplaysOwnAnswers` and
  `RetriesGetThrough`. `KeptInv`, that nothing but a 401 or a 404 is kept or about to
  be, is a theorem of its own (`OnlyRefusalsAreKept`): it is the general form of
  what `gateway_effects` finds, and no property that a run checks, since the code's
  comments promise the opposite.
* **RateLimiterProofs.** `LeadInv`: by the clock least ahead the bucket is never
  further below empty than `MaxSkew` refills; it makes `TypeOK` inductive, since a
  write by a replica whose clock is behind takes tokens away. `PromiseInv`: when
  the promise ends, a token will be there by that same clock. It gives
  `RetryAfterIsEnough`. Both are about products of variables with constants, for
  which `Distribute` and `TimesOrder` are stated once. `SpentInv`: what was admitted
  since `t` ticks ago and what is left in the bucket by the clock most ahead
  (`Level`) fit together into a full bucket, the refills of `t` ticks and the clocks'
  difference, and `excess[t]`. `WindowBound` alone is not inductive: it says nothing
  of what the bucket still holds. It holds through the expiry of the key, since a
  key unwritten for a window leaves a window in which only requests without
  Redis were admitted, and `excess` counts those; through a loss of the key, since
  the bucket that comes back full is what `excess` grows by; and it gives
  `WindowBound` (`WindowIsBounded`).
* **DiscoveryProofs.** `CheckInv`: the age of a healthy entry and the checker's
  remaining time stay within `Timeout + Interval`, which gives `SilentIsFlagged`.
  `BeatInv`: a running replica that has missed `m` heartbeats has `(m + 1) * Interval`
  at least the entry's age and the time to its next heartbeat, or has missed all;
  it gives `FlaggedHasMissed`.

Every invariant and action property of a passing run is stated by a theorem.
Only model-checked: liveness, which is out of the provers' reach (`EveryCallEnds`,
`OutageIsProbed`, `ProbingEnds`, `RefusalExpires`,
`EveryRequestEnds`, `RefusedIsAdmitted`, `DeadIsFlagged`, `RunningIsHealthy`,
`QueueKeepsMoving`, `ShutdownEnds`).

## What is not modelled

* Wording, logging, metrics, telemetry, documentation pages, validation of shapes
  by zod: nothing here depends on them. Inputs are those the schemas accept (at
  least one item, positive quantities, stock not negative).
* Prices and totals beyond `is some price known` and `overflow`; the 32-bit limit
  of `stock`, past which Postgres refuses a statement (for the saga a `dbError`).
* Idempotency keys that are the empty string, which order-service treats as no
  key when it looks and as a key when it inserts.
* `PENDING` and `FAILED`: the schema has them and no code writes them.
* Reads that change nothing: listProducts, listOrders, getOrderById, listUsers,
  getState, getStates, the registry's getters, the health pages.
* natsSubscribe's loop, which is the responder's without the reply; NATS
  reconnecting, other than by the calls it loses; dead letters, which nobody reads.
* The gateway's own shutdown: it closes its HTTP server, then Redis and NATS, under
  the same timer as the services. What it breaks off is `BreakOff` in `Gateway`.
* That one replica's Redis client gives up after six failed reconnects
  (`gateway/src/services/redis.ts:13`) while others return: the models let Redis
  fail for as long as it likes, for all replicas alike.
* The rounding of the limiter script's floating-point numbers, and which bucket a
  request takes from.
* requireRole and optionalAuth, which no route mounts. Whose 2xx to 4xx the
  circuit counts: the gateway's own 401 is a success to it like a service's.
* The components `PROJECT.json` lists as not_modelled, each with the reason.

## Plan

In this order; a module is written with its cfg, properties and mutants, then
proved about.

Done: `ProductStore`, `ProductService`, `OrderSaga`, `CircuitBreaker`, `Gateway`,
`ResponseCache`, `RateLimiter`, `Discovery`, `Reservations` with the refinement,
`UserService`, and the proofs of all but `ResponseCache`. Next:

1. The limiter's choice of the bucket, before and after authentication, against
   `RATE_LIMIT_AUTHENTICATED_MAX` (README.md:246).
2. The chain composed with the circuit: a 401 or a broken connection counted as a
   result of the service behind it; a replica whose Redis client has given up.
3. Proofs: an abstract lock and an abstract bucket that `ProductService` and
   `RateLimiter` implement, as `OrderSaga` implements `Reservations`.

A run for a new question takes the place of a lesser one whose question is
answered elsewhere.
