# A verification of the BSSM Developers proxy

The repository is a reverse proxy in Go. A client sends a request with the
header `bssm-dev-token`; the proxy checks the token, finds the external API the
token may use, calls it and passes the response on. The Go code is short, and
almost everything that is hard about it is concurrent: each request runs in a
goroutine of its own, starts up to four more that nobody waits for, and shares
an in-process queue, two caches, counters in Redis and one row in MySQL with all
other requests.

The TLA+ modules here model those shared parts. TLC checks them on small
instances; TLAPS proves every safety invariant, action property and refinement
these runs pass, for every value of the constants. `PROJECT.json` lists every run,
mutant, theorem, finding and hazard, and maps every definition to the lines it
models.

## 1. The system

| component (under `src/`) | state | operations | hard behaviour |
|---|---|---|---|
| request queue contract `internal/queue/queue.go` | slots, waiting requests | Acquire, Release | what callers may rely on, whatever the implementation |
| HRN queue `internal/queue/hrn_queue.go` | channel of tokens, heap of waiters, one timeout goroutine for each waiter | Acquire, Release, complete | Release races with timeout and cancellation; two-step decisions (look at the channel, then push) |
| semaphore queue `internal/queue/semaphore_queue.go` | the same with a slice | the same | the same; keeps the order of the line. Not built by `main.go` |
| priority service, queue middleware `internal/queue/priority_service.go`, `internal/middleware/queue_middleware.go` | failure count of each client in Redis, with a TTL | Handle, GetPriority, IncrementFailure, ResetFailure (no caller) | a goroutine that outlives the request whose context it uses; INCR and EXPIRE are two commands, which may be sent twice or break off in between |
| pipeline `internal/domain/api/service/pipeline.go` | none of its own | Execute, trackRequest, releaseRequest | early returns after a goroutine was started; the two goroutines of a request are not ordered |
| rate limiter `.../redis_rate_limiter.go` | concurrency counter and per-minute buckets in Redis | IncrementConcurrent, IncrementAndGet, DecrementConcurrent, CheckAndUpdateState | sequences of Redis commands without a transaction; keys expire between them; the minute passes between them |
| token state service, token model `.../token_state_service.go`, `.../model/api_token.go` | `api_token.state` in MySQL | TransitionState, Validate... | read, decide, write without a transaction |
| two-level cache `internal/cache` | L1 in the process, L2 in Redis | GetOrFetch, Evict (no caller) | stale fills, background writes, ages of the two levels add up |
| query services, repositories `.../query`, `.../repository` | none | lookups through the cache | a lookup may return an old row |
| log publisher `internal/log/service/log_publisher.go` | buffered channel, workers | publish, runWorker | bounded buffer, two loops in each worker, the end of the process |
| bootstrap and shutdown `cmd/main.go` | life of the process | start, signal, Shutdown, exit | who is still running when `main` returns |
| upstream requester, response sanitizer `internal/requester` | pool of clients | Request | upstream timeouts and errors, concurrent creation of clients |
| domain validator `internal/validator` | cache of verdicts | Validate | negative verdicts of transient failures are cached |
| handlers, access services, error middleware, health check | none | Handle, Check | exactly one answer, also after a panic |
| body truncation, header masking `internal/log/service` | none | pure | boundaries of runes, lengths |
| configuration `internal/config` | none | Load | - |

How they meet: `QueueMiddleware.Handle` asks the priority service for a
priority, waits in the queue, and then runs the handler, with a deferred
`Release`. The handler calls `Pipeline.Execute`, which reads the token, the
allowed origins and the usages through the cache, starts `trackRequest`, calls
the upstream API, starts `releaseRequest` and publishes a log. `trackRequest`
counts in Redis and may change the state of the token in MySQL; the cached copy
of the token is not evicted, so the change is seen when the cache entries end.

## 2. The modules

| module | models | kind |
|---|---|---|
| `RequestQueue` | `queue.go`: idle, waiting, admitted, refused, released | abstract specification |
| `HRNQueue` | `hrn_queue.go` | implements `RequestQueue` |
| `HRNQueueProofs` | theorems about `HRNQueue` | proofs |
| `WaiterPool` | what the queue wants of its heap | abstract specification |
| `WaiterHeap` | `waitHeap` of `hrn_queue.go` under `container/heap` | implements `WaiterPool` |
| `WaiterHeapProofs` | theorems about `WaiterHeap` | proofs |
| `SemaphoreQueue` | `semaphore_queue.go` | implements `RequestQueue` |
| `SemaphoreQueueProofs` | theorems about `SemaphoreQueue` | proofs |
| `QueueMiddleware` | `queue_middleware.go`, `priority_service.go`, contexts of net/http | built on an instance of `RequestQueue` |
| `QueueMiddlewareProofs` | theorems about `QueueMiddleware` | proofs |
| `TokenTracking` | `pipeline.go`, `redis_rate_limiter.go`, `token_state_service.go`, `TransitionToNextState` | one token, several requests |
| `TokenTrackingProofs` | theorems about `TokenTracking` | proofs |
| `TwoLevelCache` | `two_level_cache.go` | one key, several readers |
| `TokenAccess` | who may call what: services, validations of the token, query services, repositories, and the writers of the row | extends `TwoLevelCache` |
| `TokenAccessProofs` | theorems about `TwoLevelCache` and `TokenAccess` | proofs |
| `Exchange` | the content of requests, replies, answers and logs: `request_info.go`, `response_sanitizer.go`, `proxy_handler.go`, `body_truncator.go`, `header_sanitizer.go`, `buildLog` | operators, no state |
| `LogSink` | what a handler may expect of the publisher | abstract specification |
| `LogPublisher` | `log_publisher.go`, shutdown of `main.go` | extends `Exchange`, implements `LogSink` |
| `LogPublisherProofs` | theorems about `LogPublisher` and the operators of `Exchange` | proofs |
| `Requester` | `http_requester.go`, the cache of `domain_validator.go` | part of `RequestPath` |
| `RequestPath` | the chain of `newRouter`, `error_middleware.go`, `proxy_handler.go`, `health_handler.go`, `Execute` | extends `Requester`, built on an instance of `RequestQueue` |
| `RequestPathProofs` | theorems about `RequestPath` and `Requester` | proofs |
| `MC...` | definitions for TLC: symmetry, priorities | |

Conventions. A variable `pc`, `stage`, `track`, `release` or `timer` says where
a goroutine is; one action is what a goroutine does between two points at which
others can interfere: a channel operation, a critical section of `q.mu`, one
Redis command, one SQL statement. Values a goroutine has read and no longer uses
are reset, so that they do not multiply states. Definitions called "Mutant of
..." are wrong variants of the definition they precede; no specification uses
them. They show that each property can fail: put in the place of the right
definition, they make TLC find a violation.

### HRNQueue

`sem` is the number of tokens in `q.sem`; `heap` the set of waiters with
`index >= 0`; `answer[w]` is `w.done` together with what was sent into `w.ch`;
`timer[w]` is the goroutine of lines 59-80. `Acquire` is `AcquireNow`, or
`CreateWaiter`, `Enqueue`, `Receive`; `Release` is a loop of `PopWaiter` and
`Grant` or `TryNext`, or `FindEmpty` and `ReturnSlot`. The compare-and-swap of
`complete` and the send after it are one step: the channel has room for the only
answer ever sent, so the send never waits, and no one can see the moment between
them except as a delay of the receiver. `Pop` of container/heap is "a waiter of
highest effective priority", and `Remove` takes the waiter whose index was looked
at; that the array does this is the subject of the next module. A waiter's
priority is chosen when it is made. A context that is cancelled before the waiter
exists, or after its timeout goroutine has ended, has no effect, so `Cancel` is
possible only in between.

### WaiterHeap

`heap`, `len` and `index` are the slice and the indices of the waiters; `step`,
`at` and `limit` are where `up` or `down` of `container/heap` is, so that each
comparison is a step of its own. All waiters age at one rate, so two of them
compare as `priority - rate * enqueuedAt`, their `key`. But `Less` reads the
clock once for each side. The time between the two readings makes the second
waiter look older, so of two close waiters the better one may be found not
better: `NotLess` allows it within `slack`. With `slack = 0` the readings agree.
For the order of the heap that is needed: the errors of one call add up with
those of the next, and no bound on how far a popped waiter may be from the best
holds in general (TLC finds longer and longer chains when such a bound is tried).
The indices do not depend on any comparison.

A `Pop` or `Remove` is announced (`goal`) when the waiter is parked behind the
limit and takes effect when it is dropped; this is how the array implements
`WaiterPool`, with `pool <- Held`.

### SemaphoreQueue

The same goroutines around a sequence. Time does not influence the order of the
line, so a timeout may happen at any moment. `entered` is a history variable for
`ServedInLine`. `RemoveWaiter` takes the waiter out wherever it stands, or finds
nobody when a `Release` was faster.

### QueueMiddleware

`Queue == INSTANCE RequestQueue`: Acquire and Release are actions of the
contract, so the module holds for either queue. `cancelled` is the state of the
request context: done when the client disconnects or when the handler has
returned (`net/http` does this). Priorities are integers in units of 0.1. `FallbackPriority` is the 1.0 of line 43, which equals `base_priority` only
in the default configuration.

`IncrementFailure` has two sides. `increment[r]` is where the goroutine is in
`Exec`: `Send` sends the pipeline of INCR and EXPIRE unless the context is done,
`ReadReplies` ends it, and when the connection breaks or the reply is late
go-redis goes back to sending (`TryAgain`), up to `MaxTries` times, or `Exec`
returns an error that nobody looks at (`IncrementFails`). `pipe[r][k]` is what Redis
makes of the `k`-th copy: it may carry out both commands (`Increment`, `Expire`),
with those of others in between and also after the goroutine has sent another copy
or has ended, or be cut off before or after the INCR (`IncrementRefused`,
`ExpireRefused`). As in `TokenTracking`, a copy that was carried out and is sent
again counts again. Of Redis nothing but the order in which commands take effect is
assumed, so an error of either command and a broken connection are the same step.
`GetPriority` may fail too, and then `LookUpPriority` takes the fallback; it changes
nothing in Redis, so that sending it again is not seen.

### TokenTracking

Tokens share neither keys nor rows, so one token is modelled. `concurrent` and
`lifetime` are the value and the TTL of `api:concurrent:<id>`, `buckets` and
`mortal` those of the keys of each minute. `keyed[r]` is the earliest minute the
next `bucketKey()` of a goroutine can name, since the minute may pass between
the previous command and `time.Now()`. With `Faulty`, any Redis or MySQL command
may fail, or one Redis command is carried out while its reply is lost, and
go-redis sends it again after whatever others do in between (`LoseReply`); the
history variable `fault` says which. A row whose state
is empty counts as NORMAL, as in `TransitionToNextState`. `threshold[r]` is the
product a check makes of the count that `GetConcurrent` returned; nothing else of
the count is used. The cached token is forgotten when the last request has been
accepted or rejected (`Kept`), as nobody reads it any more. `MayExpire = FALSE`
leaves out the 10 s TTL of the counter, for traces that do not depend on it.

### TwoLevelCache and TokenAccess

A value is the version of the row. `local` and `redis` hold a version and the
ticks the entry has left; in its last tick it may still be read or not. `age[v]`
counts the ticks since version `v` was replaced. No absolute time appears, so
behaviors are unbounded in length and readers go on for ever. A TTL is minutes
and a read or write at most seconds, so the clock does not tick while an
operation is under way. `Evict` exists and is modelled, though nothing calls it.

`TokenAccess` says in `rows[v]` what version `v` of the row is: a state and a
secret, or `NoRow`. `Execute` reads the token through the cache, makes the checks
in the order of the code and calls the upstream API of a usage that matches;
`call[r]` is the request it was called for. The
platform changes, releases and deletes the row; `LoadRow` and `SaveRow` are
`TransitionState`, whose `Save` writes all columns as they were found. The lists
of origins and usages are cached under keys of their own, and a lookup may return
any list. Paths are sequences of what stands between slashes; `Endpoint` and
`MatchesTemplate` are `extractEndpoint` and `matchesTemplate` on such sequences.

### Exchange and LogPublisher

`Exchange` has no variables: `Result` is what `HTTPRequester.Request` makes of a
reply, `Answer` what the client is sent and `BuildLog` what is logged. A body is a
sequence of bytes of which only their role in UTF-8 is kept, so that cuts inside
a rune exist; a header value is a sequence of letters, so that masking hides
some; names of headers are classified by constants. The headers of an answer are
what `writeProxyResponse` gives net/http (`PassedHeaders`): `c.Header` replaces the
value it has set before, so that the last one stays, and takes the header away when
the value is empty; `c.Data` adds `application/octet-stream` when there is no type by
then. gin writes no body with 1xx, 204 and 304 (`BodyAllowed`). What net/http adds to
an answer (a date, a length) is left out.

In `LogPublisher`, `main` is where `cmd/main.go` is; the deferred `cancel()` runs
when `main` is "cancelled", and "exited" stops every goroutine where it is.
`handler[l]` is the handler whose log is `l`, `exchange[l]` names what `l` is the
log of. A worker is in its main loop ("running"), its drain loop ("draining") or
has returned. A document of 16 MB cannot be saved (`TooLarge`). Seen from outside,
logs in the channel and in the hands of workers are the `pending` of `LogSink`,
which refuses a log only when that many are pending.

### Requester and RequestPath

`Requester` is what several callers share below the handler: `verdicts`, the
cache of the validator, and `pool`, the `sync.Map` of clients. `call[r]` says
where `Validate` or `Request` of caller `r` is. A lookup sees what `dns` is at
some moment during it; the cache is written later, and entries expire. Which
hosts are refused without a lookup is the constant `Malformed`; that a lookup
fails and that it names an internal address are one verdict, as both end the
request with 400.

`RequestPath` runs a request from `ErrorMiddleware` to its end. `stage[r]` is
where it is; `Queue == INSTANCE RequestQueue` stands for Acquire and Release.
`answer[r]` is what has been written, so `answer[r] = "none"` is
`!c.Writer.Written()`. A write may succeed, leave an error in `c.Errors` (gin
1.10 does that) or panic with the status already set. A panic anywhere in
handler code takes the request to "panicking", then through the deferred
`Release`, then to the `recover` of `ErrorMiddleware`. Contexts do not appear:
that a client has gone shows as a failing lookup, a failing call or a failing
write, all of which may happen anyway. The CORS middleware answers preflight
requests itself and is left out, and so is `gin.Recovery`, which
`ErrorMiddleware` leaves nothing to recover.

## 3. The runs

| run | configuration | what it shows |
|---|---|---|
| `hrn_queue` | `MCHRNQueue.cfg`: 3 requests, 1 slot, 2 priorities, timeout 1 tick, ages up to 2 | `SlotConservation`, `ReleaseNeverBlocks`, `NoStaleWaiter`, `NoForgottenWaiter`, `PriorityBeatsAgeing`, `ImplementsRequestQueue`, `AcquireReturns`, `QueueComesToRest` |
| `waiter_heap` | `MCWaiterHeap.cfg`: 6 waiters, 3 keys, comparisons exact or off by one | `IndexAgrees`, `HeapOrdered`, `ImplementsWaiterPool` |
| `hrn_idle_slot` | `MCHRNQueueIdleSlot.cfg` | finding: `NoIdleSlotWhileWaiting` is violated |
| `semaphore_queue` | `MCSemaphoreQueue.cfg`: 5 requests, 2 slots | `SlotConservation`, `NobodyLost`, `ServedInLine`, `ImplementsRequestQueue` |
| `middleware` | `QueueMiddleware.cfg`: 3 requests, 2 clients, 1 slot, a floor that one failure reaches, each pipeline sent at most twice, one fault | `PenaltyIsEarned`, `SlotsEndWithHandlers`, `PenaltyFades` |
| `middleware_count` | `QueueMiddlewareCount.cfg` | finding: `TimeoutIsCounted` is violated |
| `request_path` | `MCRequestPath.cfg`: 2 requests of four kinds, 1 slot, a domain whose DNS changes | `UpstreamBounded`, `CallsAreCounted`, `AnsweredOnce`, `EveryRequestEnds`, `OneClientPerDomain`, `CallsRestOnLookup`, `DomainRecovers` |
| `tracking` | `MCTokenTracking.cfg`: 2 requests, 2 minutes, failing or resent commands, expiry at any time | `UndercountIsRepaired`, `NoImmortalKey`, `TwoEscalationsBeforeBlock`, `CounterComesToRest` |
| `tracking_order` | `MCTokenTrackingOrder.cfg`: 3 requests | finding: `StateNeverRegresses` is violated |
| `log_publisher` | `MCLogPublisher.cfg`: 3 logs of 8 exchanges, 2 workers, buffer of 1 | `ImplementsLogSink`, `EveryLogInOnePlace`, `DrainedWhenStopped`, `LogTellsTruth`, `CredentialsAreMasked`, `BufferedIsSettled`, `SignalEndsProcess` |
| `log_exit` | `MCLogPublisherExit.cfg` | finding: `NothingLeftBehind` is violated |
| `token_access` | `MCTokenAccess.cfg`: 2 readers, TTLs 1 and 2, 3 versions of the row, 4 requests | `BoundedStaleness`, `AccessFollowsRow` |

`middleware` and `request_path` also check `TypeOK`, where the range of a priority and
of an answer code takes several steps to establish. The `TypeOK` of every module with
state is proved (`TypeCorrect` of its proof module; for `TwoLevelCache`, `CacheTypeOK`
within `CacheInvariance`, and for `Requester` as part of `RequestPath`).

Bounds. *Queues*: one request holds the slot, one is popped, and one arrives or
gives up; a third waiter in `semaphore_queue` makes removals from the middle of
the line possible, and the second slot makes two Releases overlap. The proofs
cover every number. `MaxAge` lies one tick beyond the timeout, so that overdue
waiters exist; ages saturate there. *Heap*: with six waiters, and no fewer, a
removal from the middle can move the last one under a parent it beats. *Middleware*: two clients, so that a failure
could be counted against the wrong one, and two requests of one of them, whose
copies of pipelines meet; with one fault (`MaxFaults`) a pipeline is sent a second time
with its first copy before, between or after its commands, or is cut off between them.
go-redis sends up to four times; a third copy does what the second did. The proofs cover any number
of either. `middleware_count` needs neither: with `MaxFaults = 0` it shows that the
context alone loses the count. *Request path*: two requests are one that holds the slot
and one that waits for it, or two callers of one domain; every hazard of this
module is one of a pair. *Tracking*: a negative count and an overwritten reset
need two requests, a lost update of the state three, which `tracking_order` has;
the multiplier is small enough for the requests to exceed the threshold. A run has one resent
command or any number of failing ones. *Access*: two readers are one that fills a
level with what the other has made obsolete; three versions are the row, a change
of the platform, and a save that undoes it. The TTLs keep the proportion of the
defaults. The bound is tight; with one tick less in `BoundedStaleness` TLC finds
a violation. *Logs*: more logs than places, so that logs are dropped, and two
workers that race in different loops; the exchanges are one of each outcome, with
bodies and credentials on both sides of each limit (4 bytes for 2048, 6 for
16 MB; the 6 letters of `MaskToken` are its own), and with replies that have no type, an
empty value of a header, several values, an empty last one, and the status 204.

Fairness. Weak fairness for each goroutine step (the Go scheduler runs what can
run), for the clock, for the expiry of keys that have a TTL, and for the end of
an upstream call (`http.Client` has a timeout of 30 s) or a lookup (the resolver
has timeouts). Nothing obliges a
request to arrive, a client to disconnect, a signal to come, or, in
`LogPublisher`, a handler to finish. In `QueueMiddleware` only Redis is asked for
anything: what was sent is carried out or lost, and a key with a TTL expires.
Handlers and counting goroutines may stop anywhere.

What some properties do not say. `CallsAreCounted` is about `trackRequest` having been
started; its INCR may come later or fail, and what becomes of the count is the subject
of `TokenTracking`. `CallsRestOnLookup` is about the lookup of `Validate`; `http.Client`
resolves the name again when it dials, outside this code. `UndercountIsRepaired` is
about negative counts; a `SET 0` that overwrites later increments makes the count too
low without making it negative, until their releases do. `TwoEscalationsBeforeBlock`
holds whatever the checks compare with the threshold; it limits the damage of a stale
one and does not show that there is none. `ImplementsLogSink` is a safety property: a
publish that waited for room instead of dropping the log would satisfy it.
`PenaltyIsEarned` bounds what is counted from above; a timeout may count less than
once, as `middleware_count` shows.

## 4. What the code does not do

Four runs show a disagreement between the code and what its comments say.

* `hrn_idle_slot`: `Acquire` looks at `q.sem`, finds nothing, and pushes its
  waiter later. A `Release` in between finds the heap empty and returns its slot
  to the channel. The waiter then waits for its timeout, or for another
  `Release`, while a slot is free. `SemaphoreQueue` has the same gap, by which
  a late arrival overtakes an earlier one.
* `middleware_count`: `IncrementFailure` runs with the context of the request
  that has just been answered; when the server ends the request first, the
  failure is not counted. (Nor when Redis cannot be reached, as nobody looks at the
  error of `IncrementFailure`.)
* `tracking_order`: two checks and a third that read the row before them take a
  token from BLOCKED back to WARNING.
* `log_exit`: `main` cancels the workers and returns; logs still in the channel
  or in the hand of a worker are lost in an orderly shutdown.

Seen while modelling, without a run of their own: a request that ends before its
upstream call (no matching usage) is counted by `trackRequest` and never
released, so it counts as concurrent until the TTL of the counter ends it
(`CounterComesToRest` shows that it does end); and a check that runs when the
requests of the minute have ended compares their number with a threshold of
zero, so that a token can be blocked by fewer requests than the multiplier
allows for one (`TwoEscalationsBeforeBlock` is what remains true). A pipeline of
`IncrementFailure` that is sent again counts one timeout twice. One that is cut off
between its commands leaves a penalty without a TTL, which lasts until the next EXPIRE
for that client; `PenaltyFades` names this one exception. An INCR that
makes a bucket and is sent again returns 2, and the bucket never expires.
`writeProxyResponse` sets a header again for each of its values, so a client gets
only the last value of a header the upstream API sent several times, while the
log has the first; when the last value is empty the client does not get the header at
all. A reply without a type, which the sanitizer lets pass, reaches the client as
`application/octet-stream`, and the log has no type. `LogTellsTruth` claims no more than this:
what the log says of a header is what was answered (an empty value counts as no header), or both are values of a header
sent several times, or it is that added type. A log of an upstream error carries the whole reply, marked as
not truncated, with content length 0. The `Save` of `TransitionState` undoes what
the platform changed since `FindByID`, and makes a deleted token again. Usages are
neither ordered by their query nor compared by method, so of two templates that
match, which one is called depends on the order of the rows.

## 5. What is proved

`HRNQueueProofs` proves, from `HRNQueueAssumption` (requests are finite,
numbers are numbers, the timeout lies within the bound on ages), for every set
of requests, number of slots, priorities and timeout:

* `Invariance`: `Spec => []IInv`, where
  `IInv == TypeOK /\ Links /\ NoStaleWaiter /\ SlotConservation`.
  `SlotConservation` alone is not inductive: a `Release` that is about to
  complete a waiter must know that the waiter exists, is not in the heap any more
  and is in nobody else's hand, and a request that waits must have a waiter.
  `Links` says this: what each of `pc`, `heap`, `popped`, `answer` and `timer`
  implies about the others (`PopLink`, `WaiterLink`, `UnansweredLink`).
* `TypeCorrect`, `SlotsConserved`, `ReleaseDoesNotBlock`, `NoStaleWaiters`,
  `NoForgottenWaiters`: the types and the invariants of `hrn_queue`. That a finishing request
  finds room in the channel follows from conservation: the request itself owns a
  slot that is not in it.
* `AgeingNeverOvertakes`: `PriorityBeatsAgeing`, if two different priorities
  differ by more than `AgingRate * AcquireTimeout`. With the defaults a failure
  costs 0.2 and a wait of one second gains 0.1. TLC checks the instance of the
  defaults.
* `QueueKeepsContract`: `HRNQueue` implements `RequestQueue`. Each step maps to
  a step of the contract (`AcquireNow` to `Admit`, `CreateWaiter` to `Wait`,
  `Grant` to `HandOver`, `ReturnSlot` to `Release`, `GiveUp` to `Refuse`) or to a
  stutter.

Each invariant is preserved action by action; slots are counted with two lemmas
about the cardinality of a set that gains or loses one element.

`WaiterHeapProofs` proves, from `WaiterHeapAssumption` (keys are integers, the
sentinels are not waiters), for every set of waiters and keys:

* `Invariance`: `Spec => []IInv`, where
  `IInv == TypeOK /\ IndexAgrees /\ CallInRange`. `CallInRange` says where the
  call under way is: the sifted position lies below the limit, and while a waiter
  is to leave it stays parked behind it. Without this nothing keeps a `Swap`
  inside the array. This part holds however the readings of the clock differ.
* `TypeCorrect` and `IndexCorrect`. A swap, an append and a drop keep array and
  indices in agreement (`SwapAgrees`), whichever positions `Less` makes them
  choose.
* `HeapInvariance`: `Spec => []HeapInv`. `HeapOrdered` speaks of the moments
  between calls, so the proof needs what holds in the middle of one. `Sifted`:
  everything below the limit is in order but for the sifted waiter, which `up` may
  find above its parent and `down` above it or below its children. `Bridged`: its
  children may stand under its parent. Without `Bridged` a step could take the
  waiter out of the way and leave its children above whoever takes its place.
  `BestLink`: what a `Pop` has
  parked exceeds nobody that stays.
* `HeapStaysOrdered`: `HeapOrdered`. `HeapKeepsPromise`: `WaiterHeap` implements
  `WaiterPool` (`Push` to `Add`, `PopBest` and `Remove` to `Ask`, `Take` to `Take`;
  sifting is a stutter). That the root of an ordered heap is the best (`RootIsBest`)
  is an induction over positions, which the provers cannot make; the proof takes
  the smallest position that exceeds the root instead, and its parent is one more.
  With this, "a highest waiter", on which `HRNQueueProofs` rests, is what the array
  returns.

`SemaphoreQueueProofs` proves, from `SemaphoreQueueAssumption` (requests are
finite, the sentinel is not one of them), for every number of requests and slots:

* `Invariance`: `Spec => []IInv`, where
  `IInv == TypeOK /\ Distinct /\ Links /\ EnteredLink /\ OrderLink /\ SlotConservation`.
  `Links` are those of `HRNQueue`. `Distinct` (nobody is in the slice twice) is what
  makes removing a waiter remove it. `OrderLink` says that the slice is in the
  order of the history `entered` and that whoever a `Release` has taken out of it
  joined before all that are left; `EnteredLink` that the history names each waiter
  once, so that "before" means one thing.
* `TypeCorrect`, `SlotsConserved`, `NobodyIsLost`, `FirstComeFirstServed`
  (`ServedInLine`), `QueueKeepsContract` (`SemaphoreQueue` implements
  `RequestQueue`). What removal and `Tail` do to the places of a sequence is in the
  lemmas `RemoveTakesOut`, `PopTakesOut` and `OldPlaces`.

`QueueMiddlewareProofs` proves, from `QueueMiddlewareAssumption` (finite requests,
integer priorities, the missing token is no client), for any clients and slots:

* `Invariance`: `TypeOK` and six links. `StageLink`: the stage of `Handle` agrees
  with the status in the queue. `GoroutineLink`: only a refused request counts a
  failure. `RefusalLink`: the queue refuses whoever timed out or whose context was
  done. `CountLink` and `FailureLink`: whoever has sent a pipeline had timed out, and
  the failures in Redis are no more than the copies whose INCR was carried out.
  `PipeLink`: of copies that were never sent nothing is carried out. The invariants
  relate a number in Redis to what happened to requests that are long gone, and hold
  only with this chain.
* `TypeCorrect`: a priority is the fallback or lies between the floor and the base,
  for every count (`PriorityInRange`). `NobodyPunishedForLeaving`
  (`PenaltyIsEarned`), `NoSlotLeftBehind` (`SlotsEndWithHandlers`).

`TokenTrackingProofs` proves, from `TokenTrackingAssumption` (finite requests, a
multiplier and a bound on minutes in `Nat`), with and without faults and expiry:

* `Invariance`: `Spec => []IInv`, where `IInv == TypeOK /\ StartLink /\ StateLink
  /\ CounterLink /\ UndercountIsRepaired /\ BucketLink`. `StateLink`: a check goes on to save only what has a next
  state, and every WARNING in the row or in hand was written by a check that has
  ended, every BLOCKED by two. `CounterLink`: a counter without a TTL is negative,
  or an EXPIRE is still to come (unless a command failed). `BucketLink`: the same for
  a bucket. `StartLink`: goroutines start after their request, so that they are not
  taken for ones that have ended.
* `TypeCorrect`, `UndercountRepaired`, `KeysAreMortal` (`NoImmortalKey`),
  `TwoEscalations` (`TwoEscalationsBeforeBlock`).

`TokenAccessProofs` proves, from the assumptions of the two modules (TTLs and the
bound on versions in `Nat`; sentinels are no rows or requests), for any readers,
TTLs and number of changes of the row:

* `CacheInvariance`: types, and `Young`: for an entry, the ticks since its version
  was replaced and the ticks it has left add up to at most `RedisTTL`, in L1 to at
  most `LocalTTL + RedisTTL`; and what a reader or a background write has in hand is
  as fresh as what it was read from. The bound on what is read says nothing about
  entries, and one that is fresh enough now is not when it is read later; the sum
  with the time left is what every step, the tick included, preserves.
* `ReadsAreFresh`: `BoundedStaleness` of `TwoLevelCache`. `AccessUsesCache`:
  `AccessSpec => Spec`, so that it holds of `TokenAccess` as well (`AccessIsFresh`).
* `AccessInvariance` adds that every version held anywhere is one in which the
  token existed, since a missing row is not cached and the past does not change.
  `CallsFollowRow`: `AccessFollowsRow`.

`LogPublisherProofs` proves, from `ExchangeAssumption`, `LogPublisherAssumption`
and `ContentAssumption` (bodies are sequences of the five kinds of byte, every header
of a request or reply has a value, and the letters of a value of a request are named apart), for any logs, workers, size of the buffer
and limits:

* `Invariance`: `TypeOK`; `PlaceLink` (no log is in the channel twice or in two
  hands, and only one whose handler has published is anywhere); `StopLink` (a worker
  stops with empty hands, and after a graceful shutdown with an empty channel, into
  which nobody writes any more); `ExchangeLink`.
* `OnePlaceForEachLog` (`EveryLogInOnePlace`), `StoppedAreDrained`
  (`DrainedWhenStopped`), `TypeCorrect`, and `PublisherIsSink`: `LogPublisher`
  implements `LogSink`.
* `LogsTellTruth`, `LogsHideCredentials`: `LogTellsTruth` and
  `CredentialsAreMasked`, not for the exchanges of the run but for all. They rest on
  `TruncateTells`: for every body that is text, what `TruncateBody` keeps ends between
  two runes, at most three bytes below the limit. Such a place exists because a rune
  has at most four bytes (`RuneBoundary`); that there is a last one would be an
  induction, and is proved with a well-founded order instead (`LargestExists`). That
  the headers of log and answer agree is `EveryHeaderAgrees`. A header with an
  empty value has nothing to hide and is not claimed.

`RequestPathProofs` proves, from `RequestPathAssumption` and
`RequesterAssumption` (requests are finite, refused names are domains, the
sentinel is not a request), for every set of requests and domains, every
number of slots and every mix of inputs:

* `Invariance`: `Spec => []IInv`, where
  `IInv == TypeOK /\ Queue!InflightBound /\ UpstreamLinks /\ PathLinks`. What
  the run checks is not inductive, because it relates what a request shares
  with others (slot, client, verdict, counter, answer) without saying where the
  request is. The links do: a request with a token is in a handler only with a
  slot (`SlotLink`), a call is in flight only while its handler waits for it
  (`CallLink`), a good verdict in the cache or in hand was found by a lookup
  (`LookupLink`), a handler that runs has not written (`AnswerLink`), and a
  proxied request between its lookup and the end of its call is counted
  (`CountLink`, which must know that the health check does not proxy).
  Even the types need a link: the answer is one of the codes because `Request`
  has returned a result when the pipeline publishes.
* `UpstreamLimited`: `UpstreamBounded`. The calls of requests with a token are a
  subset of the admitted requests, whose number the contract bounds
  (`QueueBoundStep`, proved of every step of `RequestQueue`; `QueueStep` shows
  that the path takes no others).
* `TypeCorrect`, `NoUncountedCall`, `ClientsAreShared`, `CallsAreVouched`,
  `NoSecondAnswer`: the other invariants and the action property of
  `request_path`.

The path is proved over the contract of the queue, and `QueueKeepsContract`
proves the contract of the queue that is built.

Only model-checked: the liveness properties `AcquireReturns`, `QueueComesToRest`,
`PenaltyFades`, `EveryRequestEnds`, `DomainRecovers`, `CounterComesToRest`,
`BufferedIsSettled` and `SignalEndsProcess` (fairness and ENABLED are beyond the
proof system), and the four disagreements of section 4, which are counterexamples.
`AgeingNeverOvertakes` has a hypothesis on the parameters, which the defaults
satisfy.

## 6. What is not modelled, and why

Floating point; connection pools inside the client libraries; restarts of Redis
or MySQL. bcrypt is equality of secrets, regular expressions are the match of
path segments: a template with other special characters than `{param}` is not
considered. `normalize` is the identity on origins that are normalized. The CORS
middleware and the fields of a log that are copied from the request have nothing
to get wrong that a property could tell. `ResetFailure` has no caller.
Configuration loading and the wiring in `main` have no behaviour to check after
start. The write deadline of the server (35 s) would need a clock common to the
queue and the request path.

## 7. Plan

The modules that were planned are written, and what TLC checks of safety is proved.
Left: the same bound as in `AgeingNeverOvertakes` for parameters under which age may
win, which would say by how much; for `RequestPath`, the proof that its queue may be
replaced by `HRNQueue` in one composed module, rather than by the two theorems about
the contract; and a bound on the order of the heap when the readings of the clock
differ, if there is one within a single call.
