--------------------------- MODULE QueueMiddleware ---------------------------
(***************************************************************************)
(* internal/middleware/queue_middleware.go with the PriorityService of     *)
(* internal/queue/priority_service.go, in front of any queue that keeps    *)
(* the contract RequestQueue (HRNQueue does, see HRNQueueProofs).          *)
(*                                                                         *)
(* A request that waits in vain is answered 429, and a goroutine nobody    *)
(* waits for adds a failure to the count of its client in Redis, with a    *)
(* pipeline of INCR and EXPIRE.  That goroutine is given the context of    *)
(* the request, which net/http cancels as soon as the handler has          *)
(* returned; commands of a cancelled context are not sent.  go-redis       *)
(* sends a pipeline again when it gets no answer, and Redis may carry out  *)
(* the copies of it in any order, each to its end, in part or not at all.  *)
(***************************************************************************)
EXTENDS Integers, FiniteSets

CONSTANTS Requests,
          Clients,            \* values of the header bssm-dev-token
          NoToken,            \* sentinel: the header is missing
          MaxInflight,
          BasePriority,       \* queue.base_priority
          PriorityIncrement,  \* queue.priority_increment
          MaxPriority,        \* queue.max_priority
          FallbackPriority,   \* the 1.0 that Handle uses when Redis fails
          MaxTries,           \* how often go-redis sends a pipeline at most
          MaxFaults           \* bound: faults of Redis and of its connections
                              \* while failures are counted

ASSUME QueueMiddlewareAssumption ==
  /\ IsFiniteSet(Requests)
  /\ NoToken \notin Clients
  /\ MaxInflight \in Nat
  /\ BasePriority \in Int /\ FallbackPriority \in Int
  /\ PriorityIncrement \in Nat /\ MaxPriority \in Nat
  /\ MaxTries \in Nat \ {0}
  /\ MaxFaults \in Nat

VARIABLES
  status,     \* the status of each request in the queue
  client,     \* the client of each request
  stage,      \* where Handle is
  priority,   \* the priority each request was given, until Acquire has it
  failures,   \* value of proxy:queue:failure:<client>, 0 when absent
  lifetime,   \* of that key: "absent", "persistent" or "expiring"
  increment,  \* where the goroutine that counts the failure is
  tries,      \* how often it has sent its pipeline
  pipe,       \* what Redis has made of each copy: "none" of it, not yet any of
              \* it ("sent"), "incremented" with EXPIRE to come, "done", or
              \* "cut" when only INCR was carried out
  faults,     \* history: how many faults there were
  timedOut,   \* requests whose timeout has passed in the queue
  gone,       \* requests whose client has disconnected
  cancelled   \* requests whose context is done

redis    == <<failures, lifetime>>
counting == <<increment, tries, pipe, faults>>
vars == <<status, client, stage, priority, redis, counting, timedOut, gone, cancelled>>

Tries == 1..MaxTries

Queue == INSTANCE RequestQueue

-----------------------------------------------------------------------------
Init ==
  /\ Queue!Init
  /\ client \in [Requests -> Clients \cup {NoToken}]
  /\ stage = [r \in Requests |-> "arrived"]
  /\ priority = [r \in Requests |-> BasePriority]
  /\ failures = [c \in Clients |-> 0]
  /\ lifetime = [c \in Clients |-> "absent"]
  /\ increment = [r \in Requests |-> "off"]
  /\ tries = [r \in Requests |-> 0]
  /\ pipe = [r \in Requests |-> [k \in Tries |-> "none"]]
  /\ faults = 0
  /\ timedOut = {} /\ gone = {} /\ cancelled = {}

Goto(r, l) == stage' = [stage EXCEPT ![r] = l]

\* Mutant of CalculatePriority: the priority has no floor.
CalculateUnclamped(count) == BasePriority - count * PriorityIncrement

\* The more failures, the lower the priority, down to a floor.
CalculatePriority(count) ==
  LET p == BasePriority - count * PriorityIncrement
  IN  IF p < BasePriority - MaxPriority THEN BasePriority - MaxPriority ELSE p

-----------------------------------------------------------------------------
\* Handle.

\* Requests without a token (health checks) do not go through the queue.
Bypass(r) ==
  /\ stage[r] = "arrived"
  /\ client[r] = NoToken
  /\ Goto(r, "answered")
  /\ UNCHANGED <<status, client, priority, redis, counting, timedOut, gone, cancelled>>

\* GetPriority, or the fallback when Redis answers with an error.
LookUpPriority(r) ==
  /\ stage[r] = "arrived"
  /\ client[r] # NoToken
  /\ \E p \in {CalculatePriority(failures[client[r]]), FallbackPriority} :
       priority' = [priority EXCEPT ![r] = p]
  /\ Goto(r, "acquiring")
  /\ UNCHANGED <<status, client, redis, counting, timedOut, gone, cancelled>>

\* Acquire returns true at once.
AcquireAtOnce(r) ==
  /\ stage[r] = "acquiring"
  /\ Queue!Admit(r)
  /\ Goto(r, "serving")
  /\ priority' = [priority EXCEPT ![r] = BasePriority]
  /\ UNCHANGED <<client, redis, counting, timedOut, gone, cancelled>>

\* Acquire waits.
WaitForSlot(r) ==
  /\ stage[r] = "acquiring"
  /\ Queue!Wait(r)
  /\ Goto(r, "queued")
  /\ priority' = [priority EXCEPT ![r] = BasePriority]
  /\ UNCHANGED <<client, redis, counting, timedOut, gone, cancelled>>

\* Mutant of ReceiveSlot: a request that is cancelled by now is just dropped.
ReceiveUnlessCancelled(r) ==
  /\ stage[r] = "queued"
  /\ status[r] = "admitted"
  /\ Goto(r, IF r \in cancelled THEN "answered" ELSE "serving")
  /\ UNCHANGED <<status, client, priority, redis, counting, timedOut, gone, cancelled>>

\* Acquire returns true after a wait, even if the client is gone by now.
ReceiveSlot(r) ==
  /\ stage[r] = "queued"
  /\ status[r] = "admitted"
  /\ Goto(r, "serving")
  /\ UNCHANGED <<status, client, priority, redis, counting, timedOut, gone, cancelled>>

\* Inside Acquire: the timeout passes.
TimeOut(r) ==
  /\ stage[r] = "queued"
  /\ Queue!Refuse(r)
  /\ timedOut' = timedOut \cup {r}
  /\ UNCHANGED <<client, stage, priority, redis, counting, gone, cancelled>>

\* Inside Acquire: the context is done.
NoticeCancel(r) ==
  /\ stage[r] = "queued"
  /\ r \in cancelled
  /\ Queue!Refuse(r)
  /\ UNCHANGED <<client, stage, priority, redis, counting, timedOut, gone, cancelled>>

\* Acquire returns false: go IncrementFailure, answer 429.
Refuse429(r) ==
  /\ stage[r] = "queued"
  /\ status[r] = "refused"
  /\ increment' = [increment EXCEPT ![r] = "started"]
  /\ Goto(r, "answered")
  /\ UNCHANGED <<status, client, priority, redis, tries, pipe, faults, timedOut, gone, cancelled>>

\* The handler chain ends, by returning or by a panic; the deferred Release runs.
Serve(r) ==
  /\ stage[r] = "serving"
  /\ Queue!Release(r) \/ \E w \in Requests : Queue!HandOver(r, w)
  /\ Goto(r, "answered")
  /\ UNCHANGED <<client, priority, redis, counting, timedOut, gone, cancelled>>

-----------------------------------------------------------------------------
\* net/http.

\* The client disconnects while its request is being handled.
Disconnect(r) ==
  /\ stage[r] # "answered"
  /\ r \notin cancelled
  /\ gone' = gone \cup {r}
  /\ cancelled' = cancelled \cup {r}
  /\ UNCHANGED <<status, client, stage, priority, redis, counting, timedOut>>

\* The handler has returned: the server cancels the context, which only the
\* counting goroutine can still notice.
EndRequest(r) ==
  /\ increment[r] \in {"started", "waiting"}
  /\ r \notin cancelled
  /\ cancelled' = cancelled \cup {r}
  /\ UNCHANGED <<status, client, stage, priority, redis, counting, timedOut, gone>>

-----------------------------------------------------------------------------
\* IncrementFailure, at the side of the goroutine.

Fault == faults < MaxFaults /\ faults' = faults + 1

\* Exec gets an error: that of a copy which was lost or refused, or else a new
\* fault, a connection that breaks or a reply that is late.
Error(r) == IF pipe[r][tries[r]] \in {"none", "cut"} THEN UNCHANGED faults ELSE Fault

\* Mutant of Send: the goroutine has a context of its own.
SendAlways(r) ==
  /\ increment[r] = "started"
  /\ tries[r] < MaxTries
  /\ tries' = [tries EXCEPT ![r] = @ + 1]
  /\ pipe' = [pipe EXCEPT ![r][tries[r] + 1] = "sent"]
  /\ increment' = [increment EXCEPT ![r] = "waiting"]
  /\ UNCHANGED <<status, client, stage, priority, redis, faults, timedOut, gone, cancelled>>

\* Exec sends INCR and EXPIRE on a connection, unless the context is done.
Send(r) ==
  /\ increment[r] = "started"
  /\ r \notin cancelled
  /\ tries[r] < MaxTries
  /\ tries' = [tries EXCEPT ![r] = @ + 1]
  /\ pipe' = [pipe EXCEPT ![r][tries[r] + 1] = "sent"]
  /\ increment' = [increment EXCEPT ![r] = "waiting"]
  /\ UNCHANGED <<status, client, stage, priority, redis, faults, timedOut, gone, cancelled>>

\* The replies to the last copy arrive; go-redis does not try again because of an
\* EXPIRE that was refused.
ReadReplies(r) ==
  /\ increment[r] = "waiting"
  /\ pipe[r][tries[r]] \in {"done", "cut"}
  /\ increment' = [increment EXCEPT ![r] = "counted"]
  /\ UNCHANGED <<status, client, stage, priority, redis, tries, pipe, faults,
                 timedOut, gone, cancelled>>

\* go-redis goes back to sending, whatever Redis has made of the last copy or may
\* still make of it.
TryAgain(r) ==
  /\ increment[r] = "waiting"
  /\ tries[r] < MaxTries
  /\ Error(r)
  /\ increment' = [increment EXCEPT ![r] = "started"]
  /\ UNCHANGED <<status, client, stage, priority, redis, tries, pipe, timedOut, gone, cancelled>>

\* The error of Exec is ignored: the context is done before a connection is taken
\* for the first or another try, there is no connection, or no other try is made.
IncrementFails(r) ==
  /\ \/ increment[r] = "started" /\ r \in cancelled /\ UNCHANGED faults
     \/ increment[r] = "started" /\ r \notin cancelled /\ Fault
     \/ increment[r] = "waiting" /\ Error(r)
  /\ increment' = [increment EXCEPT ![r] = "lost"]
  /\ UNCHANGED <<status, client, stage, priority, redis, tries, pipe, timedOut, gone, cancelled>>

-----------------------------------------------------------------------------
\* Redis and the k-th copy of the pipeline of r, which may still be carried out
\* when the goroutine no longer waits for it.  Other commands may come between
\* its INCR and its EXPIRE.

\* Mutant of Increment: the pipeline has no EXPIRE.
IncrementOnly(r, k) ==
  /\ pipe[r][k] = "sent"
  /\ failures' = [failures EXCEPT ![client[r]] = @ + 1]
  /\ lifetime' = [lifetime EXCEPT ![client[r]] = IF @ = "absent" THEN "persistent" ELSE @]
  /\ pipe' = [pipe EXCEPT ![r][k] = "done"]
  /\ UNCHANGED <<status, client, stage, priority, increment, tries, faults,
                 timedOut, gone, cancelled>>

\* INCR; it makes a key without a TTL when there is none.
Increment(r, k) ==
  /\ pipe[r][k] = "sent"
  /\ failures' = [failures EXCEPT ![client[r]] = @ + 1]
  /\ lifetime' = [lifetime EXCEPT ![client[r]] = IF @ = "absent" THEN "persistent" ELSE @]
  /\ pipe' = [pipe EXCEPT ![r][k] = "incremented"]
  /\ UNCHANGED <<status, client, stage, priority, increment, tries, faults,
                 timedOut, gone, cancelled>>

\* What EXPIRE makes of the lifetime of a key.
Expiring(life) == IF life = "absent" THEN "absent" ELSE "expiring"

Expire(r, k) ==
  /\ pipe[r][k] = "incremented"
  /\ lifetime' = [lifetime EXCEPT ![client[r]] = Expiring(@)]
  /\ pipe' = [pipe EXCEPT ![r][k] = "done"]
  /\ UNCHANGED <<status, client, stage, priority, failures, increment, tries, faults,
                 timedOut, gone, cancelled>>

\* The connection breaks before INCR, or Redis refuses it, with EXPIRE or without.
IncrementRefused(r, k) ==
  /\ Fault
  /\ pipe[r][k] = "sent"
  /\ \E life \in {lifetime[client[r]], Expiring(lifetime[client[r]])} :
       lifetime' = [lifetime EXCEPT ![client[r]] = life]
  /\ pipe' = [pipe EXCEPT ![r][k] = "none"]
  /\ UNCHANGED <<status, client, stage, priority, failures, increment, tries,
                 timedOut, gone, cancelled>>

\* The connection breaks after INCR, or Redis refuses EXPIRE.
ExpireRefused(r, k) ==
  /\ Fault
  /\ pipe[r][k] = "incremented"
  /\ pipe' = [pipe EXCEPT ![r][k] = "cut"]
  /\ UNCHANGED <<status, client, stage, priority, redis, increment, tries,
                 timedOut, gone, cancelled>>

\* failureKeyTTL has passed since the last failure of the client.
FailuresExpire(c) ==
  /\ lifetime[c] = "expiring"
  /\ failures' = [failures EXCEPT ![c] = 0]
  /\ lifetime' = [lifetime EXCEPT ![c] = "absent"]
  /\ UNCHANGED <<status, client, stage, priority, counting, timedOut, gone, cancelled>>

\* Every request is answered and over, and of its goroutine and pipelines nothing
\* is left to do.
AllAnswered ==
  /\ \A r \in Requests : /\ stage[r] = "answered"
                         /\ increment[r] \in {"off", "counted", "lost"}
                         /\ \A k \in Tries : pipe[r][k] \in {"none", "done", "cut"}
  /\ UNCHANGED vars

-----------------------------------------------------------------------------
Handle(r) ==
  \/ Bypass(r) \/ LookUpPriority(r)
  \/ AcquireAtOnce(r) \/ WaitForSlot(r) \/ ReceiveSlot(r)
  \/ TimeOut(r) \/ NoticeCancel(r) \/ Refuse429(r)
  \/ Serve(r)

IncrementFailure(r) ==
  Send(r) \/ ReadReplies(r) \/ TryAgain(r) \/ IncrementFails(r)

Redis(r, k) ==
  Increment(r, k) \/ Expire(r, k) \/ IncrementRefused(r, k) \/ ExpireRefused(r, k)

Next ==
  \/ \E r \in Requests : \/ Handle(r) \/ IncrementFailure(r)
                         \/ Disconnect(r) \/ EndRequest(r)
                         \/ \E k \in Tries : Redis(r, k)
  \/ \E c \in Clients : FailuresExpire(c)
  \/ AllAnswered

Spec == Init /\ [][Next]_vars

\* What was sent to Redis is carried out or lost, and a key with a TTL expires.
\* Nothing is asked of handlers and goroutines: one that stops sends no more.
FairSpec ==
  /\ Spec
  /\ \A r \in Requests, k \in Tries : WF_vars(Redis(r, k))
  /\ \A c \in Clients : WF_vars(FailuresExpire(c))

-----------------------------------------------------------------------------
TypeOK ==
  /\ Queue!TypeOK
  /\ client \in [Requests -> Clients \cup {NoToken}]
  /\ stage \in [Requests -> {"arrived", "acquiring", "queued", "serving", "answered"}]
  /\ priority \in [Requests -> (BasePriority - MaxPriority)..BasePriority
                                 \cup {FallbackPriority}]
  /\ failures \in [Clients -> Nat]
  /\ lifetime \in [Clients -> {"absent", "persistent", "expiring"}]
  /\ increment \in [Requests -> {"off", "started", "waiting", "counted", "lost"}]
  /\ tries \in [Requests -> 0..MaxTries]
  /\ faults \in 0..MaxFaults
  /\ pipe \in [Requests -> [Tries -> {"none", "sent", "incremented", "done", "cut"}]]
  /\ timedOut \in SUBSET Requests
  /\ gone \in SUBSET cancelled
  /\ cancelled \in SUBSET Requests

\* The failures counted against a client are timeouts of its own requests, once
\* for each time that the pipeline of one was sent: a timeout counts twice only
\* when go-redis has sent its pipeline twice, and a client that disconnects while
\* it waits is not punished for it, however the disconnect, the timeout, the
\* counting goroutine and copies of pipelines that are late race.
Penalties(c) ==
  {t \in timedOut \X Tries : client[t[1]] = c /\ t[2] <= tries[t[1]]}

PenaltyIsEarned == \A c \in Clients : failures[c] <= Cardinality(Penalties(c))

\* No handler ends while its request owns a slot, also not that of a request
\* which was handed a slot after its client had gone; and only a request that
\* owns one is served.
SlotsEndWithHandlers ==
  \A r \in Requests :
    /\ stage[r] = "answered" => status[r] \in {"idle", "refused", "released"}
    /\ stage[r] = "serving" => status[r] = "admitted"

\* A penalty does not stay for good: in the end the count of every client is
\* gone from Redis, unless its key was left without a TTL because the EXPIRE of
\* one of its pipelines was lost and no later one has made up for it.
CutShort(c) ==
  /\ lifetime[c] = "persistent"
  /\ \E r \in Requests, k \in Tries : client[r] = c /\ pipe[r][k] = "cut"

PenaltyFades == \A c \in Clients : []<>(failures[c] = 0 \/ CutShort(c))

\* "Timeout: increase the number of failures (asynchronously)": when the
\* counting goroutine of a request that timed out has ended, and the client had
\* not disconnected, the failure is counted.
TimeoutIsCounted ==
  \A r \in timedOut \ gone : increment[r] # "lost"

=============================================================================
