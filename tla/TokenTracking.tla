---------------------------- MODULE TokenTracking ----------------------------
(***************************************************************************)
(* How the pipeline tracks the requests of one API token and escalates the *)
(* state of the token: internal/domain/api/service/pipeline.go,            *)
(* redis_rate_limiter.go, token_state_service.go and model/api_token.go.   *)
(*                                                                         *)
(* Execute starts two goroutines that nobody waits for: trackRequest when  *)
(* the token has been accepted, and releaseRequest when the upstream call  *)
(* has returned.  Each Redis command and each database query is atomic,    *)
(* and between two of them anything may happen: the other goroutines run,  *)
(* the minute ends, a key expires.  Tokens share no key and no row, so one *)
(* token is enough.  What a goroutine has found (loaded, keyed, threshold) is   *)
(* forgotten when it is no longer used, and the cached copy of the token   *)
(* when no request is left to read it.                                     *)
(***************************************************************************)
EXTENDS Integers, FiniteSets

CONSTANTS Requests,             \* the requests made with the token
          ThresholdMultiplier,  \* rate_limit.threshold_multiplier
          MaxMinute,            \* bound: minutes 0..MaxMinute are modelled
          Faulty,               \* whether Redis and MySQL commands may fail,
                                \* or a reply of Redis be lost
          MayExpire             \* whether concurrentTTL (10 s) may run out

ASSUME TokenTrackingAssumption ==
  /\ IsFiniteSet(Requests)
  /\ ThresholdMultiplier \in Nat
  /\ MaxMinute \in Nat
  /\ Faulty \in BOOLEAN
  /\ MayExpire \in BOOLEAN

VARIABLES
  pc,          \* where Execute is, for each request
  track,       \* where trackRequest is
  release,     \* where releaseRequest is
  cached,      \* the state in the cached copy of the token, or "none"
  dbState,     \* api_token.state
  loaded,      \* the state that FindByID of a check has returned
  concurrent,  \* value of api:concurrent:<id>, 0 when there is no such key
  lifetime,    \* of that key: "absent", "persistent" (no TTL) or "expiring"
  minute,      \* the wall clock
  buckets,     \* value of api:ratelimit:<id>:<minute>, 0 when absent
  mortal,      \* the minutes whose bucket has a TTL
  keyed,       \* the earliest minute the next bucket key can name
  threshold,   \* what a check makes of the count GetConcurrent returned to it
  fault        \* history: "none", "resent" when a command was sent twice, or
               \* "failed" when one has failed

execVars  == <<pc, cached>>
stateVars == <<dbState, loaded>>
counter   == <<concurrent, lifetime>>
environs  == <<minute, fault>>
perMinute == <<buckets, mortal, keyed>>
vars == <<execVars, track, release, stateVars, counter, environs, perMinute, threshold>>

Minutes == 0..MaxMinute

-----------------------------------------------------------------------------
Init ==
  /\ pc = [r \in Requests |-> "new"]
  /\ track = [r \in Requests |-> "off"]
  /\ release = [r \in Requests |-> "off"]
  /\ cached = "none"
  /\ dbState = "NORMAL"
  /\ loaded = [r \in Requests |-> "NORMAL"]
  /\ concurrent = 0
  /\ lifetime = "absent"
  /\ minute = 0
  /\ fault = "none"
  /\ buckets = [m \in Minutes |-> 0]
  /\ mortal = {}
  /\ keyed = [r \in Requests |-> 0]
  /\ threshold = [r \in Requests |-> 0]

-----------------------------------------------------------------------------
\* Execute.

\* The copy of the token in the cache: a miss fills it from the row, and it is
\* kept for the requests still to come.
Lookup == IF cached = "none" THEN dbState ELSE cached
Kept(r, state) == IF \E q \in Requests \ {r} : pc[q] = "new" THEN state ELSE "none"

\* The token is not found, its access is refused, or it is seen as BLOCKED.
Reject(r) ==
  /\ pc[r] = "new"
  /\ pc' = [pc EXCEPT ![r] = "ended"]
  /\ cached' \in {Kept(r, cached), Kept(r, Lookup)}
  /\ UNCHANGED <<track, release, stateVars, counter, environs, perMinute, threshold>>

\* The token, cached or fresh, is accepted: go p.trackRequest.
Accept(r) ==
  /\ pc[r] = "new"
  /\ Lookup # "BLOCKED"
  /\ cached' = Kept(r, Lookup)
  /\ pc' = [pc EXCEPT ![r] = "lookup"]
  /\ track' = [track EXCEPT ![r] = "increment"]
  /\ UNCHANGED <<release, stateVars, counter, environs, perMinute, threshold>>

\* FindByTokenAndEndpoint finds the usage; the upstream call starts.
UsageFound(r) ==
  /\ pc[r] = "lookup"
  /\ pc' = [pc EXCEPT ![r] = "calling"]
  /\ UNCHANGED <<track, release, cached, stateVars, counter, environs, perMinute, threshold>>

\* No usage matches, or the lookup fails: Execute returns, releasing nothing.
UsageMissing(r) ==
  /\ pc[r] = "lookup"
  /\ pc' = [pc EXCEPT ![r] = "ended"]
  /\ UNCHANGED <<track, release, cached, stateVars, counter, environs, perMinute, threshold>>

\* The upstream call returns a response or an error: go p.releaseRequest.
Respond(r) ==
  /\ pc[r] = "calling"
  /\ pc' = [pc EXCEPT ![r] = "ended"]
  /\ release' = [release EXCEPT ![r] = "decrement"]
  /\ UNCHANGED <<track, cached, stateVars, counter, environs, perMinute, threshold>>

-----------------------------------------------------------------------------
\* trackRequest: IncrementConcurrent, IncrementAndGet, CheckAndUpdateState.

\* A command that finds no key makes one without a TTL.
Touched == IF lifetime = "absent" THEN "persistent" ELSE lifetime

\* Mutant of IncrementConcurrent: the key is never given a TTL.
IncrementUnexpiring(r) ==
  /\ track[r] \in {"increment", "incrementAgain"}
  /\ concurrent' = concurrent + 1
  /\ lifetime' = Touched
  /\ track' = [track EXCEPT ![r] = "count"]
  /\ keyed' = [keyed EXCEPT ![r] = minute]
  /\ UNCHANGED <<execVars, release, stateVars, environs, buckets, mortal, threshold>>

IncrementConcurrent(r) ==
  /\ track[r] \in {"increment", "incrementAgain"}
  /\ concurrent' = concurrent + 1
  /\ lifetime' = Touched
  /\ track' = [track EXCEPT ![r] = "expire"]
  /\ UNCHANGED <<execVars, release, stateVars, environs, perMinute, threshold>>

ExpireConcurrent(r) ==
  /\ track[r] = "expire"
  /\ lifetime' = IF lifetime = "absent" THEN "absent" ELSE "expiring"
  /\ track' = [track EXCEPT ![r] = "count"]
  /\ keyed' = [keyed EXCEPT ![r] = minute]
  /\ UNCHANGED <<execVars, release, stateVars, concurrent, environs, buckets, mortal, threshold>>

\* INCR on the bucket of the minute that bucketKey saw; only the request that
\* creates the bucket goes on to give it a TTL, under the same key.
IncrementAndGet(r) ==
  /\ track[r] = "count"
  /\ \E m \in keyed[r]..minute :
       /\ buckets' = [buckets EXCEPT ![m] = @ + 1]
       /\ \/ /\ buckets[m] = 0
             /\ track' = [track EXCEPT ![r] = "expireBucket"]
             /\ keyed' = [keyed EXCEPT ![r] = m]
          \/ /\ buckets[m] > 0
             /\ track' = [track EXCEPT ![r] = "readConcurrent"]
             /\ keyed' = [keyed EXCEPT ![r] = 0]
  /\ UNCHANGED <<execVars, release, stateVars, counter, environs, mortal, threshold>>

\* INCR sent again, on the same bucket, which exists by now: no TTL for it.
IncrementAgain(r) ==
  /\ track[r] = "countAgain"
  /\ buckets' = [buckets EXCEPT ![keyed[r]] = @ + 1]
  /\ track' = [track EXCEPT ![r] = "readConcurrent"]
  /\ keyed' = [keyed EXCEPT ![r] = 0]
  /\ UNCHANGED <<execVars, release, stateVars, counter, environs, mortal, threshold>>

ExpireBucket(r) ==
  /\ track[r] = "expireBucket"
  /\ mortal' = mortal \cup {keyed[r]}
  /\ track' = [track EXCEPT ![r] = "readConcurrent"]
  /\ keyed' = [keyed EXCEPT ![r] = 0]
  /\ UNCHANGED <<execVars, release, stateVars, counter, environs, buckets, threshold>>

\* GET on the counter.  The threshold the check will make of the count is kept in
\* its place.
GetConcurrent(r) ==
  /\ track[r] = "readConcurrent"
  /\ threshold' = [threshold EXCEPT ![r] = concurrent * ThresholdMultiplier]
  /\ track' = [track EXCEPT ![r] = "readBucket"]
  /\ keyed' = [keyed EXCEPT ![r] = minute]
  /\ UNCHANGED <<execVars, release, stateVars, counter, environs, buckets, mortal>>

\* The bucket of the minute it is by now is read, and compared with the
\* threshold.
CheckAndUpdateState(r) ==
  /\ track[r] = "readBucket"
  /\ \E m \in keyed[r]..minute :
       track' = [track EXCEPT ![r] =
                   IF buckets[m] > 0 /\ buckets[m] > threshold[r]
                   THEN "load" ELSE "done"]
  /\ threshold' = [threshold EXCEPT ![r] = 0]
  /\ keyed' = [keyed EXCEPT ![r] = 0]
  /\ UNCHANGED <<execVars, release, stateVars, counter, environs, buckets, mortal>>

\* Mutant of TransitionToNextState: the warning is skipped.
BlockAtOnce(s) == IF s = "BLOCKED" THEN "" ELSE "BLOCKED"

\* ApiToken.TransitionToNextState; "" is no transition.  A row whose state is
\* empty is one in state NORMAL.
TransitionToNextState(s) ==
  IF s = "NORMAL" THEN "WARNING" ELSE IF s = "WARNING" THEN "BLOCKED" ELSE ""

\* TransitionState: FindByID, and nothing more if the token is BLOCKED.
LoadState(r) ==
  /\ track[r] = "load"
  /\ \/ /\ TransitionToNextState(dbState) = ""
        /\ track' = [track EXCEPT ![r] = "done"]
        /\ UNCHANGED loaded
     \/ /\ TransitionToNextState(dbState) # ""
        /\ track' = [track EXCEPT ![r] = "save"]
        /\ loaded' = [loaded EXCEPT ![r] = dbState]
  /\ UNCHANGED <<execVars, release, dbState, counter, environs, perMinute, threshold>>

\* TransitionState: Save writes the row as it was loaded, but for the state.
SaveState(r) ==
  /\ track[r] = "save"
  /\ dbState' = TransitionToNextState(loaded[r])
  /\ loaded' = [loaded EXCEPT ![r] = "NORMAL"]
  /\ track' = [track EXCEPT ![r] = "escalated"]
  /\ UNCHANGED <<execVars, release, counter, environs, perMinute, threshold>>

-----------------------------------------------------------------------------
\* releaseRequest: DecrementConcurrent.

\* Mutant of Decrement: off by one in the test for a negative count.
DecrementOffByOne(r) ==
  /\ release[r] \in {"decrement", "decrementAgain"}
  /\ concurrent' = concurrent - 1
  /\ lifetime' = Touched
  /\ release' = [release EXCEPT ![r] = IF concurrent < 0 THEN "clamp" ELSE "done"]
  /\ UNCHANGED <<execVars, track, stateVars, environs, perMinute, threshold>>

Decrement(r) ==
  /\ release[r] \in {"decrement", "decrementAgain"}
  /\ concurrent' = concurrent - 1
  /\ lifetime' = Touched
  /\ release' = [release EXCEPT ![r] = IF concurrent <= 0 THEN "clamp" ELSE "done"]
  /\ UNCHANGED <<execVars, track, stateVars, environs, perMinute, threshold>>

\* Mutant of Clamp: SET without a TTL, which takes away the one there was.
ClampForGood(r) ==
  /\ release[r] = "clamp"
  /\ concurrent' = 0
  /\ lifetime' = "persistent"
  /\ release' = [release EXCEPT ![r] = "done"]
  /\ UNCHANGED <<execVars, track, stateVars, environs, perMinute, threshold>>

\* The count was negative: SET 0 with a TTL.
Clamp(r) ==
  /\ release[r] = "clamp"
  /\ concurrent' = 0
  /\ lifetime' = "expiring"
  /\ release' = [release EXCEPT ![r] = "done"]
  /\ UNCHANGED <<execVars, track, stateVars, environs, perMinute, threshold>>

-----------------------------------------------------------------------------
\* Redis, the clock and the cache.

\* concurrentTTL has passed since the last EXPIRE or SET.
ConcurrentExpires ==
  /\ MayExpire
  /\ lifetime = "expiring"
  /\ lifetime' = "absent"
  /\ concurrent' = 0
  /\ UNCHANGED <<execVars, track, release, stateVars, environs, perMinute, threshold>>

NextMinute ==
  /\ minute < MaxMinute
  /\ minute' = minute + 1
  /\ UNCHANGED <<execVars, track, release, stateVars, counter, perMinute, threshold, fault>>

\* The cached copy of the token outlives its TTLs.
CacheExpires ==
  /\ cached # "none"
  /\ cached' = "none"
  /\ UNCHANGED <<pc, track, release, stateVars, counter, environs, perMinute, threshold>>

\* Where trackRequest goes on when a command fails: errors of IncrementConcurrent
\* are logged, those of EXPIRE are not looked at, all others end it.
AfterFailure(l) ==
  IF l \in {"increment", "incrementAgain", "expire"} THEN "count"
  ELSE IF l = "expireBucket" THEN "readConcurrent"
  ELSE "done"

\* A command of trackRequest fails and changes nothing.  (One that is carried
\* out while its reply is lost for good has the outcome of that command followed
\* by the failure of the next.)
TrackCommandFails(r) ==
  /\ Faulty /\ fault # "resent"
  /\ track[r] \notin {"off", "done", "escalated"}
  /\ track' = [track EXCEPT ![r] = AfterFailure(@)]
  /\ keyed' = [keyed EXCEPT ![r] = IF AfterFailure(track[r]) = "count" THEN minute ELSE 0]
  /\ threshold' = [threshold EXCEPT ![r] = 0]
  /\ loaded' = [loaded EXCEPT ![r] = "NORMAL"]
  /\ fault' = "failed"
  /\ UNCHANGED <<execVars, release, dbState, counter, minute, buckets, mortal>>

\* DECR or SET fails: releaseRequest ends.
ReleaseCommandFails(r) ==
  /\ Faulty /\ fault # "resent"
  /\ release[r] \in {"decrement", "decrementAgain", "clamp"}
  /\ release' = [release EXCEPT ![r] = "done"]
  /\ fault' = "failed"
  /\ UNCHANGED <<execVars, track, stateVars, counter, minute, perMinute, threshold>>

\* A command is carried out, but the connection breaks before its reply, and
\* go-redis sends it again.  (Bound: a run has one such command, or failures.)
LoseReply(r) ==
  /\ Faulty /\ fault = "none"
  /\ fault' = "resent"
  /\ \/ /\ track[r] = "increment"
        /\ concurrent' = concurrent + 1
        /\ lifetime' = Touched
        /\ track' = [track EXCEPT ![r] = "incrementAgain"]
        /\ UNCHANGED <<release, buckets, keyed>>
     \/ /\ track[r] = "count"
        /\ \E m \in keyed[r]..minute :
             /\ buckets' = [buckets EXCEPT ![m] = @ + 1]
             /\ keyed' = [keyed EXCEPT ![r] = m]
        /\ track' = [track EXCEPT ![r] = "countAgain"]
        /\ UNCHANGED <<release, counter>>
     \/ /\ release[r] = "decrement"
        /\ concurrent' = concurrent - 1
        /\ lifetime' = Touched
        /\ release' = [release EXCEPT ![r] = "decrementAgain"]
        /\ UNCHANGED <<track, buckets, keyed>>
     \/ /\ release[r] = "clamp"
        /\ concurrent' = 0
        /\ lifetime' = "expiring"
        /\ UNCHANGED <<track, release, buckets, keyed>>
  /\ UNCHANGED <<execVars, stateVars, minute, mortal, threshold>>

\* Every request has been made and is over, and no goroutine of its is left.
AllServed ==
  /\ \A r \in Requests : /\ pc[r] = "ended"
                         /\ track[r] \in {"off", "done", "escalated"}
                         /\ release[r] \in {"off", "done"}
  /\ UNCHANGED vars

-----------------------------------------------------------------------------
Execute(r) == UsageFound(r) \/ UsageMissing(r) \/ Respond(r)

TrackRequest(r) ==
  \/ IncrementConcurrent(r) \/ ExpireConcurrent(r)
  \/ IncrementAndGet(r) \/ IncrementAgain(r) \/ ExpireBucket(r)
  \/ GetConcurrent(r) \/ CheckAndUpdateState(r)
  \/ LoadState(r) \/ SaveState(r)

ReleaseRequest(r) == Decrement(r) \/ Clamp(r)

Next ==
  \/ \E r \in Requests :
       \/ Reject(r) \/ Accept(r) \/ Execute(r)
       \/ TrackRequest(r) \/ ReleaseRequest(r)
       \/ TrackCommandFails(r) \/ ReleaseCommandFails(r) \/ LoseReply(r)
  \/ ConcurrentExpires \/ NextMinute \/ CacheExpires
  \/ AllServed

Spec == Init /\ [][Next]_vars

\* Requests that have started go on to their end (the upstream client has a
\* timeout), goroutines are scheduled, and Redis expires keys.
Fairness ==
  /\ \A r \in Requests :
       WF_vars(Execute(r)) /\ WF_vars(TrackRequest(r)) /\ WF_vars(ReleaseRequest(r))
  /\ WF_vars(ConcurrentExpires)

FairSpec == Spec /\ Fairness

-----------------------------------------------------------------------------
(***************************************************************************)
(* What tracking guarantees, and what it does not.                         *)
(***************************************************************************)
States == {"NORMAL", "WARNING", "BLOCKED"}

\* Types; in particular the database only ever holds one of the three states.
TypeOK ==
  /\ pc \in [Requests -> {"new", "lookup", "calling", "ended"}]
  /\ track \in [Requests -> {"off", "increment", "incrementAgain", "expire", "count",
                             "countAgain", "expireBucket",
                             "readConcurrent", "readBucket", "load", "save",
                             "done", "escalated"}]
  /\ release \in [Requests -> {"off", "decrement", "decrementAgain", "clamp", "done"}]
  /\ cached \in States \cup {"none"}
  /\ dbState \in States
  /\ loaded \in [Requests -> States]
  /\ concurrent \in Int
  /\ lifetime \in {"absent", "persistent", "expiring"}
  /\ minute \in Minutes
  /\ buckets \in [Minutes -> Nat]
  /\ mortal \in SUBSET Minutes
  /\ keyed \in [Requests -> Minutes]
  /\ threshold \in [Requests -> Int]
  /\ fault \in {"none", "resent", "failed"}

\* A negative count has a release on its way to set it back, also when commands
\* are sent twice or overtake each other; only when one fails may it stay.
UndercountIsRepaired ==
  fault # "failed" /\ concurrent < 0 =>
    \E r \in Requests : release[r] \in {"decrementAgain", "clamp"}

\* A key without a TTL has a goroutine on its way to give it one, whatever was
\* incremented, decremented, reset or expired in between: no counter of an idle
\* token stays in Redis for good.  This holds of the concurrency counter unless
\* a command fails; of the buckets not either when a reply is lost, since an
\* INCR that makes the bucket and is sent again does not return 1.
NoImmortalKey ==
  /\ fault # "failed" /\ lifetime = "persistent" =>
       \E r \in Requests :
         \/ track[r] \in {"incrementAgain", "expire"}
         \/ release[r] \in {"decrementAgain", "clamp"}
  /\ fault = "none" => \A m \in Minutes \ mortal : buckets[m] > 0 =>
       \E r \in Requests : track[r] = "expireBucket" /\ keyed[r] = m

\* A token is BLOCKED only after the checks of two different requests have each
\* escalated it, also when Redis or MySQL fails in between.
TwoEscalationsBeforeBlock ==
  dbState = "BLOCKED" => Cardinality({r \in Requests : track[r] = "escalated"}) >= 2

\* When the traffic stops, the concurrency counter disappears, and with it
\* whatever the requests that were never released have left in it, unless a
\* command has failed.
CounterComesToRest ==
  <>(fault = "failed") \/ <>[](lifetime = "absent" /\ concurrent = 0)

\* "TokenStateService moves the state in the order NORMAL, WARNING, BLOCKED."
Rank(s) == IF s = "NORMAL" THEN 0 ELSE IF s = "WARNING" THEN 1 ELSE 2

StateNeverRegresses == [][Rank(dbState') >= Rank(dbState)]_vars

=============================================================================
