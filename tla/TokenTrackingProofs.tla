------------------------- MODULE TokenTrackingProofs -------------------------
(***************************************************************************)
(* Theorems about TokenTracking, for every set of requests and any         *)
(* multiplier, with commands that fail or are sent twice.                  *)
(***************************************************************************)
EXTENDS TokenTracking, TLAPS, FiniteSetTheorems

\* A request that has not been accepted is not tracked yet, and only one that is
\* over is released.
StartLink == \A r \in Requests : /\ pc[r] = "new" => track[r] = "off"
                                 /\ pc[r] # "ended" => release[r] = "off"

\* TwoEscalationsBeforeBlock needs to know what a check has loaded: it only goes
\* on to save if there is a next state, and a warning it has seen was written by
\* a check that has ended.
Escalated(r) == track[r] = "escalated"

StateLink ==
  /\ \A r \in Requests : track[r] = "save" => loaded[r] \in {"NORMAL", "WARNING"}
  /\ dbState = "WARNING" \/ (\E r \in Requests : track[r] = "save" /\ loaded[r] = "WARNING")
       => \E q \in Requests : Escalated(q)
  /\ dbState = "BLOCKED" => \E p, q \in Requests : p # q /\ Escalated(p) /\ Escalated(q)

\* The concurrency counter.  While its key has no TTL, either a goroutine is
\* between INCR and EXPIRE, or the key was made by a DECR and has only been
\* decremented since; then UndercountIsRepaired says who will end this.
CounterLink ==
  /\ lifetime = "absent" => concurrent = 0
  /\ fault # "failed" /\ lifetime = "persistent" =>
       concurrent < 0 \/ \E r \in Requests : track[r] \in {"incrementAgain", "expire"}

\* The buckets: the second half of NoImmortalKey, which needs to know that no
\* INCR is sent again in a run without faults.
BucketLink ==
  fault = "none" =>
    /\ \A r \in Requests : track[r] # "countAgain"
    /\ \A m \in Minutes \ mortal : buckets[m] > 0 =>
         \E r \in Requests : track[r] = "expireBucket" /\ keyed[r] = m

IInv == TypeOK /\ StartLink /\ StateLink /\ CounterLink /\ UndercountIsRepaired /\ BucketLink

-----------------------------------------------------------------------------
\* Types.

LEMMA TypeStep == TypeOK /\ StateLink /\ [Next]_vars => TypeOK'
<1> SUFFICES ASSUME TypeOK, StateLink, [Next]_vars PROVE TypeOK'
  OBVIOUS
<1>1. 0 \in Minutes /\ minute \in Minutes /\ Minutes \subseteq Nat /\ ThresholdMultiplier \in Nat
  BY TokenTrackingAssumption DEF TypeOK, Minutes
<1>2. ASSUME NEW a \in Int PROVE a * ThresholdMultiplier \in Int
  BY <1>1
<1>3. ASSUME NEW m \in Minutes PROVE m..minute \subseteq Minutes
  BY <1>1, TokenTrackingAssumption DEF Minutes
<1> USE <1>1 DEF TypeOK, execVars, stateVars, counter, environs, perMinute
<1>4. ASSUME NEW r \in Requests, Reject(r) \/ Accept(r) \/ Execute(r) PROVE TypeOK'
  <2>1. CASE Reject(r)
    BY <2>1 DEF Reject, Kept, Lookup
  <2>2. CASE Accept(r)
    BY <2>2 DEF Accept, Kept, Lookup
  <2>3. CASE Execute(r)
    BY <2>3 DEF Execute, UsageFound, UsageMissing, Respond
  <2> QED
    BY <1>4, <2>1, <2>2, <2>3
<1>5. ASSUME NEW r \in Requests, TrackRequest(r) PROVE TypeOK'
  <2>1. CASE IncrementConcurrent(r)
    BY <2>1 DEF IncrementConcurrent, Touched
  <2>2. CASE ExpireConcurrent(r)
    BY <2>2 DEF ExpireConcurrent
  <2>3. CASE IncrementAndGet(r)
    <3>1. PICK m \in Minutes :
            /\ buckets' = [buckets EXCEPT ![m] = @ + 1]
            /\ track' \in {[track EXCEPT ![r] = "expireBucket"],
                           [track EXCEPT ![r] = "readConcurrent"]}
            /\ keyed' \in {[keyed EXCEPT ![r] = m], [keyed EXCEPT ![r] = 0]}
      BY <1>3, <2>3 DEF IncrementAndGet
    <3>2. buckets' \in [Minutes -> Nat] /\ keyed' \in [Requests -> Minutes]
      BY <3>1
    <3> QED
      BY <2>3, <3>1, <3>2 DEF IncrementAndGet
  <2>4. CASE IncrementAgain(r) \/ ExpireBucket(r)
    <3>1. CASE IncrementAgain(r)
      <4>1. ASSUME NEW m \in Minutes PROVE [buckets EXCEPT ![m] = @ + 1] \in [Minutes -> Nat]
        OBVIOUS
      <4>2. buckets' \in [Minutes -> Nat]
        BY <3>1, <4>1 DEF IncrementAgain
      <4> QED
        BY <3>1, <4>2 DEF IncrementAgain
    <3>2. CASE ExpireBucket(r)
      BY <3>2 DEF ExpireBucket
    <3> QED
      BY <2>4, <3>1, <3>2
  <2>5. CASE GetConcurrent(r)
    BY <1>2, <2>5 DEF GetConcurrent
  <2>6. CASE CheckAndUpdateState(r)
    BY <2>6 DEF CheckAndUpdateState
  <2>7. CASE LoadState(r)
    BY <2>7 DEF LoadState
  <2>8. CASE SaveState(r)
    BY <2>8 DEF SaveState, StateLink, TransitionToNextState, States
  <2> QED
    BY <1>5, <2>1, <2>2, <2>3, <2>4, <2>5, <2>6, <2>7, <2>8 DEF TrackRequest
<1>6. ASSUME NEW r \in Requests, ReleaseRequest(r) PROVE TypeOK'
  <2>1. CASE Decrement(r)
    BY <2>1 DEF Decrement, Touched
  <2>2. CASE Clamp(r)
    BY <2>2 DEF Clamp
  <2> QED
    BY <1>6, <2>1, <2>2 DEF ReleaseRequest
<1>7. ASSUME NEW r \in Requests, TrackCommandFails(r) \/ ReleaseCommandFails(r) PROVE TypeOK'
  <2>1. CASE TrackCommandFails(r)
    BY <2>1 DEF TrackCommandFails, AfterFailure, States
  <2>2. CASE ReleaseCommandFails(r)
    BY <2>2 DEF ReleaseCommandFails
  <2> QED
    BY <1>7, <2>1, <2>2
<1>8. ASSUME NEW r \in Requests, LoseReply(r) PROVE TypeOK'
  <2>1. /\ UNCHANGED <<pc, cached, dbState, loaded, minute, mortal, threshold>>
        /\ fault' = "resent"
    BY <1>8 DEF LoseReply
  <2>2. CASE track[r] = "increment" /\ UNCHANGED <<release, buckets, keyed>>
    BY <1>8, <2>1, <2>2 DEF LoseReply, Touched
  <2>3. CASE /\ track[r] = "count" /\ track' = [track EXCEPT ![r] = "countAgain"]
             /\ UNCHANGED <<release, counter>>
    <3>1. PICK m \in Minutes :
            /\ buckets' = [buckets EXCEPT ![m] = @ + 1]
            /\ keyed' = [keyed EXCEPT ![r] = m]
            /\ track' = [track EXCEPT ![r] = "countAgain"]
      BY <1>3, <1>8, <2>3 DEF LoseReply
    <3>2. buckets' \in [Minutes -> Nat] /\ keyed' \in [Requests -> Minutes]
      BY <3>1
    <3> QED
      BY <2>1, <2>3, <3>1, <3>2
  <2>4. CASE release[r] \in {"decrement", "clamp"} /\ UNCHANGED <<track, buckets, keyed>>
    BY <1>8, <2>1, <2>4 DEF LoseReply, Touched
  <2> QED
    BY <1>8, <2>2, <2>3, <2>4 DEF LoseReply
<1>9. CASE ConcurrentExpires \/ CacheExpires
  <2>1. CASE ConcurrentExpires
    BY <2>1 DEF ConcurrentExpires
  <2>2. CASE CacheExpires
    BY <2>2 DEF CacheExpires
  <2> QED
    BY <1>9, <2>1, <2>2
<1>10. CASE NextMinute
  BY <1>10, TokenTrackingAssumption DEF NextMinute, Minutes
<1>11. CASE AllServed \/ UNCHANGED vars
  BY <1>11 DEF AllServed, vars
<1> HIDE <1>1 DEF TypeOK
<1> QED
  BY <1>4, <1>5, <1>6, <1>7, <1>8, <1>9, <1>10, <1>11 DEF Next

-----------------------------------------------------------------------------
\* Tracking starts with Accept, releasing with Respond, and neither comes back to
\* its start.
LEMMA StartStep == TypeOK /\ StartLink /\ [Next]_vars => StartLink'
<1> SUFFICES ASSUME TypeOK, StartLink, [Next]_vars PROVE StartLink'
  OBVIOUS
<1>1. /\ track = [q \in Requests |-> track[q]] /\ pc = [q \in Requests |-> pc[q]]
      /\ release = [q \in Requests |-> release[q]]
  BY DEF TypeOK
<1> USE <1>1 DEF StartLink
<1>2. ASSUME NEW r \in Requests, Reject(r) \/ Accept(r) \/ Execute(r) PROVE StartLink'
  BY <1>2 DEF Reject, Accept, Execute, UsageFound, UsageMissing, Respond
<1>3. ASSUME NEW r \in Requests, TrackRequest(r) \/ TrackCommandFails(r) PROVE StartLink'
  <2>1. UNCHANGED <<pc, release>> /\ track[r] # "off"
    BY <1>3
    DEF TrackRequest, IncrementConcurrent, ExpireConcurrent, IncrementAndGet, IncrementAgain,
        ExpireBucket, GetConcurrent, CheckAndUpdateState, LoadState, SaveState,
        TrackCommandFails, execVars
  <2>2. \E l : track' = [track EXCEPT ![r] = l]
    BY <1>3
    DEF TrackRequest, IncrementConcurrent, ExpireConcurrent, IncrementAndGet, IncrementAgain,
        ExpireBucket, GetConcurrent, CheckAndUpdateState, LoadState, SaveState,
        TrackCommandFails
  <2> QED
    BY <2>1, <2>2
<1>4. ASSUME NEW r \in Requests, ReleaseRequest(r) \/ ReleaseCommandFails(r) PROVE StartLink'
  <2>1. UNCHANGED <<pc, track>> /\ release[r] # "off"
    BY <1>4 DEF ReleaseRequest, Decrement, Clamp, ReleaseCommandFails, execVars
  <2>2. \E l : release' = [release EXCEPT ![r] = l]
    BY <1>4 DEF ReleaseRequest, Decrement, Clamp, ReleaseCommandFails
  <2> QED
    BY <2>1, <2>2
<1>5. ASSUME NEW r \in Requests, LoseReply(r) PROVE StartLink'
  BY <1>5 DEF LoseReply, execVars
<1>6. CASE ConcurrentExpires \/ NextMinute \/ CacheExpires \/ AllServed \/ UNCHANGED vars
  BY <1>6 DEF ConcurrentExpires, NextMinute, CacheExpires, AllServed, vars, execVars
<1> HIDE DEF StartLink
<1> QED
  BY <1>2, <1>3, <1>4, <1>5, <1>6 DEF Next

\* The state of the token.  Only a check touches it, and a check that has
\* escalated it has ended.
LEMMA StateStep == TypeOK /\ StartLink /\ StateLink /\ [Next]_vars => StateLink'
<1> SUFFICES ASSUME TypeOK, StartLink, StateLink, [Next]_vars PROVE StateLink'
  OBVIOUS
<1>1. /\ track = [q \in Requests |-> track[q]] /\ loaded \in [Requests -> States]
      /\ dbState \in States
  BY DEF TypeOK
<1>2. ASSUME UNCHANGED stateVars,
             \A q \in Requests : Escalated(q) => Escalated(q)',
             \A q \in Requests : track'[q] = "save" => track[q] = "save"
      PROVE  StateLink'
  BY <1>2 DEF StateLink, stateVars
<1> USE <1>1 DEF Escalated
<1>3. ASSUME NEW r \in Requests, LoadState(r) PROVE StateLink'
  BY <1>3 DEF LoadState, StateLink, TransitionToNextState, States
<1>4. ASSUME NEW r \in Requests, SaveState(r) PROVE StateLink'
  <2>1. /\ track[r] = "save" /\ track' = [track EXCEPT ![r] = "escalated"]
        /\ loaded' = [loaded EXCEPT ![r] = "NORMAL"]
        /\ dbState' = TransitionToNextState(loaded[r])
    BY <1>4 DEF SaveState
  <2>2. loaded[r] \in {"NORMAL", "WARNING"}
    BY <2>1 DEF StateLink
  <2>3. \A q \in Requests : Escalated(q) => Escalated(q)' /\ q # r
    BY <2>1
  <2>4. dbState' = "BLOCKED" => \E q \in Requests : Escalated(q)
    BY <2>1, <2>2 DEF TransitionToNextState, StateLink
  <2> QED
    BY <2>1, <2>2, <2>3, <2>4 DEF StateLink, TransitionToNextState
<1>5. ASSUME NEW r \in Requests, TrackCommandFails(r) PROVE StateLink'
  BY <1>5 DEF TrackCommandFails, AfterFailure, StateLink
<1>6. ASSUME NEW r \in Requests, Reject(r) \/ Accept(r) \/ Execute(r) PROVE StateLink'
  <2>1. UNCHANGED stateVars /\ (UNCHANGED track \/ track' = [track EXCEPT ![r] = "increment"])
    BY <1>6 DEF Reject, Accept, Execute, UsageFound, UsageMissing, Respond
  <2>2. track' = [track EXCEPT ![r] = "increment"] => track[r] # "escalated"
    BY <1>6 DEF Reject, Accept, Execute, UsageFound, UsageMissing, Respond, StartLink
  <2> QED
    BY <1>2, <2>1, <2>2
<1>7. ASSUME NEW r \in Requests,
             \/ IncrementConcurrent(r) \/ ExpireConcurrent(r)
             \/ IncrementAndGet(r) \/ IncrementAgain(r) \/ ExpireBucket(r)
             \/ GetConcurrent(r) \/ CheckAndUpdateState(r) \/ LoseReply(r)
      PROVE  StateLink'
  <2>1. PICK l : /\ l \notin {"save", "escalated"} \/ l = track[r]
                 /\ track' = [track EXCEPT ![r] = l]
    BY <1>7
    DEF IncrementConcurrent, ExpireConcurrent, IncrementAndGet, IncrementAgain, ExpireBucket,
        GetConcurrent, CheckAndUpdateState, LoseReply
  <2>2. UNCHANGED stateVars /\ (track[r] # "escalated" \/ UNCHANGED track)
    BY <1>7
    DEF IncrementConcurrent, ExpireConcurrent, IncrementAndGet, IncrementAgain, ExpireBucket,
        GetConcurrent, CheckAndUpdateState, LoseReply
  <2> QED
    BY <1>2, <2>1, <2>2
<1>8. ASSUME NEW r \in Requests, ReleaseRequest(r) \/ ReleaseCommandFails(r) PROVE StateLink'
  BY <1>2, <1>8 DEF ReleaseRequest, Decrement, Clamp, ReleaseCommandFails
<1>9. CASE ConcurrentExpires \/ NextMinute \/ CacheExpires \/ AllServed \/ UNCHANGED vars
  BY <1>2, <1>9 DEF ConcurrentExpires, NextMinute, CacheExpires, AllServed, vars, stateVars
<1> HIDE DEF Escalated
<1> QED
  BY <1>3, <1>4, <1>5, <1>6, <1>7, <1>8, <1>9 DEF Next, TrackRequest

-----------------------------------------------------------------------------
\* The concurrency counter.  A step that leaves it alone only has to leave the
\* goroutines alone that are about to end its undercount or its immortality.
LEMMA CounterStep ==
  TypeOK /\ StartLink /\ CounterLink /\ UndercountIsRepaired /\ [Next]_vars
    => (CounterLink /\ UndercountIsRepaired)'
<1> SUFFICES ASSUME TypeOK, StartLink, CounterLink, UndercountIsRepaired, [Next]_vars
             PROVE  (CounterLink /\ UndercountIsRepaired)'
  OBVIOUS
<1>1. /\ track = [q \in Requests |-> track[q]] /\ release = [q \in Requests |-> release[q]]
      /\ concurrent \in Int /\ lifetime \in {"absent", "persistent", "expiring"}
  BY DEF TypeOK
<1> USE <1>1 DEF CounterLink, UndercountIsRepaired
<1>2. ASSUME UNCHANGED <<counter, fault>>,
             \A q \in Requests : track[q] \in {"incrementAgain", "expire"} => track'[q] = track[q],
             \A q \in Requests : release[q] \in {"decrementAgain", "clamp"} => release'[q] = release[q]
      PROVE  (CounterLink /\ UndercountIsRepaired)'
  <2>1. CounterLink'
    BY <1>2 DEF counter
  <2>2. UndercountIsRepaired'
    BY <1>2 DEF counter
  <2> QED
    BY <2>1, <2>2
<1>3. ASSUME NEW r \in Requests, IncrementConcurrent(r)
      PROVE  (CounterLink /\ UndercountIsRepaired)'
  <2>1. /\ concurrent' = concurrent + 1 /\ lifetime' # "absent" /\ UNCHANGED <<fault, release>>
        /\ track' = [track EXCEPT ![r] = "expire"]
    BY <1>3 DEF IncrementConcurrent, Touched, environs
  <2>2. CounterLink'
    BY <2>1
  <2>3. UndercountIsRepaired'
    BY <2>1
  <2> QED
    BY <2>2, <2>3
<1>4. ASSUME NEW r \in Requests, ExpireConcurrent(r)
      PROVE  (CounterLink /\ UndercountIsRepaired)'
  <2>1. /\ concurrent' = concurrent
        /\ lifetime' = IF lifetime = "absent" THEN "absent" ELSE "expiring"
        /\ UNCHANGED <<fault, release>>
    BY <1>4 DEF ExpireConcurrent, environs
  <2> QED
    BY <2>1
<1>5. ASSUME NEW r \in Requests,
             \/ IncrementAndGet(r) \/ IncrementAgain(r) \/ ExpireBucket(r)
             \/ GetConcurrent(r) \/ CheckAndUpdateState(r) \/ LoadState(r) \/ SaveState(r)
      PROVE  (CounterLink /\ UndercountIsRepaired)'
  <2>1. UNCHANGED <<counter, fault, release>> /\ track[r] \notin {"incrementAgain", "expire"}
    BY <1>5
    DEF IncrementAndGet, IncrementAgain, ExpireBucket, GetConcurrent, CheckAndUpdateState,
        LoadState, SaveState, environs
  <2>2. \E l : track' = [track EXCEPT ![r] = l]
    BY <1>5
    DEF IncrementAndGet, IncrementAgain, ExpireBucket, GetConcurrent, CheckAndUpdateState,
        LoadState, SaveState
  <2> QED
    BY <1>2, <2>1, <2>2
<1>6. ASSUME NEW r \in Requests, Reject(r) \/ Accept(r) \/ Execute(r)
      PROVE  (CounterLink /\ UndercountIsRepaired)'
  <2>1. UNCHANGED <<counter, fault>>
    BY <1>6 DEF Reject, Accept, Execute, UsageFound, UsageMissing, Respond, environs
  <2>2. \A q \in Requests : track[q] \in {"incrementAgain", "expire"} => track'[q] = track[q]
    BY <1>6 DEF Reject, Accept, Execute, UsageFound, UsageMissing, Respond, StartLink
  <2>3. \A q \in Requests : release[q] \in {"decrementAgain", "clamp"} => release'[q] = release[q]
    BY <1>6 DEF Reject, Accept, Execute, UsageFound, UsageMissing, Respond, StartLink
  <2> QED
    BY <1>2, <2>1, <2>2, <2>3
<1>7. ASSUME NEW r \in Requests, Decrement(r)
      PROVE  (CounterLink /\ UndercountIsRepaired)'
  <2>1. /\ concurrent' = concurrent - 1 /\ lifetime' = Touched /\ UNCHANGED <<fault, track>>
        /\ release' = [release EXCEPT ![r] = IF concurrent <= 0 THEN "clamp" ELSE "done"]
    BY <1>7 DEF Decrement, environs
  <2>2. CounterLink'
    BY <2>1 DEF Touched
  <2>3. UndercountIsRepaired'
    BY <2>1
  <2> QED
    BY <2>2, <2>3
<1>8. ASSUME NEW r \in Requests, Clamp(r)
      PROVE  (CounterLink /\ UndercountIsRepaired)'
  BY <1>8 DEF Clamp
<1>9. ASSUME NEW r \in Requests, TrackCommandFails(r) \/ ReleaseCommandFails(r)
      PROVE  (CounterLink /\ UndercountIsRepaired)'
  BY <1>9 DEF TrackCommandFails, ReleaseCommandFails, counter
<1>10. ASSUME NEW r \in Requests, LoseReply(r)
       PROVE  (CounterLink /\ UndercountIsRepaired)'
  <2>1. fault # "failed"
    BY <1>10 DEF LoseReply
  <2>2. CASE /\ track[r] = "increment" /\ track' = [track EXCEPT ![r] = "incrementAgain"]
             /\ concurrent' = concurrent + 1 /\ lifetime' = Touched /\ UNCHANGED release
    <3>1. CounterLink'
      BY <2>2 DEF Touched
    <3>2. UndercountIsRepaired'
      BY <2>1, <2>2
    <3> QED
      BY <3>1, <3>2
  <2>3. CASE /\ track[r] = "count" /\ track' = [track EXCEPT ![r] = "countAgain"]
             /\ UNCHANGED <<release, counter>>
    <3>1. CounterLink'
      BY <2>1, <2>3 DEF counter
    <3>2. UndercountIsRepaired'
      BY <2>1, <2>3 DEF counter
    <3> QED
      BY <3>1, <3>2
  <2>4. CASE /\ release[r] = "decrement" /\ release' = [release EXCEPT ![r] = "decrementAgain"]
             /\ concurrent' = concurrent - 1 /\ lifetime' = Touched /\ UNCHANGED track
    <3>1. CounterLink'
      BY <2>1, <2>4 DEF Touched
    <3>2. UndercountIsRepaired'
      BY <2>1, <2>4
    <3> QED
      BY <3>1, <3>2
  <2>5. CASE concurrent' = 0 /\ lifetime' = "expiring"
    BY <2>5
  <2> QED
    BY <1>10, <2>2, <2>3, <2>4, <2>5 DEF LoseReply
<1>11. CASE ConcurrentExpires
  BY <1>11 DEF ConcurrentExpires
<1>12. CASE NextMinute \/ CacheExpires \/ AllServed \/ UNCHANGED vars
  BY <1>2, <1>12 DEF NextMinute, CacheExpires, AllServed, vars, counter, environs
<1> HIDE DEF CounterLink, UndercountIsRepaired
<1> QED
  BY <1>3, <1>4, <1>5, <1>6, <1>7, <1>8, <1>9, <1>10, <1>11, <1>12
  DEF Next, TrackRequest, ReleaseRequest

-----------------------------------------------------------------------------
\* The buckets.  Only the request that makes a bucket finds it empty, and it
\* gives it a TTL next, under the key it has made.
LEMMA BucketStep == TypeOK /\ StartLink /\ BucketLink /\ [Next]_vars => BucketLink'
<1> SUFFICES ASSUME TypeOK, StartLink, BucketLink, [Next]_vars, fault' = "none"
             PROVE  /\ \A r \in Requests : track'[r] # "countAgain"
                    /\ \A m \in Minutes \ mortal' : buckets'[m] > 0 =>
                         \E r \in Requests : track'[r] = "expireBucket" /\ keyed'[r] = m
  BY DEF BucketLink
<1> DEFINE Unsent == \A r \in Requests : track[r] # "countAgain"
           Awaited(m) == \E r \in Requests : track[r] = "expireBucket" /\ keyed[r] = m
           Minded == \A m \in Minutes \ mortal : buckets[m] > 0 => Awaited(m)
<1>1. /\ track = [q \in Requests |-> track[q]] /\ keyed = [q \in Requests |-> keyed[q]]
      /\ buckets \in [Minutes -> Nat] /\ mortal \subseteq Minutes /\ minute \in Minutes
      /\ keyed \in [Requests -> Minutes]
  BY DEF TypeOK
<1>2. fault = "none"
  BY DEF Next, Reject, Accept, Execute, UsageFound, UsageMissing, Respond, TrackRequest,
     IncrementConcurrent, ExpireConcurrent, IncrementAndGet, IncrementAgain, ExpireBucket,
     GetConcurrent, CheckAndUpdateState, LoadState, SaveState, ReleaseRequest, Decrement, Clamp,
     TrackCommandFails, ReleaseCommandFails, LoseReply, ConcurrentExpires, NextMinute,
     CacheExpires, AllServed, vars, environs
<1>3. Unsent /\ Minded
  BY <1>2 DEF BucketLink
<1> USE <1>1, <1>3
<1> SUFFICES (Unsent /\ Minded)'
  OBVIOUS
<1>4. ASSUME UNCHANGED <<buckets, mortal>>,
             \A q \in Requests : track'[q] # "countAgain",
             \A q \in Requests : track[q] = "expireBucket" => /\ track'[q] = track[q]
                                                              /\ keyed'[q] = keyed[q]
      PROVE  (Unsent /\ Minded)'
  BY <1>4
<1>5. ASSUME NEW r \in Requests, IncrementAndGet(r) PROVE (Unsent /\ Minded)'
  <2>1. UNCHANGED mortal /\ track[r] = "count"
    BY <1>5 DEF IncrementAndGet
  <2>2. PICK m \in Minutes :
          /\ buckets' = [buckets EXCEPT ![m] = @ + 1]
          /\ \/ /\ buckets[m] = 0 /\ track' = [track EXCEPT ![r] = "expireBucket"]
                /\ keyed' = [keyed EXCEPT ![r] = m]
             \/ /\ buckets[m] > 0 /\ track' = [track EXCEPT ![r] = "readConcurrent"]
                /\ keyed' = [keyed EXCEPT ![r] = 0]
    <3>1. keyed[r] \in Minutes
      BY <1>5
    <3>2. keyed[r]..minute \subseteq Minutes
      BY <3>1, TokenTrackingAssumption DEF Minutes
    <3> QED
      BY <1>5, <3>2 DEF IncrementAndGet
  <2>3. Unsent'
    BY <2>2
  <2>4. \A q \in Requests : track[q] = "expireBucket" => /\ track'[q] = track[q]
                                                         /\ keyed'[q] = keyed[q]
    BY <2>1, <2>2
  <2>5. ASSUME NEW n \in Minutes \ mortal', buckets'[n] > 0 PROVE Awaited(n)'
    <3>1. CASE buckets[n] > 0
      BY <2>1, <2>4, <3>1
    <3>2. CASE ~(buckets[n] > 0)
      BY <2>1, <2>2, <2>5, <3>2
    <3> QED
      BY <3>1, <3>2
  <2> QED
    BY <2>3, <2>5
<1>6. ASSUME NEW r \in Requests, ExpireBucket(r) PROVE (Unsent /\ Minded)'
  <2>1. /\ UNCHANGED buckets /\ mortal' = mortal \cup {keyed[r]}
        /\ track' = [track EXCEPT ![r] = "readConcurrent"]
        /\ keyed' = [keyed EXCEPT ![r] = 0]
    BY <1>6 DEF ExpireBucket
  <2>2. Unsent'
    BY <2>1
  <2>3. ASSUME NEW n \in Minutes \ mortal', buckets'[n] > 0 PROVE Awaited(n)'
    <3>1. n # keyed[r] /\ Awaited(n)
      BY <2>1, <2>3
    <3> QED
      BY <2>1, <3>1
  <2> QED
    BY <2>2, <2>3
<1>7. ASSUME NEW r \in Requests,
             \/ IncrementConcurrent(r) \/ ExpireConcurrent(r) \/ GetConcurrent(r)
             \/ CheckAndUpdateState(r) \/ LoadState(r) \/ SaveState(r)
      PROVE  (Unsent /\ Minded)'
  <2>1. UNCHANGED <<buckets, mortal>> /\ track[r] # "expireBucket"
    BY <1>7
    DEF IncrementConcurrent, ExpireConcurrent, GetConcurrent, CheckAndUpdateState, LoadState,
        SaveState, perMinute
  <2>2. /\ \E l : l # "countAgain" /\ track' = [track EXCEPT ![r] = l]
        /\ keyed' = keyed \/ \E m : keyed' = [keyed EXCEPT ![r] = m]
    BY <1>7
    DEF IncrementConcurrent, ExpireConcurrent, GetConcurrent, CheckAndUpdateState, LoadState,
        SaveState, perMinute
  <2> QED
    BY <1>4, <2>1, <2>2
<1>8. ASSUME NEW r \in Requests, Reject(r) \/ Accept(r) \/ Execute(r) PROVE (Unsent /\ Minded)'
  <2>1. UNCHANGED perMinute
    BY <1>8 DEF Reject, Accept, Execute, UsageFound, UsageMissing, Respond
  <2>2. \/ UNCHANGED track
        \/ track[r] = "off" /\ track' = [track EXCEPT ![r] = "increment"]
    BY <1>8 DEF Reject, Accept, Execute, UsageFound, UsageMissing, Respond, StartLink
  <2> QED
    BY <1>4, <2>1, <2>2 DEF perMinute
<1>9. ASSUME NEW r \in Requests,
             IncrementAgain(r) \/ TrackCommandFails(r) \/ ReleaseCommandFails(r) \/ LoseReply(r)
      PROVE  FALSE
  BY <1>9 DEF IncrementAgain, TrackCommandFails, ReleaseCommandFails, LoseReply
<1>10. ASSUME NEW r \in Requests, ReleaseRequest(r) PROVE (Unsent /\ Minded)'
  BY <1>4, <1>10 DEF ReleaseRequest, Decrement, Clamp, perMinute
<1>11. CASE ConcurrentExpires \/ NextMinute \/ CacheExpires \/ AllServed \/ UNCHANGED vars
  BY <1>4, <1>11 DEF ConcurrentExpires, NextMinute, CacheExpires, AllServed, vars, perMinute
<1> HIDE DEF Unsent, Minded
<1> QED
  BY <1>5, <1>6, <1>7, <1>8, <1>9, <1>10, <1>11 DEF Next, TrackRequest

-----------------------------------------------------------------------------
\* The inductive invariant, and what it says.
THEOREM Invariance == Spec => []IInv
<1>1. Init => IInv
  <2> SUFFICES ASSUME Init PROVE IInv
    OBVIOUS
  <2>1. 0 \in Minutes
    BY TokenTrackingAssumption DEF Minutes
  <2>2. TypeOK
    BY <2>1 DEF Init, TypeOK, States
  <2>3. StartLink /\ StateLink
    BY DEF Init, StartLink, StateLink
  <2>4. CounterLink /\ UndercountIsRepaired
    BY DEF Init, CounterLink, UndercountIsRepaired
  <2>5. BucketLink
    BY DEF Init, BucketLink
  <2> QED
    BY <2>2, <2>3, <2>4, <2>5 DEF IInv
<1>2. IInv /\ [Next]_vars => IInv'
  BY TypeStep, StartStep, StateStep, CounterStep, BucketStep DEF IInv
<1> QED
  BY <1>1, <1>2, PTL DEF Spec

\* Every variable keeps its type: a check that saves the row has loaded a state
\* that has a next one, so api_token.state is never empty.
THEOREM TypeCorrect == Spec => []TypeOK
<1>1. IInv => TypeOK
  BY DEF IInv
<1> QED
  BY <1>1, Invariance, PTL

\* A negative concurrency count has a release on its way to set it back, for any
\* number of requests that overtake each other, also when commands are sent
\* twice.
THEOREM UndercountRepaired == Spec => []UndercountIsRepaired
<1>1. IInv => UndercountIsRepaired
  BY DEF IInv
<1> QED
  BY <1>1, Invariance, PTL

\* A Redis key without a TTL has a goroutine on its way to give it one, in every
\* order of the increments, decrements, resets and expiries of any number of
\* requests.
THEOREM KeysAreMortal == Spec => []NoImmortalKey
<1>1. IInv => NoImmortalKey
  <2> SUFFICES ASSUME IInv PROVE NoImmortalKey
    OBVIOUS
  <2>1. fault # "failed" /\ lifetime = "persistent" =>
          \E r \in Requests : \/ track[r] \in {"incrementAgain", "expire"}
                              \/ release[r] \in {"decrementAgain", "clamp"}
    BY DEF IInv, CounterLink, UndercountIsRepaired
  <2>2. fault = "none" => \A m \in Minutes \ mortal : buckets[m] > 0 =>
          \E r \in Requests : track[r] = "expireBucket" /\ keyed[r] = m
    BY DEF IInv, BucketLink
  <2> QED
    BY <2>1, <2>2 DEF NoImmortalKey
<1> QED
  BY <1>1, Invariance, PTL

\* A BLOCKED token has been escalated by the checks of two different requests,
\* however many checks of however many requests ran at a time and failed.
THEOREM TwoEscalations == Spec => []TwoEscalationsBeforeBlock
<1>1. IInv => TwoEscalationsBeforeBlock
  <2> SUFFICES ASSUME IInv, dbState = "BLOCKED"
               PROVE  Cardinality({r \in Requests : track[r] = "escalated"}) >= 2
    BY DEF TwoEscalationsBeforeBlock
  <2> DEFINE E == {r \in Requests : track[r] = "escalated"}
  <2>1. PICK p, q \in Requests : p # q /\ Escalated(p) /\ Escalated(q)
    BY DEF IInv, StateLink
  <2>2. IsFiniteSet(E)
    BY FS_Subset, TokenTrackingAssumption
  <2>3. {p, q} \subseteq E
    BY <2>1 DEF Escalated
  <2>4. Cardinality({p, q}) = 2
    <3>1. Cardinality({p}) = 1 /\ IsFiniteSet({p}) /\ q \notin {p}
      BY <2>1, FS_Singleton
    <3>2. {p} \cup {q} = {p, q}
      OBVIOUS
    <3> QED
      BY <3>1, <3>2, FS_AddElement
  <2>5. Cardinality({p, q}) <= Cardinality(E)
    BY <2>2, <2>3, FS_Subset
  <2>6. Cardinality(E) \in Nat
    BY <2>2, FS_CardinalityType
  <2> QED
    BY <2>4, <2>5, <2>6
<1> QED
  BY <1>1, Invariance, PTL

=============================================================================
