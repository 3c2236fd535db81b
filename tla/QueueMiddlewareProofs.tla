------------------------ MODULE QueueMiddlewareProofs ------------------------
(***************************************************************************)
(* Theorems about QueueMiddleware, for any requests, clients, slots and    *)
(* priorities.                                                             *)
(*                                                                         *)
(* That nobody is punished for a disconnect rests on an argument over four *)
(* goroutines: the count in Redis is at most the number of copies of       *)
(* pipelines of which an INCR was carried out; a goroutine sends one only  *)
(* while its context is not done; and a request that the queue refused     *)
(* without its context being done must have timed out.                     *)
(***************************************************************************)
EXTENDS QueueMiddleware, FiniteSetTheorems, TLAPS

\* Where Handle is agrees with the status of its request in the queue.
StageLink ==
  \A r \in Requests :
    /\ stage[r] \in {"arrived", "acquiring"} => status[r] = "idle"
    /\ stage[r] = "queued" => status[r] \in {"waiting", "admitted", "refused"}
    /\ stage[r] = "serving" => status[r] = "admitted"
    /\ stage[r] = "answered" => status[r] \in {"idle", "refused", "released"}
    /\ client[r] = NoToken => stage[r] \in {"arrived", "answered"} /\ status[r] = "idle"

\* The counting goroutine of a request exists only after its refusal.
GoroutineLink ==
  \A r \in Requests : increment[r] # "off" =>
    stage[r] = "answered" /\ status[r] = "refused" /\ client[r] \in Clients

\* The queue refuses a request for one of two reasons.
RefusalLink ==
  \A r \in Requests : status[r] = "refused" => r \in timedOut \cup cancelled

\* Whoever has sent its pipeline had timed out.
CountLink == \A r \in Requests : tries[r] > 0 => increment[r] # "off" /\ r \in timedOut

\* Redis knows only of copies that were sent.
PipeLink == \A r \in Requests, k \in Tries : pipe[r][k] # "none" => k <= tries[r]

\* The copies of pipelines of a client of which the INCR was carried out.
Counted(c) ==
  {t \in Requests \X Tries : /\ client[t[1]] = c
                             /\ pipe[t[1]][t[2]] \in {"incremented", "done", "cut"}}

\* Redis counts no more than that: the key may expire in between.
FailureLink == \A c \in Clients : failures[c] <= Cardinality(Counted(c))

IInv ==
  /\ TypeOK
  /\ StageLink /\ GoroutineLink /\ RefusalLink /\ CountLink /\ PipeLink
  /\ FailureLink

-----------------------------------------------------------------------------
\* A priority lies between the floor and the base, whatever the count.
LEMMA PriorityInRange ==
  ASSUME NEW count \in Nat
  PROVE  CalculatePriority(count) \in (BasePriority - MaxPriority)..BasePriority
<1> DEFINE k == count * PriorityIncrement
<1>1. k \in Nat
  BY QueueMiddlewareAssumption
<1>2. CalculatePriority(count) = IF BasePriority - k < BasePriority - MaxPriority
                                 THEN BasePriority - MaxPriority ELSE BasePriority - k
  BY DEF CalculatePriority
<1> HIDE DEF k
<1> QED
  BY <1>1, <1>2, QueueMiddlewareAssumption

\* What the operations of the queue do to its statuses.
LEMMA QueueSteps ==
  ASSUME TypeOK, NEW r \in Requests
  PROVE  /\ Queue!Admit(r) => status[r] = "idle" /\ status' = [status EXCEPT ![r] = "admitted"]
         /\ Queue!Wait(r) => status[r] = "idle" /\ status' = [status EXCEPT ![r] = "waiting"]
         /\ Queue!Refuse(r) => status[r] = "waiting" /\ status' = [status EXCEPT ![r] = "refused"]
         /\ Queue!Release(r) => status[r] = "admitted" /\ status' = [status EXCEPT ![r] = "released"]
         /\ \A w \in Requests : Queue!HandOver(r, w) =>
              /\ status[r] = "admitted" /\ status[w] = "waiting" /\ r # w
              /\ status' = [status EXCEPT ![r] = "released", ![w] = "admitted"]
BY DEF Queue!Admit, Queue!Wait, Queue!Refuse, Queue!Release, Queue!HandOver

\* The steps of the system, by who takes them.
LEMMA StepCases ==
  ASSUME [Next]_vars
  PROVE  \/ \E r \in Requests : Handle(r)
         \/ \E r \in Requests : IncrementFailure(r)
         \/ \E r \in Requests, k \in Tries : Redis(r, k)
         \/ \E r \in Requests : Disconnect(r) \/ EndRequest(r)
         \/ \E c \in Clients : FailuresExpire(c)
         \/ UNCHANGED vars
BY DEF Next, AllAnswered

\* What each of them leaves alone.
LEMMA HandleFrame ==
  ASSUME NEW r \in Requests, Handle(r)
  PROVE  /\ UNCHANGED <<client, failures, lifetime, tries, pipe, faults, gone, cancelled>>
         /\ timedOut \subseteq timedOut'
         /\ UNCHANGED increment \/ Refuse429(r)
BY DEF Handle, Bypass, LookUpPriority, AcquireAtOnce, WaitForSlot, ReceiveSlot, TimeOut,
   NoticeCancel, Refuse429, Serve, redis, counting

LEMMA GoroutineFrame ==
  ASSUME NEW r \in Requests, IncrementFailure(r)
  PROVE  /\ UNCHANGED <<status, client, stage, priority, failures, lifetime, timedOut, gone, cancelled>>
         /\ increment[r] # "off"
         /\ UNCHANGED <<tries, pipe>> \/ Send(r)
         /\ \E l \in {"started", "waiting", "counted", "lost"} :
              increment' = [increment EXCEPT ![r] = l]
BY DEF IncrementFailure, Send, ReadReplies, TryAgain, IncrementFails, redis

LEMMA RedisFrame ==
  ASSUME NEW r \in Requests, NEW k \in Tries, Redis(r, k)
  PROVE  /\ UNCHANGED <<status, client, stage, priority, increment, tries, timedOut, gone, cancelled>>
         /\ pipe[r][k] # "none"
         /\ \E p \in {"none", "incremented", "done", "cut"} : pipe' = [pipe EXCEPT ![r][k] = p]
         /\ UNCHANGED failures \/ Increment(r, k)
BY DEF Redis, Increment, Expire, IncrementRefused, ExpireRefused, redis

LEMMA OtherFrame ==
  /\ \A r \in Requests : Disconnect(r) \/ EndRequest(r) =>
       /\ UNCHANGED <<status, client, stage, priority, failures, lifetime, increment, tries, pipe,
                      faults, timedOut>>
       /\ cancelled \subseteq cancelled'
  /\ \A c \in Clients : FailuresExpire(c) =>
       UNCHANGED <<status, client, stage, priority, increment, tries, pipe, faults, timedOut, gone,
                   cancelled>>
  /\ UNCHANGED vars =>
       UNCHANGED <<status, client, stage, priority, failures, lifetime, increment, tries, pipe, faults,
                   timedOut, gone, cancelled>>
BY DEF Disconnect, EndRequest, FailuresExpire, vars, redis, counting

-----------------------------------------------------------------------------
\* Types.
LEMMA TypeStep ==
  TypeOK /\ GoroutineLink /\ CountLink /\ PipeLink /\ [Next]_vars => TypeOK'
<1> SUFFICES ASSUME TypeOK, GoroutineLink, CountLink, PipeLink, [Next]_vars PROVE TypeOK'
  OBVIOUS
<1> USE QueueMiddlewareAssumption DEF TypeOK, Queue!TypeOK, Queue!Statuses, Goto, redis, counting
<1>1. ASSUME NEW r \in Requests, Bypass(r) \/ ReceiveSlot(r) \/ Refuse429(r) PROVE TypeOK'
  BY <1>1 DEF Bypass, ReceiveSlot, Refuse429
<1>2. ASSUME NEW r \in Requests, LookUpPriority(r) PROVE TypeOK'
  <2>1. failures[client[r]] \in Nat
    BY <1>2 DEF LookUpPriority
  <2>2. PICK p \in (BasePriority - MaxPriority)..BasePriority \cup {FallbackPriority} :
          priority' = [priority EXCEPT ![r] = p]
    BY <1>2, <2>1, PriorityInRange DEF LookUpPriority
  <2> QED
    BY <1>2, <2>2 DEF LookUpPriority
<1>3. ASSUME NEW r \in Requests, AcquireAtOnce(r) \/ WaitForSlot(r) PROVE TypeOK'
  <2>1. BasePriority \in (BasePriority - MaxPriority)..BasePriority
    OBVIOUS
  <2>2. priority' = [priority EXCEPT ![r] = BasePriority]
    BY <1>3 DEF AcquireAtOnce, WaitForSlot
  <2>3. status' \in [Requests -> Queue!Statuses]
    <3>1. \E s \in {"admitted", "waiting"} : status' = [status EXCEPT ![r] = s]
      BY <1>3, QueueSteps DEF AcquireAtOnce, WaitForSlot
    <3> QED
      BY <3>1
  <2> QED
    BY <1>3, <2>1, <2>2, <2>3 DEF AcquireAtOnce, WaitForSlot
<1>4. ASSUME NEW r \in Requests, TimeOut(r) \/ NoticeCancel(r) PROVE TypeOK'
  BY <1>4, QueueSteps DEF TimeOut, NoticeCancel
<1>5. ASSUME NEW r \in Requests, Serve(r) PROVE TypeOK'
  <2>1. status' \in [Requests -> Queue!Statuses]
    <3>1. CASE Queue!Release(r)
      BY <3>1, QueueSteps
    <3>2. ASSUME NEW w \in Requests, Queue!HandOver(r, w) PROVE status' \in [Requests -> Queue!Statuses]
      <4>1. status' = [status EXCEPT ![r] = "released", ![w] = "admitted"]
        BY <3>2, QueueSteps
      <4> QED
        BY <4>1
    <3> QED
      BY <1>5, <3>1, <3>2 DEF Serve
  <2> QED
    BY <1>5, <2>1 DEF Serve
<1>6. ASSUME NEW r \in Requests, Disconnect(r) \/ EndRequest(r) PROVE TypeOK'
  BY <1>6 DEF Disconnect, EndRequest
<1>7. ASSUME NEW r \in Requests, IncrementFailure(r) PROVE TypeOK'
  <2>1. /\ tries' \in [Requests -> 0..MaxTries]
        /\ pipe' \in [Requests -> [Tries -> {"none", "sent", "incremented", "done", "cut"}]]
    <3>1. CASE UNCHANGED <<tries, pipe>>
      BY <3>1
    <3>2. CASE Send(r)
      <4>1. tries[r] + 1 \in 1..MaxTries /\ tries[r] + 1 \in Tries
        BY <3>2 DEF Send, Tries
      <4> QED
        BY <3>2, <4>1 DEF Send
    <3> QED
      BY <1>7, <3>1, <3>2, GoroutineFrame
  <2>2. faults' \in 0..MaxFaults
    BY <1>7 DEF IncrementFailure, Send, ReadReplies, TryAgain, IncrementFails, Error, Fault
  <2>3. increment' \in [Requests -> {"off", "started", "waiting", "counted", "lost"}]
    <3>1. PICK l \in {"started", "waiting", "counted", "lost"} : increment' = [increment EXCEPT ![r] = l]
      BY <1>7, GoroutineFrame
    <3> QED
      BY <3>1
  <2>4. UNCHANGED <<status, client, stage, priority, failures, lifetime, timedOut, gone, cancelled>>
    BY <1>7, GoroutineFrame
  <2> QED
    BY <2>1, <2>2, <2>3, <2>4
<1>8. ASSUME NEW r \in Requests, NEW k \in Tries, Redis(r, k) PROVE TypeOK'
  <2>1. client[r] \in Clients
    <3>1. k >= 1 /\ k <= tries[r]
      BY <1>8, RedisFrame DEF PipeLink, Tries
    <3>2. tries[r] > 0
      BY <3>1 DEF Tries
    <3> QED
      BY <3>2 DEF CountLink, GoroutineLink
  <2>2. failures' \in [Clients -> Nat]
    BY <1>8, <2>1, RedisFrame DEF Increment
  <2>3. lifetime' \in [Clients -> {"absent", "persistent", "expiring"}]
    BY <1>8, <2>1 DEF Redis, Increment, Expire, IncrementRefused, ExpireRefused, Expiring
  <2>4. faults' \in 0..MaxFaults
    BY <1>8 DEF Redis, Increment, Expire, IncrementRefused, ExpireRefused, Fault
  <2>5. pipe' \in [Requests -> [Tries -> {"none", "sent", "incremented", "done", "cut"}]]
    <3>1. PICK p \in {"none", "incremented", "done", "cut"} : pipe' = [pipe EXCEPT ![r][k] = p]
      BY <1>8, RedisFrame
    <3> QED
      BY <3>1
  <2>6. UNCHANGED <<status, client, stage, priority, increment, tries, timedOut, gone, cancelled>>
    BY <1>8, RedisFrame
  <2> QED
    BY <2>2, <2>3, <2>4, <2>5, <2>6
<1>9. ASSUME NEW c \in Clients, FailuresExpire(c) PROVE TypeOK'
  BY <1>9 DEF FailuresExpire
<1>10. CASE UNCHANGED vars
  BY <1>10, OtherFrame
<1> QED
  BY <1>1, <1>2, <1>3, <1>4, <1>5, <1>6, <1>7, <1>8, <1>9, <1>10, StepCases DEF Handle

-----------------------------------------------------------------------------
\* The middleware and the queue stay in agreement; a hand-over needs it of two
\* requests at once.
LEMMA StageStep == TypeOK /\ StageLink /\ [Next]_vars => StageLink'
<1> SUFFICES ASSUME TypeOK, StageLink, [Next]_vars PROVE StageLink'
  OBVIOUS
<1>1. /\ status = [q \in Requests |-> status[q]] /\ stage = [q \in Requests |-> stage[q]]
  BY DEF TypeOK, Queue!TypeOK
<1> USE <1>1 DEF StageLink, Goto
<1>2. ASSUME NEW r \in Requests, Bypass(r) \/ LookUpPriority(r) \/ ReceiveSlot(r) \/ Refuse429(r)
      PROVE  StageLink'
  BY <1>2 DEF Bypass, LookUpPriority, ReceiveSlot, Refuse429
<1>3. ASSUME NEW r \in Requests, AcquireAtOnce(r) \/ WaitForSlot(r) PROVE StageLink'
  BY <1>3, QueueSteps DEF AcquireAtOnce, WaitForSlot
<1>4. ASSUME NEW r \in Requests, TimeOut(r) \/ NoticeCancel(r) PROVE StageLink'
  BY <1>4, QueueSteps DEF TimeOut, NoticeCancel
<1>5. ASSUME NEW r \in Requests, Serve(r) PROVE StageLink'
  <2>1. stage[r] = "serving" /\ stage' = [stage EXCEPT ![r] = "answered"] /\ client' = client
    BY <1>5 DEF Serve
  <2>2. CASE Queue!Release(r)
    BY <2>1, <2>2, QueueSteps
  <2>3. ASSUME NEW w \in Requests, Queue!HandOver(r, w) PROVE StageLink'
    <3>1. /\ status[w] = "waiting" /\ r # w
          /\ status' = [status EXCEPT ![r] = "released", ![w] = "admitted"]
      BY <2>3, QueueSteps
    <3>2. stage[w] = "queued"
      BY <3>1 DEF TypeOK
    <3> QED
      BY <2>1, <3>1, <3>2
  <2> QED
    BY <1>5, <2>2, <2>3 DEF Serve
<1>6. ASSUME UNCHANGED <<status, stage, client>> PROVE StageLink'
  BY <1>6
<1>7. \/ \E r \in Requests : Handle(r)
      \/ UNCHANGED <<status, stage, client>>
  BY StepCases, GoroutineFrame, RedisFrame, OtherFrame
<1> HIDE DEF StageLink
<1> QED
  BY <1>2, <1>3, <1>4, <1>5, <1>6, <1>7 DEF Handle

\* A refusal is final: no operation of the queue is about a refused request.
LEMMA RefusedStays ==
  ASSUME TypeOK, [Next]_vars, NEW r \in Requests, status[r] = "refused"
  PROVE  status'[r] = "refused"
<1>1. \A q \in Requests : AcquireAtOnce(q) \/ WaitForSlot(q) \/ TimeOut(q) \/ NoticeCancel(q)
        => status'[r] = "refused"
  BY QueueSteps DEF AcquireAtOnce, WaitForSlot, TimeOut, NoticeCancel, TypeOK, Queue!TypeOK
<1>2. \A q \in Requests : Serve(q) => status'[r] = "refused"
  BY QueueSteps DEF Serve, TypeOK, Queue!TypeOK
<1>3. \/ \E q \in Requests : AcquireAtOnce(q) \/ WaitForSlot(q) \/ TimeOut(q) \/ NoticeCancel(q) \/ Serve(q)
      \/ status' = status
  BY StepCases, GoroutineFrame, RedisFrame, OtherFrame
  DEF Handle, Bypass, LookUpPriority, ReceiveSlot, Refuse429
<1> QED
  BY <1>1, <1>2, <1>3

\* The client of a request is that of its header, throughout.
LEMMA ClientStays == [Next]_vars => client' = client
BY StepCases, HandleFrame, GoroutineFrame, RedisFrame, OtherFrame

LEMMA GoroutineStep ==
  TypeOK /\ StageLink /\ GoroutineLink /\ [Next]_vars => GoroutineLink'
<1> SUFFICES ASSUME TypeOK, StageLink, GoroutineLink, [Next]_vars, NEW r \in Requests, increment'[r] # "off"
             PROVE  stage'[r] = "answered" /\ status'[r] = "refused" /\ client'[r] \in Clients
  BY DEF GoroutineLink
<1>1. client' = client
  BY ClientStays
<1>2. CASE increment[r] # "off"
  <2>1. stage[r] = "answered" /\ status[r] = "refused" /\ client[r] \in Clients
    BY <1>2 DEF GoroutineLink
  <2>2. ASSUME NEW q \in Requests, Handle(q) PROVE stage'[r] = "answered"
    BY <2>1, <2>2
    DEF TypeOK, Goto, Handle, Bypass, LookUpPriority, AcquireAtOnce, WaitForSlot, ReceiveSlot,
        TimeOut, NoticeCancel, Refuse429, Serve
  <2>3. stage'[r] = "answered"
    BY <2>1, <2>2, StepCases, GoroutineFrame, RedisFrame, OtherFrame
  <2> QED
    BY <1>1, <2>1, <2>3, RefusedStays
<1>3. CASE increment[r] = "off"
  <2>1. ASSUME NEW q \in Requests, Handle(q) PROVE q = r /\ Refuse429(q)
    <3>1. Refuse429(q)
      BY <1>3, <2>1, HandleFrame
    <3> QED
      BY <1>3, <3>1 DEF Refuse429, TypeOK
  <2>2. ASSUME NEW q \in Requests, IncrementFailure(q) PROVE FALSE
    BY <1>3, <2>2, GoroutineFrame DEF TypeOK
  <2>3. Refuse429(r)
    BY <1>3, <2>1, <2>2, StepCases, RedisFrame, OtherFrame
  <2>4. stage[r] = "queued" /\ status[r] = "refused" /\ stage'[r] = "answered"
    BY <2>3 DEF Refuse429, Goto, TypeOK
  <2>5. client[r] \in Clients
    BY <2>4 DEF StageLink, TypeOK
  <2> QED
    BY <1>1, <2>4, <2>5, RefusedStays
<1> QED
  BY <1>2, <1>3

\* What has happened stays so.
LEMMA HistoryStays == [Next]_vars => timedOut \subseteq timedOut' /\ cancelled \subseteq cancelled'
<1> SUFFICES ASSUME [Next]_vars PROVE timedOut \subseteq timedOut' /\ cancelled \subseteq cancelled'
  OBVIOUS
<1> QED
  BY StepCases, HandleFrame, GoroutineFrame, RedisFrame, OtherFrame

\* A timeout is noted with the refusal, and a cancelled context stays so.
LEMMA RefusalStep == TypeOK /\ RefusalLink /\ [Next]_vars => RefusalLink'
<1> SUFFICES ASSUME TypeOK, RefusalLink, [Next]_vars, NEW r \in Requests, status'[r] = "refused"
             PROVE  r \in timedOut' \cup cancelled'
  BY DEF RefusalLink
<1>1. timedOut \subseteq timedOut' /\ cancelled \subseteq cancelled'
  BY HistoryStays
<1>2. CASE status[r] = "refused"
  BY <1>1, <1>2 DEF RefusalLink
<1>3. CASE status[r] # "refused"
  <2>1. TimeOut(r) \/ NoticeCancel(r)
    <3>1. \/ \E q \in Requests : AcquireAtOnce(q) \/ WaitForSlot(q) \/ TimeOut(q) \/ NoticeCancel(q) \/ Serve(q)
          \/ status' = status
      BY StepCases, GoroutineFrame, RedisFrame, OtherFrame
      DEF Handle, Bypass, LookUpPriority, ReceiveSlot, Refuse429
    <3>2. ASSUME NEW q \in Requests, AcquireAtOnce(q) \/ WaitForSlot(q) \/ Serve(q) PROVE status'[r] # "refused"
      BY <1>3, <3>2, QueueSteps DEF AcquireAtOnce, WaitForSlot, Serve, TypeOK, Queue!TypeOK
    <3>3. ASSUME NEW q \in Requests, TimeOut(q) \/ NoticeCancel(q) PROVE q = r
      BY <1>3, <3>3, QueueSteps DEF TimeOut, NoticeCancel, TypeOK, Queue!TypeOK
    <3> QED
      BY <1>3, <3>1, <3>2, <3>3
  <2> QED
    BY <2>1 DEF TimeOut, NoticeCancel
<1> QED
  BY <1>2, <1>3

-----------------------------------------------------------------------------
\* Only Send makes a copy, and only for a request whose context is not done.
LEMMA SendCases ==
  ASSUME [Next]_vars
  PROVE  \/ \E r \in Requests : Send(r)
         \/ tries' = tries
BY StepCases, HandleFrame, GoroutineFrame, RedisFrame, OtherFrame

LEMMA CountStep ==
  TypeOK /\ GoroutineLink /\ RefusalLink /\ CountLink /\ [Next]_vars => CountLink'
<1> SUFFICES ASSUME TypeOK, GoroutineLink, RefusalLink, CountLink, [Next]_vars,
                    NEW r \in Requests, tries'[r] > 0
             PROVE  increment'[r] # "off" /\ r \in timedOut'
  BY DEF CountLink
<1>1. timedOut \subseteq timedOut'
  BY HistoryStays
<1>2. increment[r] # "off" => increment'[r] # "off"
  <2>1. ASSUME NEW q \in Requests, Handle(q), increment[r] # "off" PROVE increment'[r] # "off"
    BY <2>1, HandleFrame DEF Refuse429, TypeOK
  <2>2. ASSUME NEW q \in Requests, IncrementFailure(q), increment[r] # "off" PROVE increment'[r] # "off"
    BY <2>2, GoroutineFrame DEF TypeOK
  <2> QED
    BY <2>1, <2>2, StepCases, RedisFrame, OtherFrame
<1>3. CASE tries[r] > 0
  BY <1>1, <1>2, <1>3 DEF CountLink
<1>4. CASE ~(tries[r] > 0)
  <2>1. PICK q \in Requests : Send(q)
    BY <1>4, SendCases
  <2>2. q = r
    BY <1>4, <2>1 DEF Send, TypeOK
  <2>3. increment[r] = "started" /\ r \notin cancelled
    BY <2>1, <2>2 DEF Send
  <2>4. r \in timedOut
    BY <2>3 DEF GoroutineLink, RefusalLink
  <2> QED
    BY <1>1, <1>2, <2>3, <2>4
<1> QED
  BY <1>3, <1>4

\* A copy is made with the next number, and none is made by Redis.
LEMMA PipeStep == TypeOK /\ PipeLink /\ [Next]_vars => PipeLink'
<1> SUFFICES ASSUME TypeOK, PipeLink, [Next]_vars, NEW r \in Requests, NEW k \in Tries, pipe'[r][k] # "none"
             PROVE  k <= tries'[r]
  BY DEF PipeLink
<1>1. ASSUME NEW q \in Requests, Send(q) PROVE k <= tries'[r]
  <2>1. /\ tries' = [tries EXCEPT ![q] = @ + 1]
        /\ pipe' = [pipe EXCEPT ![q][tries[q] + 1] = "sent"]
    BY <1>1 DEF Send
  <2>2. tries[r] \in Nat /\ tries[q] \in Nat /\ k \in Nat
    BY DEF TypeOK, Tries
  <2>3. tries'[r] = IF q = r THEN tries[r] + 1 ELSE tries[r]
    BY <2>1 DEF TypeOK
  <2>4. CASE q = r /\ k = tries[q] + 1
    BY <2>2, <2>3, <2>4
  <2>5. CASE ~(q = r /\ k = tries[q] + 1)
    <3>1. pipe'[r][k] = pipe[r][k]
      BY <2>1, <2>5 DEF TypeOK
    <3>2. k <= tries[r]
      BY <3>1 DEF PipeLink
    <3> QED
      BY <2>2, <2>3, <3>2
  <2> QED
    BY <2>4, <2>5
<1>2. ASSUME NEW q \in Requests, NEW j \in Tries, Redis(q, j) PROVE k <= tries'[r]
  <2>1. tries' = tries /\ pipe[q][j] # "none"
    BY <1>2, RedisFrame
  <2>2. PICK p \in {"none", "incremented", "done", "cut"} : pipe' = [pipe EXCEPT ![q][j] = p]
    BY <1>2, RedisFrame
  <2>3. pipe[r][k] # "none"
    BY <2>1, <2>2 DEF TypeOK
  <2> QED
    BY <2>1, <2>3 DEF PipeLink
<1>3. CASE tries' = tries /\ pipe' = pipe
  BY <1>3 DEF PipeLink
<1> QED
  BY <1>1, <1>2, <1>3, StepCases, HandleFrame, GoroutineFrame, OtherFrame

LEMMA CopiesFinite == IsFiniteSet(Requests \X Tries)
<1>1. IsFiniteSet(Requests) /\ IsFiniteSet(Tries)
  BY QueueMiddlewareAssumption, FS_Interval DEF Tries
<1> QED
  BY <1>1, FS_Product

LEMMA CountedFinite ==
  ASSUME NEW c
  PROVE  IsFiniteSet(Counted(c)) /\ Cardinality(Counted(c)) \in Nat
<1>1. Counted(c) \subseteq Requests \X Tries
  BY DEF Counted
<1> QED
  BY <1>1, CopiesFinite, FS_Subset, FS_CardinalityType

\* What a step of Redis makes of the copies counted: an INCR adds its own, and no
\* other step takes one away or adds one.
LEMMA CountedStep ==
  ASSUME TypeOK, NEW r \in Requests, NEW k \in Tries, Redis(r, k), NEW c \in Clients
  PROVE  /\ Increment(r, k) /\ client[r] = c =>
              <<r, k>> \notin Counted(c) /\ Counted(c)' = Counted(c) \cup {<<r, k>>}
         /\ ~(Increment(r, k) /\ client[r] = c) => Counted(c)' = Counted(c)
<1> DEFINE InCounted(t) == client[t[1]] = c /\ pipe[t[1]][t[2]] \in {"incremented", "done", "cut"}
<1>1. client' = client
  BY RedisFrame
<1>2. PICK p \in {"none", "incremented", "done", "cut"} : pipe' = [pipe EXCEPT ![r][k] = p]
  BY RedisFrame
<1>3. /\ pipe'[r][k] = p
      /\ \A q \in Requests, j \in Tries : <<q, j>> # <<r, k>> => pipe'[q][j] = pipe[q][j]
  BY <1>2 DEF TypeOK
<1>4. /\ Increment(r, k) => pipe[r][k] = "sent" /\ p = "incremented"
      /\ ~Increment(r, k) => (pipe[r][k] \in {"incremented", "done", "cut"}
                                <=> p \in {"incremented", "done", "cut"})
  BY <1>3 DEF Redis, Increment, Expire, IncrementRefused, ExpireRefused, TypeOK
<1>5. ASSUME NEW t \in Requests \X Tries, t # <<r, k>>
      PROVE  t \in Counted(c)' <=> t \in Counted(c)
  <2>1. t = <<t[1], t[2]>> /\ t[1] \in Requests /\ t[2] \in Tries
    OBVIOUS
  <2>2. pipe'[t[1]][t[2]] = pipe[t[1]][t[2]]
    BY <1>3, <1>5, <2>1
  <2> QED
    BY <1>1, <2>2 DEF Counted
<1>6. /\ <<r, k>> \in Counted(c) <=> client[r] = c /\ pipe[r][k] \in {"incremented", "done", "cut"}
      /\ <<r, k>> \in Counted(c)' <=> client[r] = c /\ p \in {"incremented", "done", "cut"}
  BY <1>1, <1>3 DEF Counted
<1>7. Counted(c) \subseteq Requests \X Tries /\ Counted(c)' \subseteq Requests \X Tries
  BY DEF Counted
<1> QED
  BY <1>4, <1>5, <1>6, <1>7

\* An INCR adds one to the count and one to the copies counted; a key that
\* expires leaves a count of zero.
LEMMA FailureStep == TypeOK /\ PipeLink /\ FailureLink /\ [Next]_vars => FailureLink'
<1> SUFFICES ASSUME TypeOK, PipeLink, FailureLink, [Next]_vars, NEW c \in Clients
             PROVE  failures'[c] <= Cardinality(Counted(c)')
  BY DEF FailureLink
<1>1. failures[c] \in Nat /\ failures[c] <= Cardinality(Counted(c))
  BY DEF TypeOK, FailureLink
<1>2. ASSUME NEW r \in Requests, NEW k \in Tries, Redis(r, k)
      PROVE  failures'[c] <= Cardinality(Counted(c)')
  <2>1. CASE Increment(r, k) /\ client[r] = c
    <3>1. failures'[c] = failures[c] + 1
      BY <2>1 DEF Increment, TypeOK
    <3>2. <<r, k>> \notin Counted(c) /\ Counted(c)' = Counted(c) \cup {<<r, k>>}
      BY <1>2, <2>1, CountedStep
    <3>3. Cardinality(Counted(c) \cup {<<r, k>>}) = Cardinality(Counted(c)) + 1
      BY <3>2, CountedFinite, FS_AddElement
    <3> QED
      BY <1>1, <3>1, <3>2, <3>3, CountedFinite
  <2>2. CASE ~(Increment(r, k) /\ client[r] = c)
    <3>1. failures'[c] = failures[c]
      BY <1>2, <2>2, RedisFrame DEF Increment, TypeOK
    <3>2. Counted(c)' = Counted(c)
      BY <1>2, <2>2, CountedStep
    <3> QED
      BY <1>1, <3>1, <3>2
  <2> QED
    BY <2>1, <2>2
<1>3. ASSUME NEW d \in Clients, FailuresExpire(d) PROVE failures'[c] <= Cardinality(Counted(c)')
  <2>1. Counted(c)' = Counted(c)
    BY <1>3, OtherFrame DEF Counted
  <2>2. failures'[c] = 0 \/ failures'[c] = failures[c]
    BY <1>3 DEF FailuresExpire, TypeOK
  <2> QED
    BY <1>1, <2>1, <2>2, CountedFinite
<1>4. ASSUME NEW r \in Requests, IncrementFailure(r) PROVE failures'[c] <= Cardinality(Counted(c)')
  <2>1. Counted(c)' = Counted(c)
    <3>1. CASE Send(r)
      <4>1. pipe' = [pipe EXCEPT ![r][tries[r] + 1] = "sent"] /\ client' = client
        BY <3>1 DEF Send
      <4>2. ASSUME NEW t \in Requests \X Tries
            PROVE  \/ pipe'[t[1]][t[2]] = pipe[t[1]][t[2]]
                   \/ pipe'[t[1]][t[2]] = "sent" /\ pipe[t[1]][t[2]] = "none"
        <5>1. t[1] \in Requests /\ t[2] \in Tries /\ t[2] \in Nat /\ tries[r] \in Nat
          BY DEF Tries, TypeOK
        <5>2. CASE t[1] = r /\ t[2] = tries[r] + 1
          <6>1. ~(t[2] <= tries[r])
            BY <5>1, <5>2
          <6>2. pipe[t[1]][t[2]] = "none"
            BY <5>1, <5>2, <6>1 DEF PipeLink
          <6>3. pipe'[t[1]][t[2]] = "sent"
            BY <4>1, <5>1, <5>2 DEF TypeOK
          <6> QED
            BY <6>2, <6>3
        <5>3. CASE ~(t[1] = r /\ t[2] = tries[r] + 1)
          BY <4>1, <5>1, <5>3 DEF TypeOK
        <5> QED
          BY <5>2, <5>3
      <4> QED
        BY <4>1, <4>2 DEF Counted
    <3>2. CASE pipe' = pipe
      BY <1>4, <3>2, GoroutineFrame DEF Counted
    <3> QED
      BY <1>4, <3>1, <3>2, GoroutineFrame
  <2> QED
    BY <1>1, <1>4, <2>1, GoroutineFrame
<1>5. ASSUME UNCHANGED <<failures, client, pipe>> PROVE failures'[c] <= Cardinality(Counted(c)')
  <2>1. Counted(c)' = Counted(c)
    BY <1>5 DEF Counted
  <2> QED
    BY <1>1, <1>5, <2>1
<1> QED
  BY <1>2, <1>3, <1>4, <1>5, StepCases, HandleFrame, OtherFrame

-----------------------------------------------------------------------------
\* At the start nobody has been refused and nothing is counted.
LEMMA InitIInv == Init => IInv
<1> SUFFICES ASSUME Init PROVE IInv
  OBVIOUS
<1>1. /\ status = [r \in Requests |-> "idle"] /\ stage = [r \in Requests |-> "arrived"]
      /\ increment = [r \in Requests |-> "off"] /\ failures = [c \in Clients |-> 0]
      /\ tries = [r \in Requests |-> 0] /\ pipe = [r \in Requests |-> [k \in Tries |-> "none"]]
  BY DEF Init, Queue!Init
<1>2. TypeOK
  BY <1>1, QueueMiddlewareAssumption DEF Init, TypeOK, Queue!TypeOK, Queue!Statuses
<1>3. StageLink /\ GoroutineLink /\ RefusalLink /\ CountLink /\ PipeLink
  BY <1>1 DEF StageLink, GoroutineLink, RefusalLink, CountLink, PipeLink
<1>4. FailureLink
  BY <1>1, CountedFinite DEF FailureLink
<1> QED
  BY <1>2, <1>3, <1>4 DEF IInv

\* The inductive invariant holds throughout, under every interleaving of
\* handlers, disconnects, counting goroutines, copies of pipelines and expiring
\* keys.
THEOREM Invariance == Spec => []IInv
<1>1. IInv /\ [Next]_vars => IInv'
  BY TypeStep, StageStep, GoroutineStep, RefusalStep, CountStep, PipeStep, FailureStep DEF IInv
<1> QED
  BY InitIInv, <1>1, PTL DEF Spec

\* Every variable keeps its type; in particular no count, however high, takes
\* a priority below its floor (CalculatePriority).
THEOREM TypeCorrect == Spec => []TypeOK
<1>1. IInv => TypeOK
  BY DEF IInv
<1> QED
  BY Invariance, <1>1, PTL

\* Every failure counted against a client is a pipeline that one of its requests
\* sent after it had timed out; how disconnects, counting goroutines, faults and
\* copies that are late race does not matter.
THEOREM NobodyPunishedForLeaving == Spec => []PenaltyIsEarned
<1>1. ASSUME IInv, NEW c \in Clients PROVE failures[c] <= Cardinality(Penalties(c))
  <2>1. failures[c] \in Nat /\ failures[c] <= Cardinality(Counted(c))
    BY <1>1 DEF IInv, TypeOK, FailureLink
  <2>2. ASSUME NEW t \in Counted(c) PROVE t \in Penalties(c)
    <3>1. /\ t \in Requests \X Tries /\ t[1] \in Requests /\ t[2] \in Tries
          /\ client[t[1]] = c /\ pipe[t[1]][t[2]] # "none"
      BY DEF Counted
    <3>2. t[2] <= tries[t[1]]
      BY <1>1, <3>1 DEF IInv, PipeLink
    <3>3. tries[t[1]] > 0
      BY <1>1, <3>1, <3>2 DEF IInv, TypeOK, Tries
    <3>4. t[1] \in timedOut
      BY <1>1, <3>1, <3>3 DEF IInv, CountLink
    <3> QED
      BY <3>1, <3>2, <3>4 DEF Penalties
  <2>3. IsFiniteSet(Penalties(c))
    <3>1. Penalties(c) \subseteq Requests \X Tries
      BY <1>1 DEF Penalties, IInv, TypeOK
    <3> QED
      BY <3>1, CopiesFinite, FS_Subset
  <2>4. Cardinality(Counted(c)) <= Cardinality(Penalties(c)) /\ Cardinality(Penalties(c)) \in Nat
    BY <2>2, <2>3, FS_Subset, FS_CardinalityType
  <2> QED
    BY <2>1, <2>4, CountedFinite
<1>2. IInv => PenaltyIsEarned
  BY <1>1 DEF PenaltyIsEarned
<1> QED
  BY Invariance, <1>2, PTL

\* A handler that ends leaves no slot behind, also when the slot was handed to
\* a request whose client had gone; whoever is served owns one.
THEOREM NoSlotLeftBehind == Spec => []SlotsEndWithHandlers
<1>1. IInv => SlotsEndWithHandlers
  BY DEF IInv, StageLink, SlotsEndWithHandlers
<1> QED
  BY Invariance, <1>1, PTL

=============================================================================
