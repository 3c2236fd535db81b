--------------------------- MODULE HRNQueueProofs ---------------------------
(***************************************************************************)
(* Proofs about HRNQueue for any number of requests and slots.             *)
(*                                                                         *)
(* The inductive invariant has three parts: the types, the links between   *)
(* the goroutines of one waiter (its request, its timeout goroutine, the   *)
(* Release that has popped it), and the conservation of slots.  The links  *)
(* are what makes conservation inductive: a Release gives its slot away    *)
(* only to a request that is still waiting, because a waiter without an    *)
(* answer is one.                                                          *)
(***************************************************************************)
EXTENDS HRNQueue, FiniteSetTheorems, TLAPS

\* A Release has a waiter in hand exactly between its Pop and its complete.
PopLink == \A r \in Requests : pc[r] = "granting" <=> popped[r] # NoWaiter

\* Only a waiter can be in the heap, be popped, or have an answer.
WaiterLink ==
  \A w \in Requests :
    /\ timer[w] = "off" => w \notin heap /\ answer[w] = "none" /\ pc[w] # "waiting"
    /\ timer[w] # "off" => pc[w] \notin {"new", "enqueue"}
    /\ \A r \in Requests : popped[r] = w => timer[w] # "off" /\ w \notin heap

\* A waiter without an answer still waits, its timeout is armed, and it is in
\* the heap or in the hand of a Release.
UnansweredLink ==
  \A w \in Requests : timer[w] # "off" /\ answer[w] = "none" =>
    /\ pc[w] = "waiting"
    /\ timer[w] = "armed"
    /\ w \in heap \/ \E r \in Requests : popped[r] = w

Links == PopLink /\ WaiterLink /\ UnansweredLink

IInv == TypeOK /\ Links /\ NoStaleWaiter /\ SlotConservation

-----------------------------------------------------------------------------
\* The types are inductive on their own: tokens are taken only when there is
\* one and returned only when there is room.
LEMMA TypeStep == TypeOK /\ [Next]_vars => TypeOK'
<1> SUFFICES ASSUME TypeOK, [Next]_vars PROVE TypeOK'
  OBVIOUS
<1> USE HRNQueueAssumption DEF TypeOK
<1>1. ASSUME NEW r \in Requests, Arrive(r) PROVE TypeOK'
  BY <1>1 DEF Arrive, AcquireNow, CreateWaiter, Goto
<1>2. ASSUME NEW r \in Requests, RequestStep(r) PROVE TypeOK'
  <2>1. CASE Enqueue(r) BY <2>1 DEF Enqueue, Goto
  <2>2. CASE Receive(r) BY <2>2 DEF Receive, Goto
  <2>3. CASE Finish(r) BY <2>3 DEF Finish, Goto
  <2>4. CASE FindEmpty(r) BY <2>4 DEF FindEmpty, Goto
  <2>5. CASE ReturnSlot(r) BY <2>5 DEF ReturnSlot, Goto
  <2>6. CASE PopWaiter(r) BY <2>6 DEF PopWaiter, Goto
  <2>7. CASE Grant(r) BY <2>7 DEF Grant, Complete, Goto
  <2>8. CASE TryNext(r) BY <2>8 DEF TryNext, Goto
  <2> QED BY <1>2, <2>1, <2>2, <2>3, <2>4, <2>5, <2>6, <2>7, <2>8 DEF RequestStep
<1>3. ASSUME NEW r \in Requests, TimerStep(r) PROVE TypeOK'
  BY <1>3 DEF TimerStep, GiveUp, RemoveWaiter, Complete
<1>4. ASSUME NEW r \in Requests, Cancel(r) PROVE TypeOK'
  BY <1>4 DEF Cancel
<1>5. CASE Tick
  <2>1. age' \in [Requests -> 0..MaxAge]
    BY <1>5 DEF Tick
  <2> QED BY <1>5, <2>1 DEF Tick
<1>6. CASE UNCHANGED vars
  BY <1>6 DEF vars
<1> QED BY <1>1, <1>2, <1>3, <1>4, <1>5, <1>6 DEF Next, AllServed

-----------------------------------------------------------------------------
\* Each step keeps the goroutines of a waiter in agreement, and a waiter that
\* has its answer leaves the heap.
LEMMA LinkStep ==
  TypeOK /\ Links /\ NoStaleWaiter /\ [Next]_vars => Links' /\ NoStaleWaiter'
<1> SUFFICES ASSUME TypeOK, Links, NoStaleWaiter, [Next]_vars
             PROVE  Links' /\ NoStaleWaiter'
  OBVIOUS
<1> USE HRNQueueAssumption
    DEF TypeOK, Links, PopLink, WaiterLink, UnansweredLink, NoStaleWaiter
<1>1. ASSUME NEW r \in Requests, Arrive(r) PROVE Links' /\ NoStaleWaiter'
  BY <1>1 DEF Arrive, AcquireNow, CreateWaiter, Goto
<1>2. ASSUME NEW r \in Requests, RequestStep(r) PROVE Links' /\ NoStaleWaiter'
  <2>1. CASE Enqueue(r) BY <2>1 DEF Enqueue, Goto
  <2>2. CASE Receive(r) BY <2>2 DEF Receive, Goto
  <2>3. CASE Finish(r) BY <2>3 DEF Finish, Goto
  <2>4. CASE FindEmpty(r) BY <2>4 DEF FindEmpty, Goto
  <2>5. CASE ReturnSlot(r) BY <2>5 DEF ReturnSlot, Goto
  <2>6. CASE PopWaiter(r) BY <2>6 DEF PopWaiter, Goto
  <2>7. CASE Grant(r) BY <2>7 DEF Grant, Complete, Goto
  <2>8. CASE TryNext(r) BY <2>8 DEF TryNext, Goto
  <2> QED BY <1>2, <2>1, <2>2, <2>3, <2>4, <2>5, <2>6, <2>7, <2>8 DEF RequestStep
<1>3. ASSUME NEW r \in Requests, TimerStep(r) PROVE Links' /\ NoStaleWaiter'
  <2>1. CASE GiveUp(r) BY <2>1 DEF GiveUp, Complete
  <2>2. CASE RemoveWaiter(r) BY <2>2 DEF RemoveWaiter
  <2> QED BY <1>3, <2>1, <2>2 DEF TimerStep
<1>4. ASSUME NEW r \in Requests, Cancel(r) PROVE Links' /\ NoStaleWaiter'
  BY <1>4 DEF Cancel
<1>5. CASE Tick
  BY <1>5 DEF Tick
<1>6. CASE UNCHANGED vars
  BY <1>6 DEF vars
<1> QED BY <1>1, <1>2, <1>3, <1>4, <1>5, <1>6 DEF Next, AllServed

-----------------------------------------------------------------------------
\* The owners are finitely many, so their number changes by one with each.
LEMMA OwnersFinite ==
  /\ IsFiniteSet(SlotOwners)
  /\ Cardinality(SlotOwners) \in Nat
<1>1. SlotOwners \in SUBSET Requests
  BY DEF SlotOwners
<1>2. IsFiniteSet(SlotOwners)
  BY <1>1, FS_Subset, HRNQueueAssumption
<1> QED BY <1>2, FS_CardinalityType

\* A step that leaves the owners and the channel alone conserves the slots.
LEMMA SameOwners ==
  ASSUME SlotConservation, SlotOwners' = SlotOwners, sem' = sem
  PROVE  SlotConservation'
BY DEF SlotConservation

\* Each step takes a token for one new owner, returns the token of one owner,
\* replaces one owner by another, or touches neither.
LEMMA ConservationStep ==
  TypeOK /\ Links /\ SlotConservation /\ [Next]_vars => SlotConservation'
<1> SUFFICES ASSUME TypeOK, Links, SlotConservation, [Next]_vars
             PROVE  SlotConservation'
  OBVIOUS
<1> USE HRNQueueAssumption DEF TypeOK, SlotOwners, Owns
<1>1. ASSUME NEW r \in Requests, AcquireNow(r) PROVE SlotConservation'
  <2>1. SlotOwners' = SlotOwners \cup {r} /\ r \notin SlotOwners
    BY <1>1 DEF AcquireNow, Goto
  <2>2. Cardinality(SlotOwners \cup {r}) = Cardinality(SlotOwners) + 1
    BY <2>1, OwnersFinite, FS_AddElement
  <2>3. sem' = sem - 1
    BY <1>1 DEF AcquireNow
  <2> HIDE DEF SlotOwners
  <2> QED BY <2>1, <2>2, <2>3, OwnersFinite DEF SlotConservation
<1>2. ASSUME NEW r \in Requests, CreateWaiter(r) PROVE SlotConservation'
  <2>1. SlotOwners' = SlotOwners /\ sem' = sem
    BY <1>2 DEF CreateWaiter, Goto
  <2> QED BY <2>1, SameOwners
<1>3. ASSUME NEW r \in Requests, RequestStep(r) PROVE SlotConservation'
  <2>1. CASE Enqueue(r)
    <3>1. answer[r] = "none"
      BY <2>1 DEF Enqueue, Links, WaiterLink
    <3>2. SlotOwners' = SlotOwners /\ sem' = sem
      BY <2>1, <3>1 DEF Enqueue, Goto
    <3> QED BY <3>2, SameOwners
  <2>2. CASE Receive(r)
    <3>1. SlotOwners' = SlotOwners /\ sem' = sem
      BY <2>2 DEF Receive, Goto
    <3> QED BY <3>1, SameOwners
  <2>3. CASE Finish(r) \/ FindEmpty(r)
    <3>1. SlotOwners' = SlotOwners /\ sem' = sem
      BY <2>3 DEF Finish, FindEmpty, Goto
    <3> QED BY <3>1, SameOwners
  <2>4. CASE PopWaiter(r) \/ TryNext(r)
    <3>1. SlotOwners' = SlotOwners /\ sem' = sem
      BY <2>4 DEF PopWaiter, TryNext, Goto
    <3> QED BY <3>1, SameOwners
  <2>5. CASE ReturnSlot(r)
    <3>1. SlotOwners' = SlotOwners \ {r} /\ r \in SlotOwners
      BY <2>5 DEF ReturnSlot, Goto
    <3>2. Cardinality(SlotOwners \ {r}) = Cardinality(SlotOwners) - 1
      BY <3>1, OwnersFinite, FS_RemoveElement
    <3>3. sem' = sem + 1
      BY <2>5 DEF ReturnSlot
    <3> HIDE DEF SlotOwners
    <3> QED BY <3>1, <3>2, <3>3, OwnersFinite DEF SlotConservation
  <2>6. CASE Grant(r)
    <3> DEFINE w == popped[r]
    <3>1. w \in Requests /\ answer[w] = "none" /\ timer[w] # "off" /\ sem' = sem
      BY <2>6 DEF Grant, Complete, Links, PopLink, WaiterLink
    <3>2. pc[w] = "waiting"
      BY <3>1 DEF Links, UnansweredLink
    <3>3. w \notin SlotOwners /\ r \in SlotOwners
      BY <2>6, <3>1, <3>2 DEF Grant
    <3>4. SlotOwners' = (SlotOwners \ {r}) \cup {w}
      BY <2>6, <3>1, <3>2 DEF Grant, Complete, Goto
    <3> HIDE DEF SlotOwners, w
    <3>5. /\ IsFiniteSet(SlotOwners \ {r})
          /\ Cardinality(SlotOwners \ {r}) = Cardinality(SlotOwners) - 1
      BY <3>3, OwnersFinite, FS_RemoveElement
    <3>6. Cardinality((SlotOwners \ {r}) \cup {w}) = Cardinality(SlotOwners \ {r}) + 1
      BY <3>3, <3>5, FS_AddElement
    <3> QED BY <3>1, <3>4, <3>5, <3>6, OwnersFinite DEF SlotConservation
  <2> QED BY <1>3, <2>1, <2>2, <2>3, <2>4, <2>5, <2>6 DEF RequestStep
<1>4. ASSUME NEW r \in Requests, TimerStep(r) PROVE SlotConservation'
  <2>1. SlotOwners' = SlotOwners /\ sem' = sem
    BY <1>4 DEF TimerStep, GiveUp, RemoveWaiter, Complete
  <2> QED BY <2>1, SameOwners
<1>5. CASE (\E r \in Requests : Cancel(r)) \/ Tick \/ UNCHANGED vars
  <2>1. SlotOwners' = SlotOwners /\ sem' = sem
    BY <1>5 DEF Cancel, Tick, vars
  <2> QED BY <2>1, SameOwners
<1> QED BY <1>1, <1>2, <1>3, <1>4, <1>5 DEF Next, AllServed, Arrive

-----------------------------------------------------------------------------
\* At the start every token is in the channel and nobody waits.
LEMMA InitIInv == Init => IInv
<1> SUFFICES ASSUME Init PROVE IInv
  OBVIOUS
<1>1. TypeOK
  BY HRNQueueAssumption DEF Init, TypeOK
<1>2. Links /\ NoStaleWaiter
  BY HRNQueueAssumption
     DEF Init, Links, PopLink, WaiterLink, UnansweredLink, NoStaleWaiter
<1>3. SlotOwners = {}
  BY DEF Init, SlotOwners, Owns
<1>4. SlotConservation
  BY <1>3, FS_EmptySet, HRNQueueAssumption DEF Init, SlotConservation
<1> QED BY <1>1, <1>2, <1>4 DEF IInv

\* The inductive invariant holds throughout: every behaviour of Acquire, the
\* timeouts and Release keeps the types, the links and the slots.
THEOREM Invariance == Spec => []IInv
<1>1. IInv /\ [Next]_vars => IInv'
  BY TypeStep, LinkStep, ConservationStep DEF IInv
<1> QED BY InitIInv, <1>1, PTL DEF Spec

\* For any number of requests and slots every variable of the queue keeps its
\* type; the channel never holds more than MaxInflight tokens.
THEOREM TypeCorrect == Spec => []TypeOK
<1>1. IInv => TypeOK
  BY DEF IInv
<1> QED BY Invariance, <1>1, PTL

\* For any number of requests and slots, no interleaving of timeouts,
\* cancellations and Releases loses a slot or makes one.
THEOREM SlotsConserved == Spec => []SlotConservation
<1>1. IInv => SlotConservation
  BY DEF IInv
<1> QED BY Invariance, <1>1, PTL

\* A Release that has found the heap empty always finds room in the channel:
\* it owns a slot, so the tokens in the channel are fewer than its capacity.
THEOREM ReleaseDoesNotBlock == Spec => []ReleaseNeverBlocks
<1>1. ASSUME IInv, NEW r \in Requests, pc[r] = "returning" PROVE sem < MaxInflight
  <2>1. r \in SlotOwners
    BY <1>1 DEF SlotOwners, Owns
  <2>2. Cardinality(SlotOwners) # 0
    BY <2>1, OwnersFinite, FS_EmptySet
  <2> QED BY <1>1, <2>2, OwnersFinite, HRNQueueAssumption
          DEF IInv, SlotConservation, TypeOK
<1>2. IInv => ReleaseNeverBlocks
  BY <1>1 DEF ReleaseNeverBlocks
<1> QED BY Invariance, <1>2, PTL

\* An answered waiter is in the heap only until its timeout goroutine has
\* removed it, however many requests there are.
THEOREM NoStaleWaiters == Spec => []NoStaleWaiter
<1>1. IInv => NoStaleWaiter
  BY DEF IInv
<1> QED BY Invariance, <1>1, PTL

\* A waiter without an answer always has a live timeout and is in the heap or
\* in the hand of a Release: nobody waits for an answer no one can send.
THEOREM NoForgottenWaiters == Spec => []NoForgottenWaiter
<1>1. IInv => NoForgottenWaiter
  BY DEF IInv, Links, WaiterLink, UnansweredLink, NoForgottenWaiter
<1> QED BY Invariance, <1>1, PTL

-----------------------------------------------------------------------------
\* Ages and priorities are numbers.
LEMMA AgeAndPriority ==
  ASSUME TypeOK, NEW r \in Requests
  PROVE  age[r] \in Nat /\ priority[r] \in Int
<1>1. age[r] \in 0..MaxAge
  BY DEF TypeOK
<1>2. age[r] \in Nat
  BY <1>1, HRNQueueAssumption
<1>3. priority[r] \in Priorities
  BY DEF TypeOK
<1>4. Priorities \subseteq Int
  BY HRNQueueAssumption
<1>5. priority[r] \in Int
  BY <1>3, <1>4
<1> QED BY <1>2, <1>5

\* A gap that ageing cannot close decides between two waiters.
LEMMA GapOutweighsAgeing ==
  ASSUME TypeOK, NEW v \in Requests, NEW w \in Requests,
         age[w] <= AcquireTimeout,
         EffectivePriority(v) <= EffectivePriority(w),
         priority[w] < priority[v] =>
           priority[w] + AgingRate * AcquireTimeout < priority[v]
  PROVE  priority[v] <= priority[w]
<1> DEFINE gain(u) == AgingRate * age[u]
           gap == AgingRate * AcquireTimeout
<1>1. age[v] \in Nat /\ age[w] \in Nat /\ priority[v] \in Int /\ priority[w] \in Int
  BY AgeAndPriority
<1>2. gain(v) \in Nat /\ gain(w) \in Nat /\ gap \in Nat
  BY <1>1, HRNQueueAssumption
<1>3. gain(w) <= gap
  BY <1>1, HRNQueueAssumption
<1>4. priority[v] + gain(v) <= priority[w] + gain(w)
  BY DEF EffectivePriority
<1>5. priority[w] < priority[v] => priority[w] + gap < priority[v]
  OBVIOUS
<1> HIDE DEF gain, gap
<1> QED BY <1>1, <1>2, <1>3, <1>4, <1>5

\* If two different priorities are always further apart than what a waiter
\* gains until its timeout (0.2 against 0.1 with the default configuration),
\* a Release never passes over a better priority for a waiter in time.
THEOREM AgeingNeverOvertakes ==
  ASSUME \A p, q \in Priorities : p < q => p + AgingRate * AcquireTimeout < q
  PROVE  Spec => PriorityBeatsAgeing
<1> DEFINE Fair(r) ==
      popped'[r] \notin {NoWaiter, popped[r]} =>
        (age[popped'[r]] <= AcquireTimeout =>
           \A v \in heap : priority[v] <= priority[popped'[r]])
<1> USE HRNQueueAssumption
<1>1. ASSUME TypeOK, NEW r \in Requests, PopWaiter(r), NEW q \in Requests
      PROVE  Fair(q)
  <2>1. CASE q = r
    <3>1. PICK w \in heap : Highest(w) /\ popped' = [popped EXCEPT ![r] = w]
      BY <1>1 DEF PopWaiter
    <3>2. popped'[q] = w
      BY <1>1, <2>1, <3>1 DEF TypeOK
    <3>3. ASSUME age[w] <= AcquireTimeout, NEW v \in heap
          PROVE  priority[v] <= priority[w]
      <4>1. v \in Requests /\ w \in Requests
        BY <1>1 DEF TypeOK
      <4>2. EffectivePriority(v) <= EffectivePriority(w)
        BY <3>1 DEF Highest
      <4>3. priority[v] \in Priorities /\ priority[w] \in Priorities
        BY <1>1, <4>1 DEF TypeOK
      <4>4. priority[w] < priority[v] =>
              priority[w] + AgingRate * AcquireTimeout < priority[v]
        BY <4>3
      <4> QED BY <1>1, <3>3, <4>1, <4>2, <4>4, GapOutweighsAgeing
    <3> QED BY <3>2, <3>3
  <2>2. CASE q # r
    BY <1>1, <2>2 DEF PopWaiter, TypeOK
  <2> QED BY <2>1, <2>2
<1>2. ASSUME TypeOK, NEW r \in Requests, Grant(r) \/ TryNext(r), NEW q \in Requests
      PROVE  Fair(q)
  BY <1>2 DEF Grant, TryNext, TypeOK
<1>3. ASSUME TypeOK, [Next]_vars, NEW q \in Requests, popped' = popped
      PROVE  Fair(q)
  BY <1>3
<1>4. ASSUME TypeOK, [Next]_vars, NEW q \in Requests
      PROVE  Fair(q)
  <2>1. \/ \E r \in Requests : PopWaiter(r) \/ Grant(r) \/ TryNext(r)
        \/ popped' = popped
    BY <1>4
       DEF Next, Arrive, AcquireNow, CreateWaiter, RequestStep, Enqueue, Receive,
           Finish, FindEmpty, ReturnSlot, TimerStep, GiveUp, RemoveWaiter, Cancel,
           Tick, AllServed, vars
  <2> HIDE DEF Fair
  <2> QED BY <1>1, <1>2, <1>3, <1>4, <2>1
<1>5. TypeOK /\ [Next]_vars =>
        [\A r \in Requests : popped'[r] \notin {NoWaiter, popped[r]} =>
           LET w == popped'[r]
           IN age[w] <= AcquireTimeout => \A v \in heap : priority[v] <= priority[w]]_vars
  BY <1>4
<1> QED BY TypeCorrect, <1>5, PTL DEF Spec, PriorityBeatsAgeing

-----------------------------------------------------------------------------
\* What the status of a request says about its goroutines, and back.
LEMMA StatusCases ==
  ASSUME IInv, NEW r \in Requests
  PROVE  /\ pc[r] = "new" <=> StatusOf(r) = "idle"
         /\ Owns(r) <=> StatusOf(r) = "admitted"
         /\ pc[r] = "done" <=> StatusOf(r) = "released"
         /\ pc[r] = "refused" \/ (pc[r] = "waiting" /\ answer[r] = "refused")
              => StatusOf(r) = "refused"
         /\ pc[r] = "enqueue" \/ (pc[r] = "waiting" /\ answer[r] = "none")
              => StatusOf(r) = "waiting"
BY DEF IInv, TypeOK, Links, WaiterLink, StatusOf, Owns

\* The contract counts the same requests as admitted as the queue does.
LEMMA AdmittedAreOwners ==
  ASSUME IInv PROVE Contract!Admitted = SlotOwners
BY StatusCases DEF Contract!Admitted, SlotOwners

\* The contract's copy of Cardinality is the queue's.
LEMMA SameCardinality == \A S : Contract!Cardinality(S) = Cardinality(S)
BY DEF Contract!Cardinality, Cardinality, Contract!IsFiniteSet, IsFiniteSet

\* A step that leaves every status alone is a stuttering step of the contract.
LEMMA StatusUnchanged ==
  ASSUME IInv, NEW r \in Requests,
         Enqueue(r) \/ Receive(r) \/ Finish(r) \/ FindEmpty(r)
           \/ PopWaiter(r) \/ TryNext(r) \/ RemoveWaiter(r) \/ Cancel(r)
           \/ Tick \/ UNCHANGED vars
  PROVE  [q \in Requests |-> StatusOf(q)]' = [q \in Requests |-> StatusOf(q)]
<1> SUFFICES ASSUME NEW q \in Requests PROVE StatusOf(q)' = StatusOf(q)
  OBVIOUS
<1> USE DEF IInv, TypeOK, Links, WaiterLink, StatusOf, Owns
<1>1. CASE Enqueue(r) BY <1>1 DEF Enqueue, Goto
<1>2. CASE Receive(r) BY <1>2 DEF Receive, Goto
<1>3. CASE Finish(r) \/ FindEmpty(r) \/ PopWaiter(r) \/ TryNext(r)
  BY <1>3 DEF Finish, FindEmpty, PopWaiter, TryNext, Goto
<1>4. CASE RemoveWaiter(r) \/ Cancel(r) \/ Tick \/ UNCHANGED vars
  BY <1>4 DEF RemoveWaiter, Cancel, Tick, vars
<1> QED BY <1>1, <1>2, <1>3, <1>4

\* Every step of the queue is a step of the contract or a stuttering step of it.
LEMMA RefinementStep == IInv /\ [Next]_vars => [Contract!Next]_(Contract!vars)
<1> SUFFICES ASSUME IInv, [Next]_vars PROVE [Contract!Next]_(Contract!vars)
  OBVIOUS
<1> DEFINE st == [q \in Requests |-> StatusOf(q)]
<1> USE DEF Contract!vars
<1>1. ASSUME NEW r \in Requests, AcquireNow(r) PROVE Contract!Admit(r)
  <2>1. st[r] = "idle" /\ st' = [st EXCEPT ![r] = "admitted"]
    BY <1>1 DEF AcquireNow, Goto, IInv, TypeOK, StatusOf, Owns
  <2>2. Cardinality(SlotOwners) < MaxInflight
    BY <1>1, OwnersFinite, HRNQueueAssumption
       DEF AcquireNow, IInv, SlotConservation, TypeOK
  <2> QED BY <2>1, <2>2, AdmittedAreOwners, SameCardinality DEF Contract!Admit
<1>2. ASSUME NEW r \in Requests, CreateWaiter(r) PROVE Contract!Wait(r)
  <2>1. st[r] = "idle" /\ st' = [st EXCEPT ![r] = "waiting"]
    BY <1>2 DEF CreateWaiter, Goto, IInv, TypeOK, Links, WaiterLink, StatusOf, Owns
  <2>2. Cardinality(SlotOwners) = MaxInflight
    BY <1>2, OwnersFinite DEF CreateWaiter, IInv, SlotConservation
  <2> QED BY <2>1, <2>2, AdmittedAreOwners, SameCardinality DEF Contract!Wait
<1>3. ASSUME NEW r \in Requests, ReturnSlot(r) PROVE Contract!Release(r)
  <2>1. st[r] = "admitted" /\ st' = [st EXCEPT ![r] = "released"]
    BY <1>3 DEF ReturnSlot, Goto, IInv, TypeOK, StatusOf, Owns
  <2> QED BY <2>1 DEF Contract!Release
<1>4. ASSUME NEW r \in Requests, Grant(r) PROVE Contract!HandOver(r, popped[r])
  <2> DEFINE w == popped[r]
  <2>1. w \in Requests /\ answer[w] = "none" /\ timer[w] # "off"
    BY <1>4, HRNQueueAssumption
       DEF Grant, Complete, IInv, TypeOK, Links, PopLink, WaiterLink
  <2>2. pc[w] = "waiting"
    BY <2>1 DEF IInv, Links, UnansweredLink
  <2>3. st[r] = "admitted" /\ st[w] = "waiting"
    BY <1>4, <2>1, <2>2 DEF Grant, StatusOf, Owns
  <2>4. st' = [st EXCEPT ![r] = "released", ![w] = "admitted"]
    BY <1>4, <2>1, <2>2 DEF Grant, Complete, Goto, IInv, TypeOK, StatusOf, Owns
  <2> QED BY <2>3, <2>4 DEF Contract!HandOver
<1>5. ASSUME NEW r \in Requests, GiveUp(r) PROVE Contract!Refuse(r) \/ st' = st
  <2>1. CASE Complete(r, "refused") /\ timer' = [timer EXCEPT ![r] = "removing"]
    <3>1. pc[r] = "waiting"
      BY <1>5, <2>1 DEF GiveUp, Complete, IInv, Links, UnansweredLink
    <3>2. st[r] = "waiting" /\ st' = [st EXCEPT ![r] = "refused"]
      BY <1>5, <2>1, <3>1 DEF GiveUp, Complete, IInv, TypeOK, StatusOf, Owns
    <3> QED BY <3>2 DEF Contract!Refuse
  <2>2. CASE UNCHANGED answer
    BY <1>5, <2>2 DEF GiveUp, StatusOf, Owns
  <2> QED BY <1>5, <2>1, <2>2 DEF GiveUp
<1>6. ASSUME NEW r \in Requests, Grant(r) PROVE popped[r] \in Requests
  BY <1>6, HRNQueueAssumption DEF Grant, IInv, TypeOK, Links, PopLink
<1>7. CASE Tick \/ UNCHANGED vars
  <2>1. st' = st
    BY <1>7 DEF Tick, vars, StatusOf, Owns
  <2> QED BY <2>1
<1> HIDE DEF st
<1> QED BY <1>1, <1>2, <1>3, <1>4, <1>5, <1>6, <1>7, StatusUnchanged
        DEF Next, Arrive, RequestStep, TimerStep, AllServed, Contract!Next, st

\* For any number of requests and slots the queue keeps the contract of
\* queue.go: at most MaxInflight admitted at a time, a slot released once or
\* handed to one waiter, only waiting requests refused.
THEOREM QueueKeepsContract == Spec => ImplementsRequestQueue
<1>1. Init => Contract!Init
  BY DEF Init, Contract!Init, StatusOf
<1> QED BY Invariance, <1>1, RefinementStep, PTL
        DEF Spec, ImplementsRequestQueue, Contract!Spec

=============================================================================
