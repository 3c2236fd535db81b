------------------------- MODULE SemaphoreQueueProofs -------------------------
(***************************************************************************)
(* Theorems about SemaphoreQueue, for every number of requests and slots.  *)
(*                                                                         *)
(* The links between the goroutines of one waiter are those of HRNQueue.   *)
(* What is new is the line: the slice is in the order in which its waiters *)
(* joined, and whoever has been taken out of it joined before them.        *)
(***************************************************************************)
EXTENDS SemaphoreQueue, FiniteSetTheorems, SequenceTheorems, TLAPS

\* A Release has a waiter in hand exactly between taking it and its complete.
PopLink == \A r \in Requests : pc[r] = "granting" <=> popped[r] # NoWaiter

\* Only a waiter can be in the line, be taken, or have an answer.
WaiterLink ==
  \A w \in Requests :
    /\ timer[w] = "off" => w \notin Line /\ answer[w] = "none" /\ pc[w] # "waiting"
    /\ timer[w] # "off" => pc[w] \notin {"new", "enqueue"}
    /\ \A r \in Requests : popped[r] = w => timer[w] # "off" /\ w \notin Line

\* A waiter without an answer still waits, its timeout is armed, and it is in
\* the line or in the hand of a Release.
UnansweredLink ==
  \A w \in Requests : timer[w] # "off" /\ answer[w] = "none" =>
    /\ pc[w] = "waiting"
    /\ timer[w] = "armed"
    /\ w \in Line \/ \E r \in Requests : popped[r] = w

\* Nobody is in the line twice.
Distinct == \A i, j \in 1..Len(waiters) : waiters[i] = waiters[j] => i = j

\* The history names everybody who has become a waiter, once.
EnteredLink ==
  /\ \A w \in Requests : timer[w] # "off" <=> \E i \in 1..Len(entered) : entered[i] = w
  /\ \A i, j \in 1..Len(entered) : entered[i] = entered[j] => i = j

Before(s, v, w) == \E i \in 1..Len(s) : \E j \in 1..(i - 1) : s[j] = v /\ s[i] = w

\* The line is in the order of the history, and nobody in it joined before one
\* that a Release has taken out.
OrderLink ==
  /\ \A a \in 1..Len(waiters) : \A b \in 1..(a - 1) : Before(entered, waiters[b], waiters[a])
  /\ \A r \in Requests : \A a \in 1..Len(waiters) : ~Before(entered, waiters[a], popped[r])

Links == PopLink /\ WaiterLink /\ UnansweredLink

IInv == TypeOK /\ Distinct /\ Links /\ EnteredLink /\ OrderLink /\ SlotConservation

-----------------------------------------------------------------------------
\* The line as a sequence.

\* A waiter is taken out of the line, at its head or in its middle.
TakenOut(i) ==
  /\ waiters' \in Seq(Requests) /\ Len(waiters') = Len(waiters) - 1
  /\ \A a \in 1..Len(waiters') : waiters'[a] = IF a < i THEN waiters[a] ELSE waiters[a + 1]

LEMMA RemoveTakesOut ==
  ASSUME waiters \in Seq(Requests), NEW i \in 1..Len(waiters),
         waiters' = SubSeq(waiters, 1, i - 1) \o SubSeq(waiters, i + 1, Len(waiters))
  PROVE  TakenOut(i)
<1> DEFINE front == SubSeq(waiters, 1, i - 1)
           back == SubSeq(waiters, i + 1, Len(waiters))
           n == Len(waiters)
<1>1. n \in Nat /\ i \in 1..n
  OBVIOUS
<1>2. front \in Seq(Requests) /\ Len(front) = i - 1 /\ \A a \in 1..(i - 1) : front[a] = waiters[a]
  OBVIOUS
<1>3. /\ back \in Seq(Requests) /\ Len(back) = n - i
      /\ \A a \in 1..(n - i) : back[a] = waiters[i + a]
  OBVIOUS
<1> HIDE DEF front, back, n
<1>4. /\ front \o back \in Seq(Requests) /\ Len(front \o back) = Len(front) + Len(back)
      /\ \A a \in 1..Len(front) + Len(back) :
           (front \o back)[a] = IF a <= Len(front) THEN front[a] ELSE back[a - Len(front)]
  BY <1>2, <1>3, ConcatProperties
<1>5. Len(front) + Len(back) = n - 1
  BY <1>1, <1>2, <1>3
<1>6. ASSUME NEW a \in 1..(n - 1)
      PROVE  (front \o back)[a] = IF a < i THEN waiters[a] ELSE waiters[a + 1]
  <2>1. CASE a < i
    BY <1>1, <1>2, <1>4, <1>5, <2>1
  <2>2. CASE ~(a < i)
    <3>1. a - (i - 1) \in 1..(n - i) /\ i + (a - (i - 1)) = a + 1 /\ ~(a <= i - 1)
      BY <1>1, <2>2
    <3> QED
      BY <1>2, <1>3, <1>4, <1>5, <2>2, <3>1
  <2> QED
    BY <2>1, <2>2
<1> QED
  BY <1>4, <1>5, <1>6 DEF TakenOut, front, back, n

LEMMA PopTakesOut ==
  ASSUME waiters \in Seq(Requests), waiters # <<>>, waiters' = Tail(waiters)
  PROVE  1 \in 1..Len(waiters) /\ Head(waiters) = waiters[1] /\ TakenOut(1)
<1>1. Len(waiters) \in Nat \ {0} /\ Head(waiters) = waiters[1]
  OBVIOUS
<1>2. /\ Tail(waiters) \in Seq(Requests) /\ Len(Tail(waiters)) = Len(waiters) - 1
      /\ \A a \in 1..Len(Tail(waiters)) : Tail(waiters)[a] = waiters[a + 1]
  BY HeadTailProperties
<1> QED
  BY <1>1, <1>2 DEF TakenOut

\* Where the waiter at place a was before the one at place i left.
OldPlace(a, i) == IF a < i THEN a ELSE a + 1

\* Every place of the line that is left is a place of the old one.
LEMMA OldPlaces ==
  ASSUME waiters \in Seq(Requests), NEW i \in 1..Len(waiters), TakenOut(i),
         NEW a \in 1..Len(waiters')
  PROVE  /\ OldPlace(a, i) \in 1..Len(waiters) /\ OldPlace(a, i) # i
         /\ waiters'[a] = waiters[OldPlace(a, i)]
<1>1. Len(waiters) \in Nat /\ Len(waiters') = Len(waiters) - 1
  BY DEF TakenOut
<1>2. CASE a < i
  <2>1. waiters'[a] = waiters[a]
    BY <1>2 DEF TakenOut
  <2> QED
    BY <1>1, <1>2, <2>1 DEF OldPlace
<1>3. CASE ~(a < i)
  <2>1. waiters'[a] = waiters[a + 1]
    BY <1>3 DEF TakenOut
  <2> QED
    BY <1>1, <1>3, <2>1 DEF OldPlace
<1> QED
  BY <1>2, <1>3

\* Nobody else leaves the line.
LEMMA LineShrinks ==
  ASSUME waiters \in Seq(Requests), Distinct, NEW i \in 1..Len(waiters), TakenOut(i)
  PROVE  Line' = Line \ {waiters[i]} /\ Distinct'
<1>1. Len(waiters) \in Nat /\ Len(waiters') = Len(waiters) - 1
  BY DEF TakenOut
<1>2. Line' \subseteq Line \ {waiters[i]}
  BY OldPlaces DEF Line, Distinct
<1>3. Line \ {waiters[i]} \subseteq Line'
  <2> SUFFICES ASSUME NEW c \in 1..Len(waiters), c # i PROVE waiters[c] \in Line'
    BY DEF Line
  <2>1. CASE c < i
    <3>1. c \in 1..Len(waiters') /\ waiters'[c] = waiters[c]
      BY <1>1, <2>1 DEF TakenOut
    <3> QED
      BY <3>1 DEF Line
  <2>2. CASE c > i
    <3>1. c - 1 \in 1..Len(waiters') /\ ~(c - 1 < i) /\ c - 1 + 1 = c
      BY <1>1, <2>2
    <3>2. waiters'[c - 1] = waiters[c]
      BY <3>1 DEF TakenOut
    <3> QED
      BY <3>1, <3>2 DEF Line
  <2> QED
    BY <2>1, <2>2
<1>4. Distinct'
  <2> SUFFICES ASSUME NEW a \in 1..Len(waiters'), NEW b \in 1..Len(waiters'),
                      waiters'[a] = waiters'[b]
               PROVE  a = b
    BY DEF Distinct
  <2>1. OldPlace(a, i) = OldPlace(b, i)
    BY OldPlaces DEF Distinct
  <2> QED
    BY <2>1 DEF OldPlace
<1> QED
  BY <1>2, <1>3, <1>4

LEMMA LineGrows ==
  ASSUME waiters \in Seq(Requests), Distinct, NEW r \in Requests, r \notin Line,
         waiters' = Append(waiters, r)
  PROVE  Line' = Line \cup {r} /\ Distinct'
<1>1. /\ Len(waiters') = Len(waiters) + 1 /\ Len(waiters) \in Nat
      /\ \A i \in 1..Len(waiters) : waiters'[i] = waiters[i]
      /\ waiters'[Len(waiters) + 1] = r
  OBVIOUS
<1> QED
  BY <1>1 DEF Line, Distinct

LEMMA LineCount ==
  ASSUME waiters \in Seq(Requests), Distinct
  PROVE  Cardinality(Line) = Len(waiters)
<1>1. Len(waiters) \in Nat /\ waiters \in [1..Len(waiters) -> Requests]
  OBVIOUS
<1>2. waiters \in Surjection(1..Len(waiters), Line)
  BY <1>1 DEF Surjection, Line
<1>3. waiters \in Injection(1..Len(waiters), Line)
  BY <1>1, <1>2 DEF Surjection, Injection, IsInjective, Distinct
<1>4. IsFiniteSet(1..Len(waiters)) /\ Cardinality(1..Len(waiters)) = Len(waiters)
  BY <1>1, FS_Interval
<1> QED
  BY <1>2, <1>3, <1>4, FS_Surjection

-----------------------------------------------------------------------------
\* What the three actions that touch the slice do to the line.
LEMMA LineStep ==
  ASSUME TypeOK, Distinct, Links, NEW r \in Requests
  PROVE  /\ JoinLine(r) => r \notin Line /\ Line' = Line \cup {r} /\ Distinct'
         /\ RemoveWaiter(r) =>
              /\ Line' = Line \ {r} /\ Distinct'
              /\ waiters' = waiters \/ \E i \in 1..Len(waiters) : waiters[i] = r /\ TakenOut(i)
         /\ PopWaiter(r) =>
              /\ 1 \in 1..Len(waiters) /\ TakenOut(1)
              /\ waiters[1] \in Requests /\ popped' = [popped EXCEPT ![r] = waiters[1]]
              /\ waiters[1] \in Line /\ Line' = Line \ {waiters[1]} /\ Distinct'
<1>1. waiters \in Seq(Requests)
  BY DEF TypeOK
<1>2. ASSUME JoinLine(r) PROVE r \notin Line /\ Line' = Line \cup {r} /\ Distinct'
  <2>1. r \notin Line
    BY <1>2 DEF JoinLine, Links, WaiterLink
  <2> QED
    BY <1>1, <1>2, <2>1, LineGrows DEF JoinLine
<1>3. ASSUME RemoveWaiter(r)
      PROVE  /\ Line' = Line \ {r} /\ Distinct'
             /\ waiters' = waiters \/ \E i \in 1..Len(waiters) : waiters[i] = r /\ TakenOut(i)
  <2>1. CASE r \notin Line /\ UNCHANGED waiters
    BY <2>1 DEF Line, Distinct
  <2>2. CASE ~(r \notin Line /\ UNCHANGED waiters)
    BY <1>1, <1>3, <2>2, RemoveTakesOut, LineShrinks DEF RemoveWaiter
  <2> QED
    BY <2>1, <2>2
<1>4. ASSUME PopWaiter(r)
      PROVE  /\ 1 \in 1..Len(waiters) /\ TakenOut(1)
             /\ waiters[1] \in Requests /\ popped' = [popped EXCEPT ![r] = waiters[1]]
             /\ waiters[1] \in Line /\ Line' = Line \ {waiters[1]} /\ Distinct'
  <2>1. TakenOut(1) /\ 1 \in 1..Len(waiters) /\ Head(waiters) = waiters[1]
    BY <1>1, <1>4, PopTakesOut DEF PopWaiter
  <2>2. waiters[1] \in Requests /\ waiters[1] \in Line
    BY <1>1, <2>1 DEF Line
  <2> QED
    BY <1>1, <1>4, <2>1, <2>2, LineShrinks DEF PopWaiter
<1> QED
  BY <1>2, <1>3, <1>4

\* All others leave it alone.
LEMMA OthersLeaveLine ==
  ASSUME NEW r \in Requests,
         \/ AcquireNow(r) \/ CreateWaiter(r) \/ Receive(r) \/ GiveUp(r)
         \/ Finish(r) \/ FindEmpty(r) \/ ReturnSlot(r) \/ Grant(r) \/ TryNext(r)
         \/ AllServed \/ UNCHANGED vars
  PROVE  UNCHANGED <<waiters, Line, entered>>
<1>1. UNCHANGED <<waiters, entered>>
  BY DEF AcquireNow, CreateWaiter, Receive, GiveUp, Finish, FindEmpty, ReturnSlot, Grant, TryNext,
     AllServed, vars
<1> QED
  BY <1>1 DEF Line

-----------------------------------------------------------------------------
\* Types; that the line has as many members as places follows from Distinct.
LEMMA TypeStep == TypeOK /\ Distinct /\ Links /\ [Next]_vars => TypeOK' /\ Distinct'
<1> SUFFICES ASSUME TypeOK, Distinct, Links, [Next]_vars PROVE TypeOK' /\ Distinct'
  OBVIOUS
<1> DEFINE Types ==
      /\ sem \in 0..MaxInflight /\ waiters \in Seq(Requests)
      /\ pc \in [Requests -> {"new", "enqueue", "waiting", "holding", "refused",
                              "releasing", "returning", "granting", "done"}]
      /\ answer \in [Requests -> {"none", "granted", "refused"}]
      /\ timer \in [Requests -> {"off", "armed", "removing", "stopped"}]
      /\ popped \in [Requests -> Requests \cup {NoWaiter}]
      /\ entered \in Seq(Requests)
<1>1. Types
  BY DEF TypeOK
<1> SUFFICES Types' /\ Distinct'
  <2>1. ASSUME Types', Distinct' PROVE Cardinality(Line)' = Len(waiters)'
    <3>1. (waiters \in Seq(Requests) /\ Distinct => Cardinality(Line) = Len(waiters))'
      BY LineCount, PTL
    <3> QED
      BY <2>1, <3>1
  <2> QED
    BY <2>1 DEF TypeOK
<1> USE <1>1, SemaphoreQueueAssumption
<1>2. ASSUME NEW r \in Requests, AcquireNow(r) \/ CreateWaiter(r) \/ Receive(r) \/ GiveUp(r)
      PROVE  Types' /\ Distinct'
  <2>1. Types'
    BY <1>2 DEF AcquireNow, CreateWaiter, Receive, GiveUp, Complete, Goto
  <2>2. Distinct'
    BY <1>2, OthersLeaveLine DEF Distinct
  <2> QED
    BY <2>1, <2>2
<1>3. ASSUME NEW r \in Requests,
             Finish(r) \/ FindEmpty(r) \/ ReturnSlot(r) \/ Grant(r) \/ TryNext(r)
      PROVE  Types' /\ Distinct'
  <2>1. Types'
    BY <1>3 DEF Finish, FindEmpty, ReturnSlot, Grant, TryNext, Complete, Goto
  <2>2. Distinct'
    BY <1>3, OthersLeaveLine DEF Distinct
  <2> QED
    BY <2>1, <2>2
<1>4. ASSUME NEW r \in Requests, JoinLine(r) PROVE Types' /\ Distinct'
  <2>1. waiters' \in Seq(Requests) /\ entered' \in Seq(Requests)
    BY <1>4 DEF JoinLine
  <2> QED
    BY <1>4, <2>1, LineStep DEF JoinLine, Goto
<1>5. ASSUME NEW r \in Requests, RemoveWaiter(r) PROVE Types' /\ Distinct'
  <2>1. CASE waiters' = waiters
    BY <1>5, <2>1, LineStep DEF RemoveWaiter
  <2>2. CASE waiters' # waiters
    <3>1. PICK i \in 1..Len(waiters) : TakenOut(i)
      BY <1>5, <2>2, LineStep
    <3>2. waiters' \in Seq(Requests)
      BY <3>1 DEF TakenOut
    <3> QED
      BY <1>5, <3>2, LineStep DEF RemoveWaiter
  <2> QED
    BY <2>1, <2>2
<1>6. ASSUME NEW r \in Requests, PopWaiter(r) PROVE Types' /\ Distinct'
  <2>1. waiters[1] \in Requests /\ popped' = [popped EXCEPT ![r] = waiters[1]] /\ TakenOut(1)
    BY <1>6, LineStep
  <2>2. waiters' \in Seq(Requests)
    BY <2>1 DEF TakenOut
  <2>3. popped' \in [Requests -> Requests \cup {NoWaiter}]
    BY <2>1
  <2> QED
    BY <1>6, <2>2, <2>3, LineStep DEF PopWaiter, Goto
<1>7. CASE AllServed \/ UNCHANGED vars
  BY <1>7 DEF AllServed, vars, Distinct
<1> HIDE DEF Types
<1> QED
  BY <1>2, <1>3, <1>4, <1>5, <1>6, <1>7 DEF Next, Acquire, TimerStep, Release

-----------------------------------------------------------------------------
\* Each step keeps the goroutines of a waiter in agreement.
LEMMA LinkStep == TypeOK /\ Distinct /\ Links /\ [Next]_vars => Links'
<1> SUFFICES ASSUME TypeOK, Distinct, Links, [Next]_vars PROVE Links'
  OBVIOUS
<1>1. /\ pc = [r \in Requests |-> pc[r]] /\ answer = [r \in Requests |-> answer[r]]
      /\ timer = [r \in Requests |-> timer[r]] /\ popped \in [Requests -> Requests \cup {NoWaiter}]
      /\ NoWaiter \notin Requests
  BY SemaphoreQueueAssumption DEF TypeOK
<1>2. PopLink /\ WaiterLink /\ UnansweredLink
  BY DEF Links
<1> SUFFICES PopLink' /\ WaiterLink' /\ UnansweredLink'
  BY DEF Links
<1> USE <1>1, <1>2 DEF PopLink, WaiterLink, UnansweredLink
<1>3. ASSUME NEW r \in Requests, AcquireNow(r) \/ CreateWaiter(r)
      PROVE  PopLink' /\ WaiterLink' /\ UnansweredLink'
  BY <1>3, OthersLeaveLine DEF AcquireNow, CreateWaiter, Goto
<1>4. ASSUME NEW r \in Requests, JoinLine(r) PROVE PopLink' /\ WaiterLink' /\ UnansweredLink'
  <2>1. Line' = Line \cup {r}
    BY <1>4, LineStep
  <2> QED
    BY <1>4, <2>1 DEF JoinLine, Goto
<1>5. ASSUME NEW r \in Requests, Receive(r) PROVE PopLink' /\ WaiterLink' /\ UnansweredLink'
  BY <1>5, OthersLeaveLine DEF Receive, Goto
<1>6. ASSUME NEW r \in Requests, GiveUp(r) PROVE PopLink' /\ WaiterLink' /\ UnansweredLink'
  BY <1>6, OthersLeaveLine DEF GiveUp, Complete
<1>7. ASSUME NEW r \in Requests, RemoveWaiter(r) PROVE PopLink' /\ WaiterLink' /\ UnansweredLink'
  <2>1. Line' = Line \ {r}
    BY <1>7, LineStep
  <2> QED
    BY <1>7, <2>1 DEF RemoveWaiter
<1>8. ASSUME NEW r \in Requests, Finish(r) \/ FindEmpty(r) \/ ReturnSlot(r)
      PROVE  PopLink' /\ WaiterLink' /\ UnansweredLink'
  BY <1>8, OthersLeaveLine DEF Finish, FindEmpty, ReturnSlot, Goto
<1>9. ASSUME NEW r \in Requests, PopWaiter(r) PROVE PopLink' /\ WaiterLink' /\ UnansweredLink'
  <2> DEFINE w == waiters[1]
  <2>1. /\ w \in Requests /\ w \in Line /\ Line' = Line \ {w}
        /\ popped' = [popped EXCEPT ![r] = w]
    BY <1>9, LineStep
  <2>2. /\ pc[r] = "releasing" /\ pc' = [pc EXCEPT ![r] = "granting"]
        /\ UNCHANGED <<answer, timer>>
    BY <1>9 DEF PopWaiter, Goto
  <2> HIDE DEF w
  <2>3. PopLink'
    BY <2>1, <2>2
  <2>4. WaiterLink'
    BY <2>1, <2>2
  <2>5. UnansweredLink'
    BY <2>1, <2>2
  <2> QED
    BY <2>3, <2>4, <2>5
<1>10. ASSUME NEW r \in Requests, Grant(r) PROVE PopLink' /\ WaiterLink' /\ UnansweredLink'
  <2> DEFINE w == popped[r]
  <2>1. /\ pc[r] = "granting" /\ pc' = [pc EXCEPT ![r] = "done"]
        /\ answer[w] = "none" /\ answer' = [answer EXCEPT ![w] = "granted"]
        /\ popped' = [popped EXCEPT ![r] = NoWaiter] /\ timer' = timer /\ Line' = Line
    BY <1>10, OthersLeaveLine DEF Grant, Complete, Goto
  <2>2. w \in Requests /\ timer[w] # "off"
    BY <2>1
  <2> HIDE DEF w
  <2>3. PopLink'
    BY <2>1
  <2>4. WaiterLink'
    <3> SUFFICES ASSUME NEW u \in Requests
                 PROVE  /\ timer[u] = "off" => u \notin Line /\ answer'[u] = "none" /\ pc'[u] # "waiting"
                        /\ timer[u] # "off" => pc'[u] \notin {"new", "enqueue"}
                        /\ \A q \in Requests : popped'[q] = u => timer[u] # "off" /\ u \notin Line
      BY <2>1
    <3>1. timer[u] = "off" => u \notin Line /\ answer'[u] = "none" /\ pc'[u] # "waiting"
      BY <2>1, <2>2
    <3>2. timer[u] # "off" => pc'[u] \notin {"new", "enqueue"}
      BY <2>1
    <3>3. \A q \in Requests : popped'[q] = u => popped[q] = u
      BY <2>1
    <3> QED
      BY <3>1, <3>2, <3>3
  <2>5. UnansweredLink'
    <3> SUFFICES ASSUME NEW u \in Requests, timer[u] # "off", answer'[u] = "none"
                 PROVE  /\ pc'[u] = "waiting" /\ timer[u] = "armed"
                        /\ u \in Line \/ \E q \in Requests : popped'[q] = u
      BY <2>1
    <3>1. u # w /\ answer[u] = "none"
      BY <2>1, <2>2
    <3>2. \A q \in Requests : popped[q] = u => popped'[q] = u
      BY <2>1, <3>1 DEF w
    <3> QED
      BY <2>1, <3>1, <3>2
  <2> QED
    BY <2>3, <2>4, <2>5
<1>11. ASSUME NEW r \in Requests, TryNext(r) PROVE PopLink' /\ WaiterLink' /\ UnansweredLink'
  <2>1. /\ pc[r] = "granting" /\ pc' = [pc EXCEPT ![r] = "releasing"]
        /\ answer[popped[r]] # "none" /\ UNCHANGED <<answer, timer>>
        /\ popped' = [popped EXCEPT ![r] = NoWaiter] /\ Line' = Line
    BY <1>11, OthersLeaveLine DEF TryNext, Goto
  <2>2. PopLink'
    BY <2>1
  <2>3. WaiterLink'
    BY <2>1
  <2>4. UnansweredLink'
    BY <2>1
  <2> QED
    BY <2>2, <2>3, <2>4
<1>12. CASE AllServed \/ UNCHANGED vars
  BY <1>12 DEF AllServed, vars, Line
<1> HIDE DEF PopLink, WaiterLink, UnansweredLink
<1> QED
  BY <1>3, <1>4, <1>5, <1>6, <1>7, <1>8, <1>9, <1>10, <1>11, <1>12
  DEF Next, Acquire, TimerStep, Release

-----------------------------------------------------------------------------
\* A waiter that joins is new to the history, and stays in it.
LEMMA JoinEnters ==
  ASSUME TypeOK, Links, NEW r \in Requests, JoinLine(r)
  PROVE  /\ Len(entered) \in Nat /\ Len(entered') = Len(entered) + 1
         /\ \A i \in 1..Len(entered) : entered'[i] = entered[i]
         /\ entered'[Len(entered) + 1] = r
         /\ timer[r] = "off" /\ timer' = [timer EXCEPT ![r] = "armed"]
<1>1. entered \in Seq(Requests) /\ entered' = Append(entered, r)
  BY DEF JoinLine, TypeOK
<1>2. timer[r] = "off" /\ timer' = [timer EXCEPT ![r] = "armed"]
  BY DEF JoinLine, Links, WaiterLink
<1> QED
  BY <1>1, <1>2

LEMMA EnteredStep == TypeOK /\ Distinct /\ Links /\ EnteredLink /\ [Next]_vars => EnteredLink'
<1> SUFFICES ASSUME TypeOK, Distinct, Links, EnteredLink, [Next]_vars PROVE EnteredLink'
  OBVIOUS
<1>1. timer \in [Requests -> {"off", "armed", "removing", "stopped"}] /\ entered \in Seq(Requests)
  BY DEF TypeOK
<1>2. ASSUME NEW r \in Requests, JoinLine(r) PROVE EnteredLink'
  <2>1. \A i, j \in 1..Len(entered') : entered'[i] = entered'[j] => i = j
    BY <1>1, <1>2, JoinEnters DEF EnteredLink
  <2>2. ASSUME NEW w \in Requests
        PROVE  timer'[w] # "off" <=> \E i \in 1..Len(entered') : entered'[i] = w
    <3>1. CASE w = r
      BY <1>1, <1>2, <3>1, JoinEnters
    <3>2. CASE w # r
      <4>1. timer'[w] = timer[w]
        BY <1>1, <1>2, <3>2, JoinEnters
      <4>2. timer[w] # "off" <=> \E i \in 1..Len(entered) : entered[i] = w
        BY DEF EnteredLink
      <4> QED
        BY <1>2, <3>2, <4>1, <4>2, JoinEnters
    <3> QED
      BY <3>1, <3>2
  <2> QED
    BY <2>1, <2>2 DEF EnteredLink
<1>3. ASSUME NEW r \in Requests, GiveUp(r) \/ RemoveWaiter(r) PROVE EnteredLink'
  <2>1. /\ entered' = entered
        /\ \A w \in Requests : timer'[w] = "off" <=> timer[w] = "off"
    BY <1>1, <1>3 DEF GiveUp, RemoveWaiter
  <2> QED
    BY <2>1 DEF EnteredLink
<1>4. ASSUME UNCHANGED <<timer, entered>> PROVE EnteredLink'
  BY <1>4 DEF EnteredLink
<1>5. \/ \E r \in Requests : JoinLine(r) \/ GiveUp(r) \/ RemoveWaiter(r)
      \/ UNCHANGED <<timer, entered>>
  BY DEF Next, Acquire, TimerStep, Release, AcquireNow, CreateWaiter, Receive, Finish, FindEmpty,
     ReturnSlot, PopWaiter, Grant, TryNext, AllServed, vars
<1> QED
  BY <1>2, <1>3, <1>4, <1>5

-----------------------------------------------------------------------------
\* Nobody joined both before and after another, and nobody before no waiter.
LEMMA BeforeIsStrict ==
  ASSUME TypeOK, EnteredLink, NEW v, NEW w
  PROVE  /\ ~(Before(entered, v, w) /\ Before(entered, w, v))
         /\ Before(entered, v, w) => v \in Requests /\ w \in Requests
<1>1. entered \in Seq(Requests)
  BY DEF TypeOK
<1>2. ASSUME Before(entered, v, w), Before(entered, w, v) PROVE FALSE
  BY <1>1, <1>2 DEF Before, EnteredLink
<1>3. ASSUME Before(entered, v, w) PROVE v \in Requests /\ w \in Requests
  BY <1>1, <1>3 DEF Before
<1> QED
  BY <1>2, <1>3

\* The history names requests only, and those in it have become waiters.
LEMMA OldHistory ==
  ASSUME TypeOK, EnteredLink, NEW v, NEW w, Before(entered, v, w)
  PROVE  timer[v] # "off"
<1>1. v \in Requests
  BY BeforeIsStrict
<1>2. \E j \in 1..Len(entered) : entered[j] = v
  <2>1. Len(entered) \in Nat
    BY DEF TypeOK
  <2> QED
    BY <2>1 DEF Before
<1> QED
  BY <1>1, <1>2 DEF EnteredLink

LEMMA NewHistory ==
  ASSUME TypeOK, Links, NEW r \in Requests, JoinLine(r), NEW v, NEW w, Before(entered', v, w)
  PROVE  w \in Requests
<1>1. entered \in Seq(Requests)
  BY DEF TypeOK
<1> QED
  BY <1>1, JoinEnters DEF Before

\* Who joins has everybody before it, and stands before nobody; between the
\* others nothing changes.
LEMMA JoinIsLast ==
  ASSUME TypeOK, Links, EnteredLink, NEW r \in Requests, JoinLine(r),
         NEW v \in Requests, NEW w \in Requests
  PROVE  /\ Before(entered, v, w) => Before(entered', v, w)
         /\ timer[v] # "off" => Before(entered', v, r)
         /\ w # r /\ Before(entered', v, w) => Before(entered, v, w)
<1>1. Before(entered, v, w) => Before(entered', v, w)
  BY JoinEnters DEF Before
<1>2. ASSUME timer[v] # "off" PROVE Before(entered', v, r)
  <2>1. PICK j \in 1..Len(entered) : entered[j] = v
    BY <1>2 DEF EnteredLink
  <2>2. /\ Len(entered) + 1 \in 1..Len(entered') /\ j \in 1..((Len(entered) + 1) - 1)
        /\ entered'[j] = v /\ entered'[Len(entered) + 1] = r
    BY <2>1, JoinEnters
  <2> QED
    BY <2>2 DEF Before
<1>3. ASSUME w # r, Before(entered', v, w) PROVE Before(entered, v, w)
  <2>1. PICK i \in 1..Len(entered') : \E j \in 1..(i - 1) : entered'[j] = v /\ entered'[i] = w
    BY <1>3 DEF Before
  <2>2. PICK j \in 1..(i - 1) : entered'[j] = v /\ entered'[i] = w
    BY <2>1
  <2>3. i \in 1..Len(entered) /\ j \in 1..Len(entered)
    BY <1>3, <2>2, JoinEnters
  <2>4. entered[i] = w /\ entered[j] = v
    BY <2>2, <2>3, JoinEnters
  <2> QED
    BY <2>3, <2>4 DEF Before
<1> QED
  BY <1>1, <1>2, <1>3

\* Each step keeps the order: waiters join at both ends, leave from anywhere,
\* and a Release takes the one that nobody in the line has joined before.
LEMMA OrderStep ==
  TypeOK /\ Distinct /\ Links /\ EnteredLink /\ OrderLink /\ [Next]_vars => OrderLink'
<1> SUFFICES ASSUME TypeOK, Distinct, Links, EnteredLink, OrderLink, [Next]_vars PROVE OrderLink'
  OBVIOUS
<1>1. /\ waiters \in Seq(Requests) /\ popped \in [Requests -> Requests \cup {NoWaiter}]
      /\ NoWaiter \notin Requests
  BY SemaphoreQueueAssumption DEF TypeOK
<1>2. /\ \A a \in 1..Len(waiters) : \A b \in 1..(a - 1) : Before(entered, waiters[b], waiters[a])
      /\ \A q \in Requests : \A a \in 1..Len(waiters) : ~Before(entered, waiters[a], popped[q])
  BY DEF OrderLink
<1>3. \A v : ~Before(entered, v, NoWaiter)
  BY <1>1, BeforeIsStrict
<1>4. ASSUME NEW r \in Requests, JoinLine(r) PROVE OrderLink'
  <2>1. /\ Len(waiters) \in Nat /\ Len(waiters') = Len(waiters) + 1
        /\ \A a \in 1..Len(waiters) : waiters'[a] = waiters[a] /\ waiters[a] \in Requests
        /\ waiters'[Len(waiters) + 1] = r /\ popped' = popped
    BY <1>1, <1>4 DEF JoinLine
  <2>2. \A a \in 1..Len(waiters) : timer[waiters[a]] # "off"
    BY <2>1 DEF Links, WaiterLink, Line
  <2>3. ASSUME NEW a \in 1..Len(waiters'), NEW b \in 1..(a - 1)
        PROVE  Before(entered', waiters'[b], waiters'[a])
    <3>1. b \in 1..Len(waiters) /\ waiters'[b] = waiters[b] /\ waiters[b] \in Requests
      BY <2>1
    <3>2. CASE a \in 1..Len(waiters)
      <4>1. Before(entered, waiters[b], waiters[a])
        BY <1>2, <3>2
      <4> QED
        BY <1>4, <2>1, <3>1, <3>2, <4>1, JoinIsLast
    <3>3. CASE a = Len(waiters) + 1
      BY <1>4, <2>1, <2>2, <3>1, <3>3, JoinIsLast
    <3> QED
      BY <2>1, <3>2, <3>3
  <2>4. ASSUME NEW q \in Requests, NEW a \in 1..Len(waiters'), Before(entered', waiters'[a], popped[q])
        PROVE  FALSE
    <3>1. CASE popped[q] = NoWaiter
      BY <1>1, <1>4, <2>4, <3>1, NewHistory
    <3>2. CASE popped[q] # NoWaiter
      <4>1. popped[q] \in Requests /\ popped[q] # r
        BY <1>1, <1>4, <3>2, JoinEnters DEF Links, WaiterLink
      <4>2. waiters'[a] \in Requests
        BY <2>1
      <4>3. Before(entered, waiters'[a], popped[q])
        BY <1>4, <2>4, <4>1, <4>2, JoinIsLast
      <4>4. waiters'[a] # r
        BY <1>4, <4>3, OldHistory, JoinEnters
      <4> QED
        BY <1>2, <2>1, <4>3, <4>4
    <3> QED
      BY <3>1, <3>2
  <2> QED
    BY <2>1, <2>3, <2>4 DEF OrderLink
<1>5. ASSUME NEW i \in 1..Len(waiters), TakenOut(i), entered' = entered
      PROVE  \A a \in 1..Len(waiters') : \A b \in 1..(a - 1) : Before(entered', waiters'[b], waiters'[a])
  <2> SUFFICES ASSUME NEW a \in 1..Len(waiters'), NEW b \in 1..(a - 1)
               PROVE  Before(entered, waiters'[b], waiters'[a])
    BY <1>5
  <2>1. Len(waiters') \in Nat /\ b \in 1..Len(waiters')
    BY <1>5 DEF TakenOut
  <2>2. /\ waiters'[a] = waiters[OldPlace(a, i)] /\ waiters'[b] = waiters[OldPlace(b, i)]
        /\ OldPlace(a, i) \in 1..Len(waiters) /\ OldPlace(b, i) \in 1..Len(waiters)
    BY <1>1, <1>5, <2>1, OldPlaces
  <2>3. OldPlace(b, i) \in 1..(OldPlace(a, i) - 1)
    BY <2>2 DEF OldPlace
  <2> QED
    BY <1>2, <2>2, <2>3
<1>6. ASSUME NEW r \in Requests, RemoveWaiter(r) PROVE OrderLink'
  <2>1. entered' = entered /\ popped' = popped
    BY <1>6 DEF RemoveWaiter
  <2>2. CASE waiters' = waiters
    BY <1>2, <2>1, <2>2 DEF OrderLink
  <2>3. CASE waiters' # waiters
    <3>1. PICK i \in 1..Len(waiters) : TakenOut(i)
      BY <1>6, <2>3, LineStep
    <3>2. ASSUME NEW q \in Requests, NEW a \in 1..Len(waiters')
          PROVE  ~Before(entered, waiters'[a], popped[q])
      BY <1>1, <1>2, <3>1, OldPlaces
    <3> QED
      BY <1>5, <2>1, <3>1, <3>2 DEF OrderLink
  <2> QED
    BY <2>2, <2>3
<1>7. ASSUME NEW r \in Requests, PopWaiter(r) PROVE OrderLink'
  <2>1. /\ entered' = entered /\ 1 \in 1..Len(waiters) /\ TakenOut(1)
        /\ popped' = [popped EXCEPT ![r] = waiters[1]] /\ Len(waiters) \in Nat
    <3>1. entered' = entered
      BY <1>7 DEF PopWaiter
    <3> QED
      BY <1>1, <1>7, <3>1, LineStep
  <2>2. ASSUME NEW q \in Requests, NEW a \in 1..Len(waiters')
        PROVE  ~Before(entered, waiters'[a], popped'[q])
    <3>1. OldPlace(a, 1) \in 1..Len(waiters) /\ waiters'[a] = waiters[OldPlace(a, 1)]
      BY <1>1, <2>1, OldPlaces
    <3>2. CASE q # r
      BY <1>1, <1>2, <2>1, <3>1, <3>2
    <3>3. CASE q = r
      <4>1. popped'[q] = waiters[1] /\ 1 \in 1..(OldPlace(a, 1) - 1)
        BY <1>1, <2>1, <3>1, <3>3 DEF OldPlace
      <4>2. Before(entered, waiters[1], waiters[OldPlace(a, 1)])
        BY <1>2, <3>1, <4>1
      <4> QED
        BY <3>1, <4>1, <4>2, BeforeIsStrict
    <3> QED
      BY <3>2, <3>3
  <2> QED
    BY <1>5, <1>7, <2>1, <2>2 DEF OrderLink
<1>8. ASSUME NEW r \in Requests, Grant(r) \/ TryNext(r) PROVE OrderLink'
  <2>1. UNCHANGED <<waiters, entered>> /\ popped' = [popped EXCEPT ![r] = NoWaiter]
    BY <1>8 DEF Grant, TryNext
  <2>2. ASSUME NEW q \in Requests, NEW a \in 1..Len(waiters)
        PROVE  ~Before(entered, waiters[a], popped'[q])
    BY <1>1, <1>2, <1>3, <2>1
  <2> QED
    BY <1>2, <2>1, <2>2 DEF OrderLink
<1>9. ASSUME UNCHANGED <<waiters, entered, popped>> PROVE OrderLink'
  BY <1>2, <1>9 DEF OrderLink
<1>10. \/ \E r \in Requests : JoinLine(r) \/ RemoveWaiter(r) \/ PopWaiter(r) \/ Grant(r) \/ TryNext(r)
       \/ UNCHANGED <<waiters, entered, popped>>
  BY DEF Next, Acquire, TimerStep, Release, AcquireNow, CreateWaiter, Receive, GiveUp, Finish,
     FindEmpty, ReturnSlot, AllServed, vars
<1> QED
  BY <1>4, <1>6, <1>7, <1>8, <1>9, <1>10

-----------------------------------------------------------------------------
LEMMA OwnersFinite ==
  IsFiniteSet(SlotOwners) /\ IsFiniteSet(SlotOwners') /\ Cardinality(SlotOwners) \in Nat
BY SemaphoreQueueAssumption, FS_Subset, FS_CardinalityType DEF SlotOwners

\* Each step keeps the sum: a token leaves the channel with its owner, comes
\* back with it, or passes from a Release to the waiter that has no answer yet.
LEMMA ConservationStep == TypeOK /\ Links /\ SlotConservation /\ [Next]_vars => SlotConservation'
<1> SUFFICES ASSUME TypeOK, Links, SlotConservation, [Next]_vars PROVE SlotConservation'
  OBVIOUS
<1> USE SemaphoreQueueAssumption DEF TypeOK, SlotOwners, Owns
<1>1. ASSUME NEW r \in Requests, AcquireNow(r) PROVE SlotConservation'
  <2>1. SlotOwners' = SlotOwners \cup {r} /\ r \notin SlotOwners /\ sem' = sem - 1
    BY <1>1 DEF AcquireNow, Goto
  <2> HIDE DEF SlotOwners
  <2>2. Cardinality(SlotOwners \cup {r}) = Cardinality(SlotOwners) + 1
    BY <2>1, OwnersFinite, FS_AddElement
  <2> QED
    BY <2>1, <2>2, OwnersFinite DEF SlotConservation
<1>2. ASSUME NEW r \in Requests, ReturnSlot(r) PROVE SlotConservation'
  <2>1. SlotOwners' = SlotOwners \ {r} /\ r \in SlotOwners /\ sem' = sem + 1
    BY <1>2 DEF ReturnSlot, Goto
  <2> HIDE DEF SlotOwners
  <2>2. Cardinality(SlotOwners \ {r}) = Cardinality(SlotOwners) - 1
    BY <2>1, OwnersFinite, FS_RemoveElement
  <2> QED
    BY <2>1, <2>2, OwnersFinite DEF SlotConservation
<1>3. ASSUME NEW r \in Requests, Grant(r) PROVE SlotConservation'
  <2> DEFINE w == popped[r]
  <2>1. w \in Requests /\ answer[w] = "none" /\ timer[w] # "off" /\ sem' = sem
    BY <1>3 DEF Grant, Complete, Links, PopLink, WaiterLink
  <2>2. pc[w] = "waiting"
    BY <2>1 DEF Links, UnansweredLink
  <2>3. w \notin SlotOwners /\ r \in SlotOwners
    BY <1>3, <2>1, <2>2 DEF Grant
  <2>4. SlotOwners' = (SlotOwners \ {r}) \cup {w}
    BY <1>3, <2>1, <2>2 DEF Grant, Complete, Goto
  <2> HIDE DEF SlotOwners, w
  <2>5. /\ IsFiniteSet(SlotOwners \ {r})
        /\ Cardinality(SlotOwners \ {r}) = Cardinality(SlotOwners) - 1
    BY <2>3, OwnersFinite, FS_RemoveElement
  <2>6. Cardinality((SlotOwners \ {r}) \cup {w}) = Cardinality(SlotOwners \ {r}) + 1
    BY <2>3, <2>5, FS_AddElement
  <2> QED
    BY <2>1, <2>4, <2>5, <2>6, OwnersFinite DEF SlotConservation
<1>4. ASSUME SlotOwners' = SlotOwners, sem' = sem PROVE SlotConservation'
  <2> HIDE DEF SlotOwners
  <2> QED
    BY <1>4 DEF SlotConservation
<1>5. ASSUME NEW r \in Requests, CreateWaiter(r) \/ Receive(r) PROVE SlotOwners' = SlotOwners /\ sem' = sem
  BY <1>5 DEF CreateWaiter, Receive, Goto
<1>6. ASSUME NEW r \in Requests, JoinLine(r) PROVE SlotOwners' = SlotOwners /\ sem' = sem
  <2>1. answer[r] = "none"
    BY <1>6 DEF JoinLine, Links, WaiterLink
  <2> QED
    BY <1>6, <2>1 DEF JoinLine, Goto
<1>7. ASSUME NEW r \in Requests, GiveUp(r) \/ RemoveWaiter(r) PROVE SlotOwners' = SlotOwners /\ sem' = sem
  <2>1. CASE GiveUp(r)
    BY <2>1 DEF GiveUp, Complete
  <2>2. CASE RemoveWaiter(r)
    BY <2>2 DEF RemoveWaiter
  <2> QED
    BY <1>7, <2>1, <2>2
<1>8. ASSUME NEW r \in Requests, Finish(r) \/ FindEmpty(r) \/ PopWaiter(r) \/ TryNext(r)
      PROVE  SlotOwners' = SlotOwners /\ sem' = sem
  BY <1>8 DEF Finish, FindEmpty, PopWaiter, TryNext, Goto
<1>9. CASE AllServed \/ UNCHANGED vars
  <2>1. SlotOwners' = SlotOwners /\ sem' = sem
    BY <1>9 DEF AllServed, vars
  <2> QED
    BY <1>4, <2>1
<1> HIDE DEF SlotOwners
<1> QED
  BY <1>1, <1>2, <1>3, <1>4, <1>5, <1>6, <1>7, <1>8, <1>9 DEF Next, Acquire, TimerStep, Release

-----------------------------------------------------------------------------
\* At the start every token is in the channel, the line and the history are empty.
LEMMA InitIInv == Init => IInv
<1> SUFFICES ASSUME Init PROVE IInv
  OBVIOUS
<1>1. waiters = <<>> /\ entered = <<>> /\ Line = {}
  BY DEF Init, Line
<1>2. TypeOK
  BY <1>1, FS_EmptySet, SemaphoreQueueAssumption DEF Init, TypeOK
<1>3. Distinct /\ EnteredLink /\ OrderLink
  BY <1>1 DEF Init, Distinct, EnteredLink, OrderLink
<1>4. Links
  BY <1>1, SemaphoreQueueAssumption DEF Init, Links, PopLink, WaiterLink, UnansweredLink
<1>5. SlotOwners = {}
  BY DEF Init, SlotOwners, Owns
<1>6. SlotConservation
  BY <1>5, FS_EmptySet, SemaphoreQueueAssumption DEF Init, SlotConservation
<1> QED
  BY <1>2, <1>3, <1>4, <1>6 DEF IInv

\* The inductive invariant holds throughout: every behaviour of Acquire, the
\* timeouts and Release keeps the types, the links, the order and the slots.
THEOREM Invariance == Spec => []IInv
<1>1. IInv /\ [Next]_vars => IInv'
  BY TypeStep, LinkStep, EnteredStep, OrderStep, ConservationStep DEF IInv
<1> QED
  BY InitIInv, <1>1, PTL DEF Spec

\* For any number of requests and slots every variable keeps its type, and
\* nobody stands in the line twice.
THEOREM TypeCorrect == Spec => []TypeOK
<1>1. IInv => TypeOK
  BY DEF IInv
<1> QED
  BY Invariance, <1>1, PTL

\* For any number of requests and slots, no interleaving of timeouts and
\* Releases loses a slot of the semaphore or makes one.
THEOREM SlotsConserved == Spec => []SlotConservation
<1>1. IInv => SlotConservation
  BY DEF IInv
<1> QED
  BY Invariance, <1>1, PTL

\* A waiter without an answer is always in the line or in the hand of a
\* Release: no removal takes out the wrong one and leaves it forgotten.
THEOREM NobodyIsLost == Spec => []NobodyLost
<1>1. IInv => NobodyLost
  BY DEF IInv, Links, WaiterLink, UnansweredLink, NobodyLost
<1> QED
  BY Invariance, <1>1, PTL

\* When a waiter is granted a slot, whoever joined the line before it has its
\* answer or is in the hand of another Release.
THEOREM FirstComeFirstServed == Spec => ServedInLine
<1>1. ASSUME IInv, [Next]_vars, NEW i \in 1..Len(entered), NEW j \in 1..(i - 1),
             answer[entered[i]] = "none", answer'[entered[i]] = "granted"
      PROVE  answer[entered[j]] # "none" \/ \E r \in Requests : popped[r] = entered[j]
  <2> DEFINE v == entered[j]
             w == entered[i]
  <2>1. v \in Requests /\ w \in Requests /\ timer[v] # "off"
    <3>1. Len(entered) \in Nat /\ entered \in Seq(Requests)
      BY <1>1 DEF IInv, TypeOK
    <3>2. v \in Requests /\ w \in Requests /\ j \in 1..Len(entered)
      BY <3>1
    <3> QED
      BY <1>1, <3>2 DEF IInv, EnteredLink
  <2>2. Before(entered, v, w)
    BY DEF Before
  <2> HIDE DEF v, w
  <2>3. PICK r \in Requests : Grant(r)
    BY <1>1, <2>1
    DEF IInv, TypeOK, Next, Acquire, TimerStep, Release, AcquireNow, CreateWaiter, JoinLine, Receive,
        GiveUp, RemoveWaiter, Complete, Finish, FindEmpty, ReturnSlot, PopWaiter, TryNext, AllServed,
        vars, w
  <2>4. popped[r] = w
    BY <1>1, <2>1, <2>3 DEF IInv, TypeOK, Grant, Complete, w
  <2>5. v \notin Line
    <3>1. \A a \in 1..Len(waiters) : ~Before(entered, waiters[a], w)
      BY <1>1, <2>4 DEF IInv, OrderLink
    <3> QED
      BY <2>2, <3>1 DEF Line
  <2> QED
    BY <1>1, <2>1, <2>5 DEF IInv, Links, UnansweredLink, v
<1>2. IInv /\ [Next]_vars =>
        [\A i \in 1..Len(entered) : answer[entered[i]] = "none" /\ answer'[entered[i]] = "granted" =>
           \A j \in 1..(i-1) : \/ answer[entered[j]] # "none"
                               \/ \E r \in Requests : popped[r] = entered[j]]_vars
  BY <1>1
<1> QED
  BY Invariance, <1>2, PTL DEF Spec, ServedInLine

-----------------------------------------------------------------------------
\* The refinement of the contract.

LEMMA StatusCases ==
  ASSUME IInv, NEW r \in Requests
  PROVE  /\ pc[r] = "new" <=> StatusOf(r) = "idle"
         /\ Owns(r) <=> StatusOf(r) = "admitted"
         /\ pc[r] = "waiting" /\ answer[r] = "none" => StatusOf(r) = "waiting"
BY DEF IInv, TypeOK, Links, WaiterLink, StatusOf, Owns

LEMMA AdmittedAreOwners ==
  ASSUME IInv PROVE Contract!Admitted = SlotOwners
BY StatusCases DEF Contract!Admitted, SlotOwners

\* The contract's copy of Cardinality is the queue's.
LEMMA SameCardinality == \A S : Contract!Cardinality(S) = Cardinality(S)
BY DEF Contract!Cardinality, Cardinality, Contract!IsFiniteSet, IsFiniteSet

\* A step that leaves every status alone is a stuttering step of the contract.
LEMMA StatusUnchanged ==
  ASSUME IInv, NEW r \in Requests,
         \/ JoinLine(r) \/ Receive(r) \/ RemoveWaiter(r) \/ Finish(r) \/ FindEmpty(r)
         \/ PopWaiter(r) \/ TryNext(r) \/ AllServed \/ UNCHANGED vars
  PROVE  [q \in Requests |-> StatusOf(q)]' = [q \in Requests |-> StatusOf(q)]
<1> SUFFICES ASSUME NEW q \in Requests PROVE StatusOf(q)' = StatusOf(q)
  OBVIOUS
<1> USE DEF IInv, TypeOK, Links, WaiterLink, StatusOf, Owns
<1>1. CASE JoinLine(r)
  BY <1>1 DEF JoinLine, Goto
<1>2. CASE Receive(r)
  BY <1>2 DEF Receive, Goto
<1>3. CASE Finish(r) \/ FindEmpty(r) \/ PopWaiter(r) \/ TryNext(r)
  BY <1>3 DEF Finish, FindEmpty, PopWaiter, TryNext, Goto
<1>4. CASE RemoveWaiter(r) \/ AllServed \/ UNCHANGED vars
  BY <1>4 DEF RemoveWaiter, AllServed, vars
<1> QED
  BY <1>1, <1>2, <1>3, <1>4

\* Every step of the queue is a step of the contract or a stuttering step of it.
LEMMA RefinementStep == IInv /\ [Next]_vars => [Contract!Next]_(Contract!vars)
<1> SUFFICES ASSUME IInv, [Next]_vars PROVE [Contract!Next]_(Contract!vars)
  OBVIOUS
<1> DEFINE st == [q \in Requests |-> StatusOf(q)]
<1> USE DEF Contract!vars
<1>1. ASSUME NEW r \in Requests, AcquireNow(r) PROVE Contract!Admit(r)
  <2>1. st[r] = "idle" /\ st' = [st EXCEPT ![r] = "admitted"]
    BY <1>1 DEF AcquireNow, Goto, IInv, TypeOK, StatusOf, Owns
  <2>2. Cardinality(SlotOwners) < MaxInflight
    BY <1>1, OwnersFinite, SemaphoreQueueAssumption DEF AcquireNow, IInv, SlotConservation, TypeOK
  <2> QED
    BY <2>1, <2>2, AdmittedAreOwners, SameCardinality DEF Contract!Admit
<1>2. ASSUME NEW r \in Requests, CreateWaiter(r) PROVE Contract!Wait(r)
  <2>1. st[r] = "idle" /\ st' = [st EXCEPT ![r] = "waiting"]
    BY <1>2 DEF CreateWaiter, Goto, IInv, TypeOK, Links, WaiterLink, StatusOf, Owns
  <2>2. Cardinality(SlotOwners) = MaxInflight
    BY <1>2, OwnersFinite DEF CreateWaiter, IInv, SlotConservation
  <2> QED
    BY <2>1, <2>2, AdmittedAreOwners, SameCardinality DEF Contract!Wait
<1>3. ASSUME NEW r \in Requests, ReturnSlot(r) PROVE Contract!Release(r)
  <2>1. st[r] = "admitted" /\ st' = [st EXCEPT ![r] = "released"]
    BY <1>3 DEF ReturnSlot, Goto, IInv, TypeOK, StatusOf, Owns
  <2> QED
    BY <2>1 DEF Contract!Release
<1>4. ASSUME NEW r \in Requests, Grant(r)
      PROVE  popped[r] \in Requests /\ Contract!HandOver(r, popped[r])
  <2> DEFINE w == popped[r]
  <2>1. w \in Requests /\ answer[w] = "none" /\ timer[w] # "off"
    BY <1>4, SemaphoreQueueAssumption DEF Grant, Complete, IInv, TypeOK, Links, PopLink, WaiterLink
  <2>2. pc[w] = "waiting"
    BY <2>1 DEF IInv, Links, UnansweredLink
  <2>3. st[r] = "admitted" /\ st[w] = "waiting"
    BY <1>4, <2>1, <2>2 DEF Grant, StatusOf, Owns
  <2>4. st' = [st EXCEPT ![r] = "released", ![w] = "admitted"]
    BY <1>4, <2>1, <2>2 DEF Grant, Complete, Goto, IInv, TypeOK, StatusOf, Owns
  <2> QED
    BY <2>1, <2>3, <2>4 DEF Contract!HandOver
<1>5. ASSUME NEW r \in Requests, GiveUp(r) PROVE Contract!Refuse(r) \/ st' = st
  <2>1. CASE Complete(r, "refused") /\ timer' = [timer EXCEPT ![r] = "removing"]
    <3>1. pc[r] = "waiting"
      BY <1>5, <2>1 DEF GiveUp, Complete, IInv, Links, UnansweredLink
    <3>2. st[r] = "waiting" /\ st' = [st EXCEPT ![r] = "refused"]
      BY <1>5, <2>1, <3>1 DEF GiveUp, Complete, IInv, TypeOK, StatusOf, Owns
    <3> QED
      BY <3>2 DEF Contract!Refuse
  <2>2. CASE UNCHANGED answer
    BY <1>5, <2>2 DEF GiveUp, StatusOf, Owns
  <2> QED
    BY <1>5, <2>1, <2>2 DEF GiveUp
<1>6. CASE AllServed \/ UNCHANGED vars
  <2>1. st' = st
    BY <1>6 DEF AllServed, vars, StatusOf, Owns
  <2> QED
    BY <2>1
<1> HIDE DEF st
<1> QED
  BY <1>1, <1>2, <1>3, <1>4, <1>5, <1>6, StatusUnchanged
  DEF Next, Acquire, TimerStep, Release, Contract!Next, st

\* For any number of requests and slots the first-come-first-served queue
\* keeps the contract of queue.go, the same as HRNQueue.
THEOREM QueueKeepsContract == Spec => ImplementsRequestQueue
<1>1. Init => Contract!Init
  BY DEF Init, Contract!Init, StatusOf
<1> QED
  BY Invariance, <1>1, RefinementStep, PTL DEF Spec, ImplementsRequestQueue, Contract!Spec

=============================================================================
