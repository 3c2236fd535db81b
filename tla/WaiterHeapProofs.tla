-------------------------- MODULE WaiterHeapProofs --------------------------
(***************************************************************************)
(* Proofs about WaiterHeap, for any number of waiters and any keys.  First *)
(* that the index of a waiter is its position: nothing is assumed of what  *)
(* Less answers.  Then, when both readings of the clock agree, the order   *)
(* of the heap in the middle of a call and after it, and from it that the  *)
(* array is the pool of WaiterPool.                                        *)
(***************************************************************************)
EXTENDS WaiterHeap, FiniteSetTheorems, WellFoundedInduction, TLAPS

\* The positions a call works on exist, and the waiter it takes out is parked
\* behind the limit.
CallInRange ==
  /\ step \in {"up", "down", "sunk"} => at < limit
  /\ step \in {"down", "sunk", "take"} => limit = len - 1
  /\ step = "take" => len > 0
  /\ step = "idle" => goal = Nobody
  /\ limit < len /\ step # "idle" /\ goal # Best => goal = heap[len - 1]
  /\ limit = len /\ step # "idle" => goal = Nobody

IInv == TypeOK /\ IndexAgrees /\ CallInRange

-----------------------------------------------------------------------------
\* A swap of two positions keeps the array and the indices in agreement.
LEMMA SwapAgrees ==
  ASSUME TypeOK, IndexAgrees,
         NEW i \in 0..len - 1, NEW j \in 0..len - 1, Swap(i, j), len' = len
  PROVE  /\ heap' \in [0..len - 1 -> Waiters]
         /\ index' \in [Waiters -> Int]
         /\ IndexAgrees'
<1>1. heap' \in [0..len - 1 -> Waiters]
  BY DEF TypeOK, Swap
<1>2. index' \in [Waiters -> Int]
  BY DEF TypeOK, Swap
<1>3. Held' = Held
  BY DEF Held, TypeOK, Swap
<1>4. \A k \in 0..len - 1 : index'[heap'[k]] = k
  BY DEF TypeOK, IndexAgrees, Swap
<1>5. \A w \in Waiters \ Held : index'[w] = -1
  BY DEF TypeOK, IndexAgrees, Swap, Held
<1> QED BY <1>1, <1>2, <1>3, <1>4, <1>5 DEF IndexAgrees

\* The initial heap is empty.
LEMMA InitInv == Init => IInv
<1> SUFFICES ASSUME Init PROVE IInv
  OBVIOUS
<1> USE WaiterHeapAssumption DEF Init
<1>1. TypeOK
  BY DEF TypeOK
<1>2. IndexAgrees
  BY DEF IndexAgrees, Held
<1>3. CallInRange
  BY DEF CallInRange
<1> QED BY <1>1, <1>2, <1>3 DEF IInv

\* No position lies above the root.
LEMMA ParentInRange == ASSUME NEW i \in Nat PROVE Parent(i) \in 0..i
  BY DEF Parent

\* A sifting step leaves the parked waiter alone: it swaps below the limit.
LEMMA SiftStep ==
  ASSUME IInv, NEW i \in 0..limit - 1, NEW j \in 0..limit - 1, Swap(i, j),
         at' \in {i, j}, step' \in {"up", "sunk"},
         step' = "sunk" => limit = len - 1,
         step # "idle",
         UNCHANGED <<len, key, limit, goal, slack>>
  PROVE  IInv'
<1> USE DEF IInv
<1>1. i \in 0..len - 1 /\ j \in 0..len - 1
  BY DEF TypeOK
<1>2. IndexAgrees' /\ heap' \in [0..len - 1 -> Waiters] /\ index' \in [Waiters -> Int]
  BY <1>1, SwapAgrees
<1>3. TypeOK'
  <2>1. at' \in Nat
    BY DEF TypeOK
  <2> QED
    BY <1>2, <2>1 DEF TypeOK
<1>4. limit < len => heap'[len - 1] = heap[len - 1]
  BY <1>1 DEF Swap, TypeOK
<1>5. CallInRange'
  BY <1>4 DEF CallInRange, TypeOK
<1> QED BY <1>2, <1>3, <1>5

LEMMA MoveStep == IInv /\ (MoveUp \/ MoveDown) => IInv'
<1>1. ASSUME IInv, MoveUp PROVE IInv'
  <2>1. Parent(at) \in 0..limit - 1 /\ at \in 0..limit - 1
    BY <1>1, ParentInRange DEF IInv, TypeOK, CallInRange, MoveUp
  <2> QED BY <1>1, <2>1, SiftStep DEF MoveUp
<1>2. ASSUME IInv, MoveDown PROVE IInv'
  <2>1. PICK c \in Children(at) : Swap(at, c) /\ at' = c
    BY <1>2 DEF MoveDown
  <2>2. c \in 0..limit - 1 /\ at \in 0..limit - 1
    BY <1>2, <2>1 DEF IInv, TypeOK, CallInRange, MoveDown, Children
  <2>3. limit = len - 1
    BY <1>2 DEF IInv, CallInRange, MoveDown
  <2> QED BY <1>2, <2>1, <2>2, <2>3, SiftStep DEF MoveDown
<1> QED BY <1>1, <1>2

\* A Push writes behind the last position, where nothing was.
LEMMA PushStep == ASSUME IInv, NEW w \in Waiters, Push(w) PROVE IInv'
<1> USE DEF IInv, Push, AddLast
<1>1. len' = len + 1 /\ len \in Nat
  BY DEF TypeOK
<1>2. heap' \in [0..len' - 1 -> Waiters] /\ index' \in [Waiters -> Int]
  BY <1>1 DEF TypeOK
<1>3. TypeOK'
  BY <1>1, <1>2 DEF TypeOK
<1>4. /\ w = heap'[len] /\ len \in 0..len' - 1
      /\ \A i \in 0..len - 1 : heap[i] = heap'[i] /\ i \in 0..len' - 1
  BY <1>1
<1>5. \A i \in 0..len' - 1 : index'[heap'[i]] = i
  BY <1>1 DEF TypeOK, IndexAgrees, Held
<1>6. \A v \in Waiters \ Held' : index'[v] = -1
  BY <1>4 DEF TypeOK, IndexAgrees, Held
<1>7. CallInRange'
  BY <1>1 DEF CallInRange, TypeOK
<1> QED BY <1>3, <1>5, <1>6, <1>7 DEF IndexAgrees

\* Pop and Remove park the waiter that is to leave behind the limit.
LEMMA ExtractStep ==
  ASSUME IInv, step = "idle", NEW i \in 0..len - 1, NEW w \in Waiters \cup {Best},
         w # Best => heap[i] = w, Extract(i, w)
  PROVE  IInv'
<1> USE DEF IInv, Extract
<1>1. len \in Nat /\ len - 1 \in 0..len - 1 /\ len' = len /\ limit' = len - 1
  BY DEF TypeOK
<1>2. /\ IndexAgrees'
      /\ heap' \in [0..len - 1 -> Waiters]
      /\ index' \in [Waiters -> Int]
  <2>1. CASE i = len - 1
    BY <2>1 DEF TypeOK, IndexAgrees, Held
  <2>2. CASE i # len - 1
    BY <2>2, <1>1, SwapAgrees
  <2> QED BY <2>1, <2>2
<1>3. TypeOK'
  BY <1>1, <1>2 DEF TypeOK
<1>4. heap'[len - 1] = heap[i]
  BY <1>1 DEF Swap, TypeOK
<1>5. CallInRange'
  BY <1>1, <1>4 DEF CallInRange
<1> QED BY <1>2, <1>3, <1>5

\* The waiter at the last position, and only it, loses its index.
LEMMA TakeStep == IInv /\ Take => IInv'
<1> SUFFICES ASSUME IInv, Take PROVE IInv'
  OBVIOUS
<1> USE DEF IInv, Take, DropLast
<1>1. len \in Nat /\ len > 0 /\ len' = len - 1 /\ limit = len - 1
  BY DEF TypeOK, CallInRange
<1>2. heap' \in [0..len' - 1 -> Waiters] /\ index' \in [Waiters -> Int]
  BY <1>1 DEF TypeOK
<1>3. TypeOK'
  BY <1>1, <1>2, WaiterHeapAssumption DEF TypeOK
<1>4. \A i \in 0..len' - 1 : index'[heap'[i]] = i
  BY <1>1 DEF TypeOK, IndexAgrees
<1>5. \A v \in Waiters \ Held' : index'[v] = -1
  BY <1>1 DEF TypeOK, IndexAgrees, Held
<1>6. CallInRange'
  BY <1>1 DEF CallInRange
<1> QED BY <1>3, <1>4, <1>5, <1>6 DEF IndexAgrees

\* Remove works at the position of its own waiter.
LEMMA RemoveFindsWaiter ==
  ASSUME TypeOK, IndexAgrees, NEW w \in Waiters, Remove(w)
  PROVE  index[w] \in 0..len - 1 /\ heap[index[w]] = w /\ w \in Held
<1>1. w \in Held
  BY DEF IndexAgrees, Remove
<1>2. PICK i \in 0..len - 1 : heap[i] = w
  BY <1>1 DEF Held
<1>3. index[w] = i
  BY <1>2 DEF IndexAgrees
<1> QED BY <1>1, <1>2, <1>3

LEMMA StepInv == IInv /\ [Next]_vars => IInv'
<1> SUFFICES ASSUME IInv, [Next]_vars PROVE IInv'
  OBVIOUS
<1>1. ASSUME NEW w \in Waiters, Push(w) PROVE IInv'
  BY <1>1, PushStep
<1>2. ASSUME NEW w \in Waiters, Remove(w) PROVE IInv'
  <2>1. index[w] \in 0..len - 1 /\ heap[index[w]] = w
    BY <1>2, RemoveFindsWaiter DEF IInv
  <2> QED BY <1>2, <2>1, ExtractStep DEF Remove
<1>3. CASE PopBest
  <2>1. 0 \in 0..len - 1
    BY <1>3 DEF PopBest, IInv, TypeOK
  <2> QED BY <1>3, <2>1, ExtractStep DEF PopBest
<1>4. CASE MoveUp \/ MoveDown
  BY <1>4, MoveStep
<1>5. CASE StopUp \/ StopDown
  <2> USE <1>5 DEF IInv, StopUp, StopDown
  <2>1. TypeOK'
    BY DEF TypeOK
  <2>2. IndexAgrees'
    BY DEF IndexAgrees, Held
  <2>3. CallInRange'
    BY DEF CallInRange, TypeOK
  <2> QED BY <2>1, <2>2, <2>3
<1>6. CASE Take
  BY <1>6, TakeStep
<1>7. CASE UNCHANGED vars
  BY <1>7 DEF vars, IInv, TypeOK, IndexAgrees, CallInRange, Held
<1> QED BY <1>1, <1>2, <1>3, <1>4, <1>5, <1>6, <1>7 DEF Next

-----------------------------------------------------------------------------
THEOREM Invariance == Spec => []IInv
<1> QED BY InitInv, StepInv, PTL DEF Spec

\* The types of the heap, for every set of waiters, keys and clocks.
THEOREM TypeCorrect == Spec => []TypeOK
<1>1. IInv => TypeOK
  BY DEF IInv
<1> QED BY Invariance, <1>1, PTL

\* At every step of every call the index of a waiter is its position, and -1
\* outside the heap: the check w.index >= 0 of the timeout goroutine is sound.
THEOREM IndexCorrect == Spec => []IndexAgrees
<1>1. IInv => IndexAgrees
  BY DEF IInv
<1> QED BY Invariance, <1>1, PTL

-----------------------------------------------------------------------------
\* The order of the heap.

\* The key of the waiter at a position.
KeyAt(i) == key[heap[i]]

InOrder(i) == KeyAt(i) <= KeyAt(Parent(i))

\* Below the limit everything is in order, except the sifted waiter: up may find
\* it above its parent, down above it or below its children.
Sifted ==
  \A i \in 1..limit - 1 : \/ InOrder(i)
                          \/ i = at /\ step \in {"up", "down"}
                          \/ Parent(i) = at /\ step \in {"down", "sunk"}

\* Wherever the sifted waiter belongs, its children may stand under its parent,
\* so that it can be taken out of the way.
Bridged ==
  step \in {"up", "down", "sunk"} /\ at # 0 =>
    \A i \in 1..limit - 1 : Parent(i) = at => KeyAt(i) <= KeyAt(Parent(at))

OrderLink == slack = 0 => Sifted /\ Bridged

\* What heap.Pop has parked behind the limit is the best of all.
BestLink ==
  slack = 0 /\ step # "idle" /\ goal = Best => \A i \in 0..limit - 1 : KeyAt(i) <= KeyAt(len - 1)

HeapInv == IInv /\ (step = "idle" => limit = len) /\ OrderLink /\ BestLink

\* A parent lies above its children.
LEMMA ParentAbove == ASSUME NEW i \in Nat \ {0} PROVE Parent(i) \in 0..i - 1
  BY DEF Parent

LEMMA ChildrenBelow ==
  ASSUME at \in Nat, limit \in Nat
  PROVE  \A c : c \in Children(at) <=> c \in 1..limit - 1 /\ Parent(c) = at
  BY DEF Children, Parent

\* Keys are numbers.
LEMMA KeysAreNumbers == ASSUME TypeOK PROVE \A i \in 0..len - 1 : KeyAt(i) \in Int
  BY WaiterHeapAssumption DEF TypeOK, KeyAt

\* A swap exchanges two keys.
LEMMA SwapKeys ==
  ASSUME TypeOK, NEW i \in 0..len - 1, NEW j \in 0..len - 1, Swap(i, j), key' = key
  PROVE  /\ KeyAt(i)' = KeyAt(j) /\ KeyAt(j)' = KeyAt(i)
         /\ \A k \in (0..len - 1) \ {i, j} : KeyAt(k)' = KeyAt(k)
  BY DEF TypeOK, Swap, KeyAt

\* A set of numbers has a smallest one: the one whose numbers below it are a
\* subset of those of every other.
LEMMA SmallestExists ==
  ASSUME NEW T \in SUBSET Nat, T # {}
  PROVE  \E n \in T : \A m \in T : n <= m
<1> DEFINE Below == {0..m : m \in T}
<1>1. Below \subseteq FiniteSubsetsOf(Nat) /\ Below # {}
  <2>1. \A m \in T : IsFiniteSet(0..m) /\ 0..m \in SUBSET Nat
    BY FS_Interval
  <2> QED
    BY <2>1 DEF FiniteSubsetsOf
<1>2. PICK x \in Below : \A y \in Below : ~ (<<y, x>> \in StrictSubsetOrdering(Nat))
  <2> HIDE DEF Below
  <2> QED
    BY <1>1, FS_StrictSubsetOrderingWellFounded, WFMin
<1>3. PICK n \in T : x = 0..n
  OBVIOUS
<1>4. ASSUME NEW m \in T, m < n PROVE FALSE
  <2>1. 0..m \in Below /\ 0..m \subseteq x /\ n \in x /\ n \notin 0..m
    BY <1>3, <1>4
  <2>2. 0..m \in SUBSET Nat /\ x \in SUBSET Nat
    BY <1>3
  <2> QED
    BY <1>2, <2>1, <2>2 DEF StrictSubsetOrdering
<1> QED
  BY <1>4

\* In an ordered heap the root has the highest key.
LEMMA RootIsBest ==
  ASSUME TypeOK, \A i \in 1..len - 1 : InOrder(i), NEW j \in 0..len - 1
  PROVE  KeyAt(j) <= KeyAt(0)
<1> DEFINE better == {i \in 0..len - 1 : ~(KeyAt(i) <= KeyAt(0))}
<1> SUFFICES ASSUME j \in better PROVE FALSE
  OBVIOUS
<1>1. PICK m \in better : \A i \in better : m <= i
  <2>1. better \in SUBSET Nat
    BY DEF TypeOK
  <2> HIDE DEF better
  <2> QED
    BY <2>1, SmallestExists
<1>2. m \in 1..len - 1 /\ Parent(m) \in 0..m - 1 /\ Parent(m) \in 0..len - 1
  <2>1. len \in Nat /\ 0 \in 0..len - 1 /\ m # 0
    BY KeysAreNumbers DEF TypeOK
  <2>2. m \in 1..len - 1
    BY <2>1
  <2> QED
    BY <2>1, <2>2, ParentAbove
<1>3. KeyAt(Parent(m)) <= KeyAt(0)
  BY <1>1, <1>2
<1>4. KeyAt(m) <= KeyAt(Parent(m))
  BY <1>2 DEF InOrder
<1>5. KeyAt(m) \in Int /\ KeyAt(Parent(m)) \in Int /\ KeyAt(0) \in Int /\ ~(KeyAt(m) <= KeyAt(0))
  BY <1>1, <1>2, KeysAreNumbers DEF TypeOK
<1> QED
  BY <1>3, <1>4, <1>5

\* A swap of two sifted positions leaves the parked waiter the best of all.
LEMMA BestStays ==
  ASSUME TypeOK, CallInRange, BestLink, step # "idle",
         NEW i \in 0..limit - 1, NEW j \in 0..limit - 1, Swap(i, j),
         UNCHANGED <<len, key, limit, goal, slack>>
  PROVE  BestLink'
<1> SUFFICES ASSUME slack = 0, goal = Best, NEW k \in 0..limit - 1
             PROVE  KeyAt(k)' <= KeyAt(len - 1)'
  BY DEF BestLink
<1>1. limit = len - 1 /\ len \in Nat
  BY WaiterHeapAssumption DEF TypeOK, CallInRange
<1>2. i \in 0..len - 1 /\ j \in 0..len - 1 /\ len - 1 \in (0..len - 1) \ {i, j}
  BY <1>1
<1>3. KeyAt(len - 1)' = KeyAt(len - 1)
  BY <1>1, <1>2, SwapKeys
<1>4. KeyAt(k)' \in {KeyAt(l) : l \in 0..limit - 1}
  BY <1>1, <1>2, SwapKeys
<1>5. \A l \in 0..limit - 1 : KeyAt(l) <= KeyAt(len - 1)
  BY DEF BestLink
<1> QED
  BY <1>3, <1>4, <1>5 DEF KeyAt

\* A new waiter stands last, with nobody below it.
LEMMA PushOrder ==
  ASSUME HeapInv, NEW w \in Waiters, Push(w)
  PROVE  OrderLink' /\ BestLink'
<1> USE DEF HeapInv, IInv
<1>1. len \in Nat /\ limit = len /\ limit' = len + 1 /\ at' = len /\ step' = "up" /\ goal' = Nobody
  BY DEF Push, CallInRange, TypeOK
<1>2. \A i \in 0..len - 1 : KeyAt(i)' = KeyAt(i)
  BY <1>1 DEF Push, AddLast, Held, TypeOK, KeyAt
<1>3. \A i \in 1..limit' - 1 : Parent(i) \in 0..i - 1
  BY <1>1, ParentAbove
<1>4. OrderLink'
  <2> SUFFICES ASSUME slack = 0 PROVE Sifted' /\ Bridged'
    BY DEF OrderLink, Push
  <2>1. \A i \in 1..len - 1 : InOrder(i)
    BY <1>1 DEF OrderLink, Sifted, Push
  <2> QED
    BY <1>1, <1>2, <1>3, <2>1 DEF Sifted, Bridged, InOrder, KeyAt, Parent
<1>5. BestLink'
  BY <1>1, WaiterHeapAssumption DEF BestLink
<1> QED
  BY <1>4, <1>5


\* The two that an Extract exchanges are the one that leaves and the one that is
\* sifted; nobody else moves.
LEMMA ExtractOrder ==
  ASSUME HeapInv, step = "idle", NEW i \in 0..len - 1, NEW w \in Waiters \cup {Best},
         w = Best => i = 0, Extract(i, w)
  PROVE  OrderLink' /\ BestLink'
<1> USE DEF HeapInv, IInv
<1>1. /\ len \in Nat /\ limit = len /\ limit' = len - 1 /\ at' = i /\ goal' = w
      /\ len' = len /\ key' = key /\ slack' = slack
  BY DEF Extract, TypeOK
<1> SUFFICES ASSUME slack = 0 PROVE Sifted' /\ Bridged' /\ BestLink'
  BY <1>1 DEF OrderLink, BestLink
<1>2. \A k \in 1..len - 1 : InOrder(k) /\ Parent(k) \in 0..k - 1
  BY <1>1, ParentAbove DEF OrderLink, Sifted
<1>3. \A k \in 0..len - 1 : KeyAt(k) \in Int
  BY KeysAreNumbers
<1>4. CASE i = len - 1
  <2>1. step' = "take" /\ heap' = heap
    BY <1>4 DEF Extract
  <2>2. Sifted' /\ Bridged'
    BY <1>1, <1>2, <2>1 DEF Sifted, Bridged, InOrder, KeyAt
  <2>3. BestLink'
    BY <1>1, <1>4, <2>1, WaiterHeapAssumption DEF BestLink
  <2> QED BY <2>2, <2>3
<1>5. CASE i # len - 1
  <2>1. step' = "down" /\ Swap(i, len - 1) /\ len - 1 \in 0..len - 1
    BY <1>1, <1>5 DEF Extract
  <2>2. /\ KeyAt(i)' = KeyAt(len - 1) /\ KeyAt(len - 1)' = KeyAt(i)
        /\ \A k \in (0..len - 1) \ {i, len - 1} : KeyAt(k)' = KeyAt(k)
    BY <1>1, <2>1, SwapKeys
  <2>3. Sifted'
    BY <1>1, <1>2, <2>1, <2>2 DEF Sifted, InOrder
  <2>4. ASSUME NEW j \in 1..limit' - 1, Parent(j) = i, i # 0
        PROVE  KeyAt(j)' <= KeyAt(Parent(i))'
    <3>1. KeyAt(j) <= KeyAt(i) /\ KeyAt(i) <= KeyAt(Parent(i))
      BY <1>1, <1>2, <2>4 DEF InOrder
    <3>2. /\ j \in (0..len - 1) \ {i, len - 1} /\ Parent(i) \in (0..len - 1) \ {i, len - 1}
      BY <1>1, <1>2, <1>5, <2>4
    <3> QED BY <1>3, <2>2, <3>1, <3>2
  <2>5. Bridged'
    BY <1>1, <2>4 DEF Bridged
  <2>6. ASSUME w = Best, NEW j \in 0..limit' - 1 PROVE KeyAt(j)' <= KeyAt(len - 1)'
    BY <1>1, <1>2, <2>2, <2>6, RootIsBest
  <2>7. BestLink'
    BY <1>1, <2>6 DEF BestLink, KeyAt
  <2> QED BY <2>3, <2>5, <2>7
<1> QED BY <1>4, <1>5

\* up exchanges the waiter at a with its lesser parent at p, under which the
\* children of a and the other child of p may stand.
LEMMA MoveUpOrder ==
  ASSUME HeapInv, MoveUp, NEW a, a = at, NEW p, p = Parent(at)
  PROVE  OrderLink' /\ BestLink'
<1> USE DEF HeapInv, IInv
<1>1. /\ len \in Nat /\ limit \in 0..len /\ a \in 0..limit - 1 /\ at' = p
      /\ step = "up" /\ UNCHANGED <<len, key, step, limit, goal, slack>>
  BY DEF MoveUp, TypeOK, CallInRange
<1>2. \A k \in 0..len - 1 : KeyAt(k) \in Int
  BY KeysAreNumbers
<1>3. \A k \in 1..limit - 1 : Parent(k) \in 0..k - 1
  BY <1>1, ParentAbove
<1>4. a # 0 /\ KeyAt(a) > KeyAt(p) /\ Swap(p, a)
  BY <1>1, <1>2 DEF MoveUp, Less, KeyAt, Parent
<1>5. p = Parent(a) /\ p \in 0..a - 1
  BY <1>1, <1>3, <1>4
<1>6. BestLink'
  BY <1>1, <1>4, <1>5, BestStays
<1>7. /\ KeyAt(a)' = KeyAt(p) /\ KeyAt(p)' = KeyAt(a)
      /\ \A k \in (0..len - 1) \ {a, p} : KeyAt(k)' = KeyAt(k)
  BY <1>1, <1>4, <1>5, SwapKeys
<1> SUFFICES ASSUME slack = 0 PROVE Sifted' /\ Bridged'
  BY <1>1, <1>6 DEF OrderLink
<1>8. /\ \A k \in 1..limit - 1 : k # a => KeyAt(k) <= KeyAt(Parent(k))
      /\ \A k \in 1..limit - 1 : Parent(k) = a => KeyAt(k) <= KeyAt(p)
  BY <1>1, <1>4, <1>5 DEF OrderLink, Sifted, Bridged, InOrder
<1>9. ASSUME NEW k \in 1..limit - 1, k # p PROVE KeyAt(k)' <= KeyAt(Parent(k))'
  <2> DEFINE u == Parent(k)
  <2>1. u \in 0..k - 1 /\ KeyAt(k) \in Int /\ KeyAt(u) \in Int /\ KeyAt(a) \in Int /\ KeyAt(p) \in Int
    BY <1>1, <1>2, <1>3, <1>5
  <2>2. CASE k = a
    BY <1>4, <1>5, <1>7, <2>1, <2>2
  <2>3. CASE k # a /\ u = a
    BY <1>1, <1>7, <1>8, <1>9, <2>1, <2>3
  <2>4. CASE k # a /\ u = p
    BY <1>1, <1>4, <1>7, <1>8, <1>9, <2>1, <2>4
  <2>5. CASE k # a /\ u \notin {a, p}
    BY <1>1, <1>7, <1>8, <1>9, <2>1, <2>5
  <2> QED BY <2>2, <2>3, <2>4, <2>5
<1>10. ASSUME NEW k \in 1..limit - 1, Parent(k) = p, p # 0
       PROVE  KeyAt(k)' <= KeyAt(Parent(p))'
  <2> DEFINE u == Parent(p)
  <2>1. /\ u \in 0..p - 1 /\ p \in 1..limit - 1
        /\ KeyAt(k) \in Int /\ KeyAt(u) \in Int /\ KeyAt(p) \in Int
    BY <1>1, <1>2, <1>3, <1>5, <1>10
  <2>2. KeyAt(u)' = KeyAt(u) /\ KeyAt(p) <= KeyAt(u)
    BY <1>1, <1>5, <1>7, <1>8, <2>1
  <2>3. CASE k = a
    BY <1>7, <2>1, <2>2, <2>3
  <2>4. CASE k # a
    BY <1>1, <1>3, <1>7, <1>8, <1>10, <2>1, <2>2, <2>4
  <2> QED BY <2>3, <2>4
<1> QED
  BY <1>1, <1>9, <1>10 DEF Sifted, Bridged, InOrder

\* down exchanges the waiter at a with the child at c that no other child
\* exceeds; c may stand under the parent of a.
LEMMA MoveDownOrder ==
  ASSUME HeapInv, NEW a, a = at, NEW c \in Children(at), step \in {"down", "sunk"},
         Chosen(c), Less(c, at), Swap(at, c), at' = c, step' = "sunk",
         UNCHANGED <<len, key, limit, goal, slack>>
  PROVE  OrderLink' /\ BestLink'
<1> USE DEF HeapInv, IInv
<1>1. /\ len \in Nat /\ limit \in 0..len /\ a \in 0..limit - 1
      /\ \A k : k \in Children(a) <=> k \in 1..limit - 1 /\ Parent(k) = a
  BY ChildrenBelow DEF TypeOK, CallInRange
<1>2. \A k \in 0..len - 1 : KeyAt(k) \in Int
  BY KeysAreNumbers
<1>3. \A k \in 1..limit - 1 : Parent(k) \in 0..k - 1
  BY <1>1, ParentAbove
<1>4. c \in 1..limit - 1 /\ Parent(c) = a /\ a \in 0..c - 1 /\ KeyAt(c) > KeyAt(a) /\ Swap(a, c)
  BY <1>1, <1>3 DEF Less, KeyAt
<1>5. BestLink'
  BY <1>1, <1>4, BestStays
<1>6. /\ KeyAt(a)' = KeyAt(c) /\ KeyAt(c)' = KeyAt(a)
      /\ \A k \in (0..len - 1) \ {a, c} : KeyAt(k)' = KeyAt(k)
  BY <1>1, <1>4, SwapKeys
<1> SUFFICES ASSUME slack = 0 PROVE Sifted' /\ Bridged'
  BY <1>5 DEF OrderLink
<1>7. \A k \in 1..limit - 1 : Parent(k) = a => KeyAt(k) <= KeyAt(c)
  <2>1. ASSUME NEW k \in 1..limit - 1, Parent(k) = a, k # c PROVE KeyAt(k) <= KeyAt(c)
    <3>1. IF k < c THEN Less(c, k) ELSE NotLess(k, c)
      BY <1>1, <2>1 DEF Chosen
    <3>2. KeyAt(k) \in Int /\ KeyAt(c) \in Int
      BY <1>1, <1>2, <1>4
    <3> QED BY <3>1, <3>2 DEF Less, NotLess, KeyAt
  <2>2. KeyAt(c) <= KeyAt(c)
    BY <1>1, <1>2, <1>4
  <2> QED BY <2>1, <2>2
<1>8. /\ \A k \in 1..limit - 1 : (k # a \/ step = "sunk") /\ Parent(k) # a => KeyAt(k) <= KeyAt(Parent(k))
      /\ a # 0 => KeyAt(c) <= KeyAt(Parent(a))
  BY <1>1, <1>4 DEF OrderLink, Sifted, Bridged, InOrder
<1>9. ASSUME NEW k \in 1..limit - 1, Parent(k) # c PROVE KeyAt(k)' <= KeyAt(Parent(k))'
  <2> DEFINE u == Parent(k)
  <2>1. u \in 0..k - 1 /\ KeyAt(k) \in Int /\ KeyAt(u) \in Int /\ KeyAt(a) \in Int /\ KeyAt(c) \in Int
    BY <1>1, <1>2, <1>3, <1>4
  <2>2. CASE k = c
    BY <1>4, <1>6, <2>1, <2>2
  <2>3. CASE k # c /\ u = a
    BY <1>1, <1>6, <1>7, <1>9, <2>1, <2>3
  <2>4. CASE k = a
    BY <1>1, <1>6, <1>8, <1>9, <2>1, <2>4
  <2>5. CASE k \notin {a, c} /\ u # a
    BY <1>1, <1>6, <1>8, <1>9, <2>1, <2>5
  <2> QED BY <2>2, <2>3, <2>4, <2>5
<1>10. ASSUME NEW k \in 1..limit - 1, Parent(k) = c
       PROVE  KeyAt(k)' <= KeyAt(Parent(c))'
  <2>1. c \in 0..k - 1 /\ k \notin {a, c}
    BY <1>3, <1>4, <1>10
  <2> QED BY <1>1, <1>4, <1>6, <1>8, <1>10, <2>1
<1> QED
  BY <1>9, <1>10 DEF Sifted, Bridged, InOrder

\* Sifting stops where the waiter is in order.
LEMMA StopOrder ==
  ASSUME HeapInv, StopUp \/ StopDown
  PROVE  OrderLink' /\ BestLink' /\ (step' = "idle" => limit' = len')
<1> USE DEF HeapInv, IInv
<1>1. /\ len \in Nat /\ limit \in {len - 1, len} /\ limit \in 0..len /\ at \in 0..limit - 1
      /\ UNCHANGED <<len, heap, key, at, limit, goal, slack>>
      /\ step # "idle"
  BY DEF StopUp, StopDown, TypeOK, CallInRange
<1>2. BestLink'
  BY <1>1 DEF BestLink, KeyAt
<1>3. \A k \in 0..len - 1 : KeyAt(k) \in Int
  BY KeysAreNumbers
<1>4. \A k \in 1..limit - 1 : Parent(k) \in 0..k - 1
  BY <1>1, ParentAbove
<1>5. \A k : k \in Children(at) <=> k \in 1..limit - 1 /\ Parent(k) = at
  BY <1>1, ChildrenBelow
<1>6. CASE StopUp
  <2>1. step' \in {"take", "idle"} /\ (step' = "idle" => limit' = len')
    BY <1>1, <1>6 DEF StopUp
  <2>2. ASSUME slack = 0, NEW k \in 1..limit - 1 PROVE InOrder(k)
    <3>1. CASE k = at
      BY <1>6, <3>1, <2>2, <1>1, <1>3, <1>4 DEF StopUp, NotLess, InOrder, KeyAt
    <3>2. CASE k # at
      BY <1>6, <3>2, <2>2 DEF OrderLink, Sifted, StopUp
    <3> QED BY <3>1, <3>2
  <2>3. OrderLink'
    BY <1>1, <2>1, <2>2 DEF OrderLink, Sifted, Bridged, InOrder, KeyAt
  <2> QED BY <1>2, <2>1, <2>3
<1>7. CASE StopDown
  <2>1. step \in {"down", "sunk"} /\ step' = IF step = "down" THEN "up" ELSE "take"
    BY <1>7 DEF StopDown
  <2>2. ASSUME slack = 0, NEW k \in 1..limit - 1, Parent(k) = at PROVE InOrder(k)
    <3>1. PICK c \in Children(at) : Chosen(c) /\ NotLess(c, at)
      BY <1>5, <1>7, <2>2 DEF StopDown
    <3>2. /\ c \in 0..len - 1 /\ k \in 0..len - 1 /\ k \in Children(at) /\ at \in 0..len - 1
          /\ KeyAt(c) \in Int /\ KeyAt(k) \in Int /\ KeyAt(at) \in Int
      BY <1>1, <1>3, <1>5, <2>2, <3>1
    <3>3. KeyAt(c) <= KeyAt(at)
      BY <2>2, <3>1, <3>2 DEF NotLess, KeyAt
    <3>4. CASE k = c
      BY <2>2, <3>3, <3>4 DEF InOrder
    <3>5. CASE k # c
      <4>1. KeyAt(k) <= KeyAt(c)
        BY <2>2, <3>1, <3>2, <3>5 DEF Chosen, Less, NotLess, KeyAt
      <4> QED BY <2>2, <3>2, <3>3, <4>1 DEF InOrder
    <3> QED BY <3>4, <3>5
  <2>3. ASSUME slack = 0, NEW k \in 1..limit - 1 PROVE InOrder(k) \/ (k = at /\ step = "down")
    BY <2>1, <2>2, <2>3 DEF OrderLink, Sifted
  <2>4. ASSUME slack = 0 PROVE Sifted' /\ Bridged'
    <3>1. Sifted'
      BY <1>1, <2>1, <2>3, <2>4 DEF Sifted, InOrder, KeyAt
    <3>2. Bridged'
      BY <1>1, <2>1, <2>4 DEF OrderLink, Bridged, KeyAt
    <3> QED BY <3>1, <3>2
  <2> QED BY <1>1, <1>2, <2>1, <2>4 DEF OrderLink
<1> QED BY <1>6, <1>7

\* What is left after a call is in order.
LEMMA TakeOrder ==
  ASSUME HeapInv, Take
  PROVE  OrderLink' /\ BestLink' /\ (step' = "idle" => limit' = len')
<1> USE DEF HeapInv, IInv
<1>1. /\ len \in Nat /\ limit = len - 1 /\ limit' = limit /\ len' = len - 1
      /\ key' = key /\ slack' = slack /\ step = "take" /\ step' = "idle"
      /\ \A k \in 0..limit - 1 : heap'[k] = heap[k]
  BY DEF Take, DropLast, TypeOK, CallInRange
<1>2. \A k \in 1..limit - 1 : Parent(k) \in 0..k - 1
  BY <1>1, ParentAbove
<1>3. OrderLink'
  BY <1>1, <1>2 DEF OrderLink, Sifted, Bridged, InOrder, KeyAt
<1>4. BestLink'
  BY <1>1 DEF BestLink
<1> QED BY <1>1, <1>3, <1>4

LEMMA HeapInit == Init => HeapInv
<1> SUFFICES ASSUME Init PROVE HeapInv
  OBVIOUS
<1>1. IInv
  BY InitInv
<1>2. limit = len /\ OrderLink /\ BestLink
  BY DEF Init, OrderLink, Sifted, Bridged, BestLink
<1> QED BY <1>1, <1>2 DEF HeapInv

LEMMA HeapStep == HeapInv /\ [Next]_vars => HeapInv'
<1> SUFFICES ASSUME HeapInv, [Next]_vars
             PROVE  OrderLink' /\ BestLink' /\ (step' = "idle" => limit' = len')
  BY StepInv DEF HeapInv
<1>1. ASSUME NEW w \in Waiters, Push(w)
      PROVE  OrderLink' /\ BestLink' /\ (step' = "idle" => limit' = len')
  BY <1>1, PushOrder DEF Push
<1>2. ASSUME NEW i \in 0..len - 1, NEW w \in Waiters \cup {Best}, w = Best => i = 0,
             step = "idle", Extract(i, w)
      PROVE  OrderLink' /\ BestLink' /\ (step' = "idle" => limit' = len')
  BY <1>2, ExtractOrder DEF Extract
<1>3. ASSUME NEW w \in Waiters, Remove(w)
      PROVE  OrderLink' /\ BestLink' /\ (step' = "idle" => limit' = len')
  <2>1. index[w] \in 0..len - 1 /\ w # Best
    BY <1>3, RemoveFindsWaiter, WaiterHeapAssumption DEF HeapInv, IInv
  <2> QED BY <1>2, <1>3, <2>1 DEF Remove
<1>4. CASE PopBest
  <2>1. 0 \in 0..len - 1
    BY <1>4 DEF PopBest, HeapInv, IInv, TypeOK
  <2> QED BY <1>2, <1>4, <2>1 DEF PopBest
<1>5. CASE MoveUp
  BY <1>5, MoveUpOrder DEF MoveUp
<1>6. CASE MoveDown
  BY <1>6, MoveDownOrder DEF MoveDown
<1>7. CASE StopUp \/ StopDown
  BY <1>7, StopOrder
<1>8. CASE Take
  BY <1>8, TakeOrder
<1>9. CASE UNCHANGED vars
  BY <1>9 DEF vars, HeapInv, OrderLink, Sifted, Bridged, BestLink, InOrder, KeyAt
<1> QED BY <1>1, <1>3, <1>4, <1>5, <1>6, <1>7, <1>8, <1>9 DEF Next

THEOREM HeapInvariance == Spec => []HeapInv
<1> QED BY HeapInit, HeapStep, PTL DEF Spec

\* Between calls no waiter is above its parent, whatever was pushed, popped and
\* removed, as long as the two readings of the clock agree.
THEOREM HeapStaysOrdered == Spec => []HeapOrdered
<1>1. HeapInv => HeapOrdered
  <2> SUFFICES ASSUME HeapInv, step = "idle", slack = 0, NEW i \in 1..len - 1
               PROVE  ~Less(i, Parent(i))
    BY DEF HeapOrdered
  <2>1. InOrder(i) /\ Parent(i) \in 0..i - 1 /\ len \in Nat
    BY ParentAbove DEF HeapInv, OrderLink, Sifted, IInv, TypeOK
  <2>2. KeyAt(i) \in Int /\ KeyAt(Parent(i)) \in Int
    BY <2>1, KeysAreNumbers DEF HeapInv, IInv
  <2> QED BY <2>1, <2>2 DEF InOrder, Less, KeyAt
<1> QED BY HeapInvariance, <1>1, PTL

-----------------------------------------------------------------------------
\* Sifting moves waiters, and the pool does not see it.
LEMMA SiftIsInvisible ==
  ASSUME TypeOK, NEW i \in 0..len - 1, NEW j \in 0..len - 1, Swap(i, j), len' = len
  PROVE  Held' = Held
  BY DEF Held, TypeOK, Swap

\* Every step of the array is a step of the pool, or none.
LEMMA PoolStep == HeapInv /\ [Next]_vars => [Pool!Next]_(Pool!vars)
<1> SUFFICES ASSUME HeapInv, [Next]_vars PROVE [Pool!Next]_(Pool!vars)
  OBVIOUS
<1> USE DEF HeapInv, IInv, Pool!vars
<1>0. len \in Nat /\ limit \in {len - 1, len} /\ Held \subseteq Waiters
  BY DEF TypeOK, Held
<1>1. ASSUME NEW w \in Waiters, Push(w) PROVE Pool!Add(w)
  <2>1. Held' = Held \cup {w}
    BY <1>0, <1>1 DEF Push, AddLast, Held
  <2> QED BY <1>1, <2>1 DEF Push, CallInRange, Pool!Add
<1>2. ASSUME NEW i \in 0..len - 1, NEW w \in Held \cup {Best}, step = "idle", Extract(i, w)
      PROVE  Pool!Ask
  <2>1. Held' = Held
    <3>1. CASE i = len - 1
      BY <1>2, <3>1 DEF Extract, Held
    <3>2. CASE i # len - 1
      BY <1>0, <1>2, <3>2, SiftIsInvisible DEF Extract
    <3> QED BY <3>1, <3>2
  <2>2. heap[i] \in Held
    BY DEF Held
  <2> QED BY <1>2, <2>1, <2>2 DEF Extract, CallInRange, Pool!Ask
<1>3. ASSUME NEW w \in Waiters, Remove(w) PROVE Pool!Ask
  <2>1. index[w] \in 0..len - 1 /\ w \in Held
    BY <1>3, RemoveFindsWaiter
  <2> QED BY <1>2, <1>3, <2>1 DEF Remove
<1>4. ASSUME PopBest PROVE Pool!Ask
  <2>1. 0 \in 0..len - 1
    BY <1>0, <1>4 DEF PopBest
  <2> QED BY <1>2, <1>4, <2>1 DEF PopBest
<1>5. ASSUME Take PROVE Pool!Take(heap[len - 1])
  <2> DEFINE w == heap[len - 1]
  <2>1. len - 1 \in 0..len - 1 /\ w \in Held /\ limit = len - 1 /\ len' = len - 1
    BY <1>0, <1>5 DEF Take, DropLast, CallInRange, Held
  <2>2. Held' = Held \ {w}
    <3>1. Held' = {heap[k] : k \in 0..len - 2}
      BY <1>0, <1>5, <2>1 DEF Take, DropLast, Held
    <3>2. \A k \in 0..len - 2 : heap[k] # w
      BY <1>0, <2>1 DEF IndexAgrees
    <3> QED BY <1>0, <3>1, <3>2 DEF Held
  <2>3. goal = w \/ goal = Best
    BY <1>0, <1>5, <2>1 DEF Take, CallInRange
  <2>4. ASSUME goal = Best, slack = 0, NEW v \in Held PROVE key[v] <= key[w]
    <3>1. PICK k \in 0..len - 1 : v = heap[k]
      BY DEF Held
    <3>2. CASE k = len - 1
      BY <3>1, <3>2, <2>1, KeysAreNumbers DEF KeyAt
    <3>3. CASE k # len - 1
      BY <1>0, <1>5, <2>1, <2>4, <3>1, <3>3 DEF BestLink, KeyAt, Take
    <3> QED BY <3>2, <3>3
  <2> QED BY <1>5, <2>1, <2>2, <2>3, <2>4 DEF Take, Pool!Take, Pool!Highest
<1>6. ASSUME MoveUp PROVE UNCHANGED Pool!vars
  <2>1. at \in 0..len - 1 /\ Parent(at) \in 0..len - 1
    BY <1>0, <1>6, ParentInRange DEF MoveUp, TypeOK, CallInRange
  <2> QED BY <1>6, <2>1, SiftIsInvisible DEF MoveUp
<1>7. ASSUME MoveDown PROVE UNCHANGED Pool!vars
  <2>1. at \in 0..len - 1 /\ Children(at) \subseteq 0..len - 1
    BY <1>0, <1>7 DEF MoveDown, TypeOK, CallInRange, Children
  <2> QED BY <1>7, <2>1, SiftIsInvisible DEF MoveDown
<1>8. ASSUME StopUp \/ StopDown \/ UNCHANGED vars PROVE UNCHANGED Pool!vars
  BY <1>8 DEF StopUp, StopDown, vars, Held
<1>9. ASSUME Take PROVE heap[len - 1] \in Waiters
  BY <1>0, <1>9 DEF Take, CallInRange, TypeOK
<1> QED
  BY <1>1, <1>3, <1>4, <1>5, <1>6, <1>7, <1>8, <1>9 DEF Next, Pool!Next

\* The array keeps the promise the queue needs: Release takes a waiter of
\* highest priority (when the readings of the clock agree), a timeout goroutine
\* its own waiter, and nobody else ever leaves.
THEOREM HeapKeepsPromise == Spec => ImplementsWaiterPool
<1>1. Init => Pool!Init
  <2> SUFFICES ASSUME Init PROVE Pool!Init
    OBVIOUS
  <2>1. Held = {} /\ key \in [Waiters -> Keys]
    BY HeapInit DEF Init, Held, HeapInv, IInv, TypeOK
  <2> QED BY <2>1 DEF Init, Pool!Init
<1> QED
  BY HeapInvariance, <1>1, PoolStep, PTL DEF Spec, ImplementsWaiterPool, Pool!Spec

=============================================================================
