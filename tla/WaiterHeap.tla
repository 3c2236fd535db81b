----------------------------- MODULE WaiterHeap -----------------------------
(***************************************************************************)
(* The heap of internal/queue/hrn_queue.go: waitHeap under the functions   *)
(* of container/heap that call it.  The calls run under q.mu, one at a     *)
(* time; a step is what lies between two comparisons.                      *)
(*                                                                         *)
(* effectivePriority grows with the waiting time at one rate for all, so   *)
(* at any instant two waiters compare as their priorities minus the rate   *)
(* times their enqueuedAt: the key of a waiter.  But Less reads the clock  *)
(* once for each side.  What the rate makes of the time between the two    *)
(* readings is at most slack, and of two keys that close Less may take the *)
(* higher one for not higher.                                              *)
(***************************************************************************)
EXTENDS Integers

CONSTANTS Waiters,  \* names of waiters; one that has left may return as another
          Keys,     \* the values of priority - rate * enqueuedAt
          Slacks,   \* how far apart the readings of a behavior may be
          Best,     \* sentinel: the call is heap.Pop, which names no waiter
          Nobody    \* sentinel: no call takes a waiter out

ASSUME WaiterHeapAssumption ==
  /\ Keys \subseteq Int
  /\ Keys # {}
  /\ Slacks \subseteq Nat
  /\ Best \notin Waiters
  /\ Nobody \notin Waiters
  /\ Best # Nobody

VARIABLES
  len,    \* length of q.heap
  heap,   \* q.heap: an array from 0 to len - 1
  index,  \* waiter.index
  key,    \* the key of each waiter
  step,   \* where the call under way is; "idle" when q.mu is free
  at,     \* the position that is being sifted
  limit,  \* positions from here on are not sifted (n in container/heap)
  goal,   \* whom the call under way takes out
  slack   \* the clock of this behavior

vars == <<len, heap, index, key, step, at, limit, goal, slack>>

\* heap.Init on an empty slice.
Init ==
  /\ len = 0
  /\ heap = [i \in {} |-> Nobody]
  /\ index = [w \in Waiters |-> -1]
  /\ key = [w \in Waiters |-> CHOOSE k \in Keys : TRUE]
  /\ step = "idle"
  /\ at = 0
  /\ limit = 0
  /\ goal = Nobody
  /\ slack \in Slacks

Held == {heap[i] : i \in 0..len - 1}

-----------------------------------------------------------------------------
\* The methods of waitHeap.

\* Mutant of Swap: only one of the two waiters learns its new position.
SwapHalfIndexed(i, j) ==
  /\ heap' = [heap EXCEPT ![i] = heap[j], ![j] = heap[i]]
  /\ index' = [index EXCEPT ![heap[i]] = j]

Swap(i, j) ==
  /\ heap' = [heap EXCEPT ![i] = heap[j], ![j] = heap[i]]
  /\ index' = [index EXCEPT ![heap[j]] = i, ![heap[i]] = j]

\* Less(i, j) may be true, and it may be false.
Less(i, j) == key[heap[i]] > key[heap[j]]
NotLess(i, j) == key[heap[i]] <= key[heap[j]] + slack

\* waitHeap.Push.
AddLast(w) ==
  /\ heap' = [i \in 0..len |-> IF i = len THEN w ELSE heap[i]]
  /\ index' = [index EXCEPT ![w] = len]
  /\ len' = len + 1

\* waitHeap.Pop.
DropLast ==
  /\ heap' = [i \in 0..len - 2 |-> heap[i]]
  /\ index' = [index EXCEPT ![heap[len - 1]] = -1]
  /\ len' = len - 1

-----------------------------------------------------------------------------
\* The calls of the queue.

\* heap.Push by Acquire; then up from the last position.
Push(w) ==
  /\ step = "idle"
  /\ w \notin Held
  /\ AddLast(w)
  /\ \E k \in Keys : key' = [key EXCEPT ![w] = k]
  /\ step' = "up"
  /\ at' = len
  /\ limit' = len + 1
  /\ UNCHANGED <<goal, slack>>

\* The waiter at i changes places with the last one, which is then sifted.
Extract(i, w) ==
  /\ IF i = len - 1 THEN step' = "take" /\ UNCHANGED <<heap, index>>
                    ELSE step' = "down" /\ Swap(i, len - 1)
  /\ at' = i
  /\ limit' = len - 1
  /\ goal' = w
  /\ UNCHANGED <<len, key, slack>>

\* heap.Pop by Release, which has found the heap not empty.
PopBest == step = "idle" /\ len > 0 /\ Extract(0, Best)

\* heap.Remove by the timeout goroutine of w, which looks at the index first.
Remove(w) == step = "idle" /\ index[w] >= 0 /\ Extract(index[w], w)

-----------------------------------------------------------------------------
\* container/heap: up and down.

\* (j - 1) / 2 is cut towards zero: the root is its own parent.
Parent(i) == IF i = 0 THEN 0 ELSE (i - 1) \div 2

\* Mutant of Children: the last position is sifted along with the others.
AllChildren(i) == {c \in {2 * i + 1, 2 * i + 2} : c < len}

Children(i) == {c \in {2 * i + 1, 2 * i + 2} : c < limit}

\* The child that down compares with its parent: the left one unless the
\* right one is Less.
Chosen(c) ==
  \A d \in Children(at) \ {c} : IF d < c THEN Less(c, d) ELSE NotLess(d, c)

MoveUp ==
  /\ step = "up"
  /\ Less(at, Parent(at))
  /\ Swap(Parent(at), at)
  /\ at' = Parent(at)
  /\ UNCHANGED <<len, key, step, limit, goal, slack>>

\* The end of up: a Push is complete, a Remove still has to drop the waiter.
StopUp ==
  /\ step = "up"
  /\ NotLess(at, Parent(at))
  /\ step' = IF limit < len THEN "take" ELSE "idle"
  /\ UNCHANGED <<len, heap, index, key, at, limit, goal, slack>>

MoveDown ==
  /\ step \in {"down", "sunk"}
  /\ \E c \in Children(at) : Chosen(c) /\ Less(c, at) /\ Swap(at, c) /\ at' = c
  /\ step' = "sunk"
  /\ UNCHANGED <<len, key, limit, goal, slack>>

\* Mutant of StopDown: Remove never sifts up.
StopDownForGood ==
  /\ step \in {"down", "sunk"}
  /\ \/ Children(at) = {}
     \/ \E c \in Children(at) : Chosen(c) /\ NotLess(c, at)
  /\ step' = "take"
  /\ UNCHANGED <<len, heap, index, key, at, limit, goal, slack>>

\* The end of down: what has not sunk may have to rise.  (After heap.Pop it is
\* at the root, where up does nothing.)
StopDown ==
  /\ step \in {"down", "sunk"}
  /\ \/ Children(at) = {}
     \/ \E c \in Children(at) : Chosen(c) /\ NotLess(c, at)
  /\ step' = IF step = "down" THEN "up" ELSE "take"
  /\ UNCHANGED <<len, heap, index, key, at, limit, goal, slack>>

\* h.Pop(), and the call returns.
Take ==
  /\ step = "take"
  /\ DropLast
  /\ step' = "idle"
  /\ goal' = Nobody
  /\ UNCHANGED <<key, at, limit, slack>>

Next ==
  \/ \E w \in Waiters : Push(w) \/ Remove(w)
  \/ PopBest
  \/ MoveUp \/ StopUp \/ MoveDown \/ StopDown \/ Take

Spec == Init /\ [][Next]_vars

-----------------------------------------------------------------------------
(***************************************************************************)
(* What the queue relies on.                                               *)
(***************************************************************************)

\* Types.  The limit spares at most the last position, which only holds the
\* waiter that is about to leave.
TypeOK ==
  /\ len \in Nat
  /\ heap \in [0..len - 1 -> Waiters]
  /\ index \in [Waiters -> Int]
  /\ key \in [Waiters -> Keys]
  /\ step \in {"idle", "up", "down", "sunk", "take"}
  /\ at \in Nat
  /\ limit \in {len - 1, len}
  /\ goal \in Waiters \cup {Best, Nobody}
  /\ slack \in Slacks

\* The index of a waiter is its position at every step of every call, and -1
\* when it is not in the heap: the timeout goroutine that looks at it removes
\* its own waiter or nobody, and no waiter is in the heap twice.
IndexAgrees ==
  /\ \A i \in 0..len - 1 : index[heap[i]] = i
  /\ \A w \in Waiters \ Held : index[w] = -1

\* Between calls no waiter is above its parent, after removals from the middle
\* too, as long as the two readings of the clock agree.
HeapOrdered ==
  step = "idle" /\ slack = 0 => \A i \in 1..len - 1 : ~Less(i, Parent(i))

\* The array keeps the promise the queue needs: Pop takes a waiter of highest
\* priority, Remove the one it was called for, and nobody else leaves.
Pool == INSTANCE WaiterPool WITH pool <- Held, exact <- slack = 0

ImplementsWaiterPool == Pool!Spec

=============================================================================
