----------------------------- MODULE WaiterPool -----------------------------
(***************************************************************************)
(* What the queue of hrn_queue.go wants of its heap: a pool of waiters     *)
(* from which a Release takes one of the highest priority, and from which  *)
(* a timeout goroutine takes its own waiter and no other.                  *)
(***************************************************************************)
EXTENDS Integers

CONSTANTS Waiters,  \* the waiters that may be in the pool
          Keys,     \* the priorities they may have
          Best,     \* sentinel: the call asks for the highest priority
          Nobody    \* sentinel: no call is under way

VARIABLES
  pool,   \* the waiters in the pool
  key,    \* the priority of each waiter
  goal,   \* whom the call under way is to take out
  exact   \* whether priorities are compared at one instant

vars == <<pool, key, goal, exact>>

Init ==
  /\ pool = {}
  /\ key \in [Waiters -> Keys]
  /\ goal = Nobody
  /\ exact \in BOOLEAN

Add(w) ==
  /\ goal = Nobody
  /\ w \notin pool
  /\ pool' = pool \cup {w}
  /\ \E k \in Keys : key' = [key EXCEPT ![w] = k]
  /\ UNCHANGED <<goal, exact>>

Ask ==
  /\ goal = Nobody
  /\ pool # {}
  /\ goal' \in pool \cup {Best}
  /\ UNCHANGED <<pool, key, exact>>

Highest(w) == \A v \in pool : key[v] <= key[w]

\* The one who was named leaves, or one of the highest priority.
Take(w) ==
  /\ w \in pool
  /\ \/ goal = w
     \/ goal = Best /\ (exact => Highest(w))
  /\ pool' = pool \ {w}
  /\ goal' = Nobody
  /\ UNCHANGED <<key, exact>>

Next == Ask \/ \E w \in Waiters : Add(w) \/ Take(w)

Spec == Init /\ [][Next]_vars

=============================================================================
