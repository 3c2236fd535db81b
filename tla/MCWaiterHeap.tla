---------------------------- MODULE MCWaiterHeap ----------------------------
(***************************************************************************)
(* A small instance of WaiterHeap.  Six waiters are the fewest with which  *)
(* a Remove can move the last waiter under a parent that it beats, so that *)
(* it has to rise.                                                         *)
(***************************************************************************)
EXTENDS WaiterHeap, TLC

MCKeys == 0..2

\* Waiters differ only in their keys.
Symmetry == Permutations(Waiters)

=============================================================================
