-------------------------- MODULE MCSemaphoreQueue --------------------------
(***************************************************************************)
(* Small instances of SemaphoreQueue: more requests than slots, so that    *)
(* several stand in line and give up in any order.                         *)
(***************************************************************************)
EXTENDS SemaphoreQueue, TLC

\* Requests are interchangeable.
Symmetry == Permutations(Requests)

=============================================================================
