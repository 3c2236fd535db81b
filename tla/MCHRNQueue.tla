----------------------------- MODULE MCHRNQueue -----------------------------
(***************************************************************************)
(* Small instances of HRNQueue.  A tick is the default timeout of one      *)
(* second and the unit of priority is 0.05, so with the defaults a failure *)
(* costs 4 units and a tick of waiting gains 2.                            *)
(***************************************************************************)
EXTENDS HRNQueue

\* base_priority 1.0, and the priority after one recorded failure.
MCPriorities == {20, 16}

=============================================================================
