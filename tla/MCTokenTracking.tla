--------------------------- MODULE MCTokenTracking ---------------------------
(***************************************************************************)
(* Small instances of TokenTracking: two or three requests of one token,   *)
(* at most two minutes, and a multiplier small enough for them to exceed   *)
(* the threshold.                                                          *)
(***************************************************************************)
EXTENDS TokenTracking, TLC

\* Requests are interchangeable.
Symmetry == Permutations(Requests)

=============================================================================
