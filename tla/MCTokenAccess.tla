---------------------------- MODULE MCTokenAccess ----------------------------
(***************************************************************************)
(* A small instance of TokenAccess: two goroutines that fill the cache     *)
(* against each other, a server request with the old and one with the new  *)
(* secret, and a browser request.  The TTLs keep the proportion of the     *)
(* defaults (5 and 10 minutes).                                            *)
(***************************************************************************)
EXTENDS TokenAccess, TLC

MCUsages ==
  { [template |-> <<"users", Param>>, domain |-> "d1"],
    [template |-> <<"users", "me">>,  domain |-> "d2"] }

MCRequests ==
  { [secret |-> "s1", origin |-> "",  path |-> <<"proxy-server", "", "users", "me">>],
    [secret |-> "s2", origin |-> "",  path |-> <<"proxy-server", "users", "7">>],
    [secret |-> "",   origin |-> "o", path |-> <<"proxy-browser", "users", "">>],
    [secret |-> "",   origin |-> "o", path |-> <<"proxy-browser", "users", "7">>] }

\* Readers are interchangeable.
Symmetry == Permutations(Readers)

=============================================================================
