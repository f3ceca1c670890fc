----------------------------- MODULE MCUserCache -----------------------------
(***************************************************************************)
(* UserCache for TLC.                                                      *)
(***************************************************************************)
EXTENDS UserCache, TLC

Symmetry == Permutations(Requests) \cup Permutations(Roles)

=============================================================================
