------------------------------ MODULE MCMigrate -----------------------------
(***************************************************************************)
(* Migrate during the roll-out of a release with one more file, for TLC.   *)
(***************************************************************************)
EXTENDS Migrate, TLC

MCShips == [i \in {"old", "new", "new2"} |-> IF i = "old" THEN 2 ELSE 3]

=============================================================================
