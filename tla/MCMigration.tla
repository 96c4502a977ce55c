----------------------------- MODULE MCMigration -----------------------------
(***************************************************************************)
(* Migration for TLC: requests and starts enough for two migrations with a *)
(* run in file mode before each.                                           *)
(***************************************************************************)
EXTENDS Migration, TLC

=============================================================================
