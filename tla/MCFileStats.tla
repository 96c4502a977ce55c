----------------------------- MODULE MCFileStats -----------------------------
(***************************************************************************)
(* FileStats for TLC: more addresses than the map has room for.            *)
(***************************************************************************)
EXTENDS FileStats, TLC

=============================================================================
