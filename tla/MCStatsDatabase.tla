--------------------------- MODULE MCStatsDatabase ---------------------------
(***************************************************************************)
(* StatsDatabase for TLC: two visitors record at most MaxRequests requests *)
(* while a dashboard reads; the gridlock run needs no second visitor.      *)
(***************************************************************************)
EXTENDS StatsDatabase, TLC

=============================================================================
