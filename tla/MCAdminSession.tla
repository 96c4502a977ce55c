--------------------------- MODULE MCAdminSession ---------------------------
(***************************************************************************)
(* AdminSession for TLC: two tabs and two runs of the program, so that     *)
(* cookies, pages and answers of the first meet the second.                *)
(***************************************************************************)
EXTENDS AdminSession, TLC

Symmetric == Permutations(Tabs)

=============================================================================
