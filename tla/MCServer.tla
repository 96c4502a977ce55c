------------------------------ MODULE MCServer ------------------------------
(***************************************************************************)
(* Server for TLC: two handlers behind a trusted proxy.                    *)
(***************************************************************************)
EXTENDS Server, TLC

=============================================================================
