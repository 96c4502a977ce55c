---------------------------- MODULE MCRateLimiter ----------------------------
(***************************************************************************)
(* RateLimiter for TLC: more addresses than the table has room for, and    *)
(* buckets enough for the table and for every call in flight.              *)
(***************************************************************************)
EXTENDS RateLimiter, TLC

=============================================================================
