---------------------------- MODULE TokenBuckets ----------------------------
(***************************************************************************)
(* What the rate limiter is for ("maximum requests per second per IP ...   *)
(* maximum burst size per IP", internal/ratelimit/limiter.go:29-30): every *)
(* address has a token bucket of its own, forever, full at first; a        *)
(* request spends a token and time gives one back.  There is no table, no  *)
(* cleanup and no limit on the addresses.                                  *)
(***************************************************************************)
EXTENDS Naturals

CONSTANTS
  IPs,       \* client addresses
  Burst      \* the size of a bucket

VARIABLES
  level,     \* the tokens of each address
  charged    \* the tokens each address has spent since the last refill

bucketVars == <<level, charged>>

Init ==
  /\ level = [i \in IPs |-> Burst]
  /\ charged = [i \in IPs |-> 0]

Spend(i) ==
  /\ level[i] > 0
  /\ level' = [level EXCEPT ![i] = @ - 1]
  /\ charged' = [charged EXCEPT ![i] = @ + 1]

Refill ==
  /\ level' = [i \in IPs |-> IF level[i] < Burst THEN level[i] + 1 ELSE Burst]
  /\ charged' = [i \in IPs |-> 0]

Next == Refill \/ \E i \in IPs : Spend(i)

Spec == Init /\ [][Next]_bucketVars

=============================================================================
