---------------------------- MODULE MemoryStats ----------------------------
(***************************************************************************)
(* The statistics in memory (Stats, internal/stats/types.go) and what      *)
(* Manager.RecordRequest does to them in file mode                         *)
(* (internal/stats/manager.go:78-100).                                     *)
(***************************************************************************)
EXTENDS Integers, Sequences, FiniteSets, Functions

CONSTANTS
  IPs,            \* client addresses
  UserAgents,     \* user agents
  MaxIPs,         \* maxTrackedIPs
  MaxUserAgents,  \* maxTrackedUserAgents
  MaxRecent       \* MaxRecentRequests

ASSUME CapsAssumption ==
  MaxIPs \in Nat /\ MaxUserAgents \in Nat /\ MaxRecent \in Nat \ {0}

Statistics == [total : Nat, ips : [IPs -> Nat], uas : [UserAgents -> Nat],
               recent : Seq(Nat)]

NoStats == [total |-> 0, ips |-> [i \in IPs |-> 0], uas |-> [u \in UserAgents |-> 0],
            recent |-> <<>>]

\* The keys of a count map: those that have been counted.
KeysOf(count) == {k \in DOMAIN count : count[k] > 0}

\* A known key is counted, a new one only while there is room.
Counted(count, k, max) ==
  IF count[k] > 0 \/ Cardinality(KeysOf(count)) < max
  THEN [count EXCEPT ![k] = @ + 1] ELSE count

\* Mutation: the first entry stays.
AppendedOnly(recent, ts) == Append(recent, ts)

\* The last entry of RecentRequests pushes the first one out.
Appended(recent, ts) ==
  LET longer == Append(recent, ts)
  IN  IF Len(longer) > MaxRecent THEN Tail(longer) ELSE longer

Recorded(m, q) ==
  [total  |-> m.total + 1,
   ips    |-> Counted(m.ips, q.ip, MaxIPs),
   uas    |-> Counted(m.uas, q.ua, MaxUserAgents),
   recent |-> Appended(m.recent, q.ts)]

\* A count map counts every request while it has room, and never more requests
\* than there were.
MapAgrees(count, max, total) ==
  /\ Cardinality(KeysOf(count)) <= max
  /\ SumFunction(count) <= total
  /\ Cardinality(KeysOf(count)) < max => SumFunction(count) = total

\* Total, maps and list are of the same requests.
Consistent(m) ==
  /\ MapAgrees(m.ips, MaxIPs, m.total)
  /\ MapAgrees(m.uas, MaxUserAgents, m.total)
  /\ Len(m.recent) = IF m.total < MaxRecent THEN m.total ELSE MaxRecent

=============================================================================
