---------------------------- MODULE MemoryReads ----------------------------
(***************************************************************************)
(* What the admin pages are promised of the statistics in memory: each of  *)
(* GetChartData, GetStats and GetRecentRequests answers at once and from   *)
(* one state of the statistics, with no lock, no list and no sorting.      *)
(***************************************************************************)
EXTENDS MemoryStats

CONSTANTS
  Readers,       \* the goroutines that serve admin pages and chart data
  TopItems,      \* entries of a chart (10 in the code)
  RecentLimit,   \* entries of the request list of a page (50 in the code)
  Times          \* timestamps

VARIABLES
  stats,         \* the statistics
  view           \* what each reader has been answered

readVars == <<stats, view>>

Least(m, n) == IF m <= n THEN m ELSE n

\* The charts of a count: its TopItems largest entries, largest first; the
\* order of equal ones, and which of them makes the last place, is open.
TopLists(count) ==
  LET m == Least(TopItems, Cardinality(KeysOf(count))) IN
  {s \in [1 .. m -> KeysOf(count)] :
     /\ \A a, b \in 1 .. m : a < b => s[a] # s[b] /\ count[s[a]] >= count[s[b]]
     /\ \A k \in KeysOf(count) :
          (\A a \in 1 .. m : s[a] # k) => \A a \in 1 .. m : count[s[a]] >= count[k]}

Bars(count, s) == [a \in DOMAIN s |-> [label |-> s[a], count |-> count[s[a]]]]

\* The newest entries of the list, newest first.
Newest(recent) ==
  [a \in 1 .. Least(RecentLimit, Len(recent)) |-> recent[Len(recent) + 1 - a]]

NoView == [ips |-> <<>>, uas |-> <<>>, total |-> 0, uniqueIPs |-> 0, uniqueUAs |-> 0,
           recent |-> <<>>]

Init ==
  /\ stats \in Statistics
  /\ view = [r \in Readers |-> NoView]

Record(q) ==
  /\ stats' = Recorded(stats, q)
  /\ UNCHANGED view

ChartData(r) ==
  /\ \E s \in TopLists(stats.ips), u \in TopLists(stats.uas) :
       view' = [view EXCEPT ![r].ips = Bars(stats.ips, s), ![r].uas = Bars(stats.uas, u)]
  /\ UNCHANGED stats

GetStats(r) ==
  /\ view' = [view EXCEPT ![r].total = stats.total,
                          ![r].uniqueIPs = Cardinality(KeysOf(stats.ips)),
                          ![r].uniqueUAs = Cardinality(KeysOf(stats.uas))]
  /\ UNCHANGED stats

GetRecentRequests(r) ==
  /\ view' = [view EXCEPT ![r].recent = Newest(stats.recent)]
  /\ UNCHANGED stats

Clear(r) ==
  /\ view' = [view EXCEPT ![r] = NoView]
  /\ UNCHANGED stats

Next ==
  \/ \E i \in IPs, u \in UserAgents, ts \in Times : Record([ip |-> i, ua |-> u, ts |-> ts])
  \/ \E r \in Readers : ChartData(r) \/ GetStats(r) \/ GetRecentRequests(r) \/ Clear(r)

Spec == Init /\ [][Next]_readVars

=============================================================================
