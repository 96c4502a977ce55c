----------------------------- MODULE MemoryPage -----------------------------
(***************************************************************************)
(* The admin pages in file mode: the branches of internal/stats/manager.go *)
(* without a database, called by HandleUI and HandleChartData              *)
(* (internal/admin/handler.go).  Requests are recorded under the write     *)
(* lock; a page takes the read lock three times, and under the first it    *)
(* copies two count maps, whose entries come in any order, sorts each copy *)
(* by exchanges and cuts it.                                               *)
(***************************************************************************)
EXTENDS MemoryStats

CONSTANTS
  Handlers,       \* goroutines that serve trapped requests
  Readers,        \* goroutines that serve the admin page and its chart data
  NoThread,       \* no goroutine
  TopItems,       \* entries of a chart (10 in the code)
  RecentLimit,    \* entries of the page's request list (50 in the code)
  MaxLoaded,      \* bound of the model: requests counted in stats.json at the start
  MaxRequests     \* bound of the model: requests that ever arrive

ASSUME PageAssumption ==
  /\ TopItems \in Nat /\ RecentLimit \in Nat \ {0}
  /\ MaxLoaded \in Nat /\ MaxRequests \in Nat
  /\ IsFiniteSet(IPs) /\ IsFiniteSet(UserAgents)
  /\ IsFiniteSet(Handlers) /\ Handlers # {}
  /\ NoThread \notin Handlers \cup Readers

VARIABLES
  writer, holds, parked,   \* Stats.Mu
  mem,     \* the Stats
  clock,   \* time.Now(), counting its readings in RecordRequest
  hpc,     \* the step each handler is about to take in RecordRequest
  hreq,    \* the request of each handler, with its timestamp
  serves,  \* the admin handler each reader runs
  rpc,     \* the step each reader is about to take
  list,    \* the copy of a map that each reader sorts
  row,     \* the outer loop variable of its sort
  col,     \* the inner one
  top,     \* the chart of the addresses, until the call returns
  page     \* what each reader has gathered for its response

lockVars   == <<writer, holds, parked>>
recordVars == <<mem, clock, hpc, hreq>>
sortVars   == <<list, row, col>>
readVars   == <<serves, rpc, sortVars, top, page>>
vars       == <<lockVars, recordVars, readVars>>

Mu == INSTANCE RWMutex

Atomic == INSTANCE MemoryReads WITH
  Times <- 1 .. MaxRequests, stats <- mem, view <- page

Requests == [ip : IPs, ua : UserAgents, ts : 1 .. MaxRequests]

NoRequest == [ip |-> NoThread, ua |-> NoThread, ts |-> 0]

-----------------------------------------------------------------------------
\* What stats.json may hold: the requests of earlier runs, with older times.
Loaded ==
  [total : 0 .. MaxLoaded, ips : [IPs -> 0 .. MaxLoaded],
   uas : [UserAgents -> 0 .. MaxLoaded],
   recent : {[k \in 1 .. n |-> 0] : n \in 0 .. Atomic!Least(MaxRecent, MaxLoaded)}]

Init ==
  /\ Mu!Init
  /\ mem \in {m \in Loaded : Consistent(m)}
  /\ clock = 0
  /\ hpc = [h \in Handlers |-> "idle"]
  /\ hreq = [h \in Handlers |-> NoRequest]
  /\ serves = [r \in Readers |-> "none"]
  /\ rpc = [r \in Readers |-> "idle"]
  /\ list = [r \in Readers |-> <<>>]
  /\ row = [r \in Readers |-> 1] /\ col = [r \in Readers |-> 2]
  /\ top = [r \in Readers |-> <<>>]
  /\ page = [r \in Readers |-> Atomic!NoView]

-----------------------------------------------------------------------------
(* Recording a request *)

\* The clock is read before the lock is asked for.
Arrive(h) ==
  /\ hpc[h] = "idle"
  /\ clock < MaxRequests
  /\ clock' = clock + 1
  /\ \E q \in Requests : q.ts = clock' /\ hreq' = [hreq EXCEPT ![h] = q]
  /\ hpc' = [hpc EXCEPT ![h] = "lock"]
  /\ UNCHANGED <<lockVars, mem, readVars>>

Lock(h) ==
  /\ hpc[h] = "lock"
  /\ Mu!Lock(h)
  /\ hpc' = [hpc EXCEPT ![h] = "record"]
  /\ UNCHANGED <<mem, clock, hreq, readVars>>

Record(h) ==
  /\ hpc[h] = "record"
  /\ Mu!Exclusive(h)
  /\ mem' = Recorded(mem, hreq[h])
  /\ Mu!Unlock
  /\ hpc' = [hpc EXCEPT ![h] = "idle"]
  /\ hreq' = [hreq EXCEPT ![h] = NoRequest]
  /\ UNCHANGED <<clock, readVars>>

-----------------------------------------------------------------------------
(* Reading: getChartDataFromMemory *)

Goto(r, step) == rpc' = [rpc EXCEPT ![r] = step]

\* Mutation: the totals are read before the charts.
HandleUIStatsFirst ==
  [idle |-> "stats", stats |-> "charts", charts |-> "recent", recent |-> "render"]

\* The calls of the two admin handlers: which one follows which.
HandleUI == [idle |-> "charts", charts |-> "stats", stats |-> "recent", recent |-> "render"]

HandleChartData == [idle |-> "charts", charts |-> "render"]

Then == [ui |-> HandleUI, data |-> HandleChartData]

After(r, call) == Then[serves[r]][call]

Open(r) ==
  /\ rpc[r] = "idle"
  /\ \E handler \in {"ui", "data"} :
       /\ serves' = [serves EXCEPT ![r] = handler]
       /\ Goto(r, Then[handler]["idle"])
  /\ UNCHANGED <<lockVars, recordVars, sortVars, top, page>>

Calls == {"charts", "stats", "recent"}

\* Each of the three calls begins with RLock.
RLock(r) ==
  /\ rpc[r] \in Calls /\ holds[r] = 0 /\ Mu!Shared(r)
  /\ Mu!RLock(r)
  /\ UNCHANGED <<recordVars, readVars>>

\* The caller has the lock: RLock has returned.
Reading(r, call) == rpc[r] = call /\ holds[r] > 0

\* The deferred RUnlock.
Leave(r, step) ==
  /\ Mu!RUnlockAll(r)
  /\ Goto(r, step)

\* A range over a map yields its entries in any order.
Orders(keys) == Bijection(1 .. Cardinality(keys), keys)

Copy(r, count, step) ==
  /\ \E s \in Orders(KeysOf(count)) : list' = [list EXCEPT ![r] = Atomic!Bars(count, s)]
  /\ row' = [row EXCEPT ![r] = 1] /\ col' = [col EXCEPT ![r] = 2]
  /\ Goto(r, step)
  /\ UNCHANGED <<lockVars, recordVars, serves, page>>

CopyIPs(r) ==
  /\ Reading(r, "charts")
  /\ Copy(r, mem.ips, "sortIPs")
  /\ UNCHANGED top

Sorting(r) == rpc[r] \in {"sortIPs", "sortUAs"}

Exchange(s, a, b) == [s EXCEPT ![a] = s[b], ![b] = s[a]]

\* Mutation: an exchange, of equal entries too, starts the row over.
CompareRestarts(r) ==
  LET s == list[r]  a == row[r]  b == col[r] IN
  /\ Sorting(r)
  /\ a <= Len(s) /\ b <= Len(s)
  /\ \/ /\ s[b].count >= s[a].count
        /\ list' = [list EXCEPT ![r] = Exchange(s, a, b)]
        /\ col' = [col EXCEPT ![r] = a + 1]
     \/ /\ s[b].count < s[a].count
        /\ col' = [col EXCEPT ![r] = b + 1]
        /\ UNCHANGED list
  /\ UNCHANGED <<lockVars, recordVars, serves, rpc, row, top, page>>

\* One turn of the inner loop.
Compare(r) ==
  LET s == list[r]  a == row[r]  b == col[r] IN
  /\ Sorting(r)
  /\ a <= Len(s) /\ b <= Len(s)
  /\ list' = [list EXCEPT ![r] = IF s[b].count > s[a].count THEN Exchange(s, a, b) ELSE s]
  /\ col' = [col EXCEPT ![r] = b + 1]
  /\ UNCHANGED <<lockVars, recordVars, serves, rpc, row, top, page>>

\* Mutation: the inner loop starts one entry too far right.
NextRowSkips(r) ==
  /\ Sorting(r)
  /\ row[r] <= Len(list[r]) /\ col[r] > Len(list[r])
  /\ row' = [row EXCEPT ![r] = @ + 1]
  /\ col' = [col EXCEPT ![r] = row[r] + 3]
  /\ UNCHANGED <<lockVars, recordVars, serves, rpc, list, top, page>>

\* The inner loop ends.
NextRow(r) ==
  /\ Sorting(r)
  /\ row[r] <= Len(list[r]) /\ col[r] > Len(list[r])
  /\ row' = [row EXCEPT ![r] = @ + 1]
  /\ col' = [col EXCEPT ![r] = row[r] + 2]
  /\ UNCHANGED <<lockVars, recordVars, serves, rpc, list, top, page>>

Cut(s) == SubSeq(s, 1, Atomic!Least(TopItems, Len(s)))

Sorted(r, step) == rpc[r] = step /\ row[r] > Len(list[r])

\* The addresses are cut, the user agents copied.
CopyUAs(r) ==
  /\ Sorted(r, "sortIPs")
  /\ top' = [top EXCEPT ![r] = Cut(list[r])]
  /\ Copy(r, mem.uas, "sortUAs")

\* HandleChartData has its answer, HandleUI goes on.
ReturnCharts(r) ==
  /\ Sorted(r, "sortUAs")
  /\ page' = [page EXCEPT ![r].ips = top[r], ![r].uas = Cut(list[r])]
  /\ top' = [top EXCEPT ![r] = <<>>]
  /\ list' = [list EXCEPT ![r] = <<>>]
  /\ row' = [row EXCEPT ![r] = 1] /\ col' = [col EXCEPT ![r] = 2]
  /\ Leave(r, After(r, "charts"))
  /\ UNCHANGED <<recordVars, serves>>

-----------------------------------------------------------------------------
(* Reading: GetStats and GetRecentRequests *)

GetStats(r) ==
  /\ Reading(r, "stats")
  /\ page' = [page EXCEPT ![r].total = mem.total,
                          ![r].uniqueIPs = Cardinality(KeysOf(mem.ips)),
                          ![r].uniqueUAs = Cardinality(KeysOf(mem.uas))]
  /\ Leave(r, After(r, "stats"))
  /\ UNCHANGED <<recordVars, serves, sortVars, top>>

\* The newest entries of the list, newest first.
Reversed(recent) ==
  [a \in 1 .. Atomic!Least(RecentLimit, Len(recent)) |-> recent[Len(recent) - (a - 1)]]

GetRecentRequests(r) ==
  /\ Reading(r, "recent")
  /\ page' = [page EXCEPT ![r].recent = Reversed(mem.recent)]
  /\ Leave(r, After(r, "recent"))
  /\ UNCHANGED <<recordVars, serves, sortVars, top>>

Render(r) ==
  /\ rpc[r] = "render"
  /\ page' = [page EXCEPT ![r] = Atomic!NoView]
  /\ serves' = [serves EXCEPT ![r] = "none"]
  /\ Goto(r, "idle")
  /\ UNCHANGED <<lockVars, recordVars, sortVars, top>>

-----------------------------------------------------------------------------
Write(h) == Arrive(h) \/ Lock(h) \/ Record(h)

Run(r) ==
  CopyIPs(r) \/ Compare(r) \/ NextRow(r) \/ CopyUAs(r) \/ ReturnCharts(r)
    \/ GetStats(r) \/ GetRecentRequests(r) \/ Render(r)

Next ==
  \/ \E h \in Handlers : Write(h)
  \/ \E r \in Readers : Open(r) \/ RLock(r) \/ Run(r)

Spec == Init /\ [][Next]_vars

\* The scheduler runs every goroutine that can run, and the mutex serves in the
\* end whoever waits for it.  Nothing makes a client call or an operator open
\* the page.
Fairness ==
  /\ \A h \in Handlers : SF_vars(Lock(h)) /\ WF_vars(Record(h))
  /\ \A r \in Readers : WF_vars(RLock(r)) /\ WF_vars(Run(r))

FairSpec == Spec /\ Fairness

-----------------------------------------------------------------------------
(* Properties *)

Entries(keys) == [label : keys, count : Nat]

Views ==
  [ips : Seq(Entries(IPs)), uas : Seq(Entries(UserAgents)),
   total : Nat, uniqueIPs : Nat, uniqueUAs : Nat, recent : Seq(Nat)]

\* Types; the list of recent requests stays within its limit, also when it was
\* loaded full.
TypeOK ==
  /\ writer \in Handlers \cup {NoThread}
  /\ holds \in [Readers -> Nat] /\ parked \in SUBSET Readers
  /\ mem \in Statistics /\ Len(mem.recent) <= MaxRecent
  /\ clock \in 0 .. MaxRequests
  /\ hpc \in [Handlers -> {"idle", "lock", "record"}]
  /\ hreq \in [Handlers -> {NoRequest} \cup Requests]
  /\ serves \in [Readers -> {"none", "ui", "data"}]
  /\ rpc \in [Readers -> {"idle", "sortIPs", "sortUAs", "render"} \cup Calls]
  /\ list \in [Readers -> Seq(Entries(IPs)) \cup Seq(Entries(UserAgents))]
  /\ row \in [Readers -> Nat] /\ col \in [Readers -> Nat]
  /\ top \in [Readers -> Seq(Entries(IPs))]
  /\ page \in [Readers -> Views]

\* Every call of a page answers as if it had been made at one instant, and the
\* charts are the top of the counts of that instant: the sorting works, and no
\* request is recorded between the copy of the first map and that of the second
\* (getChartDataFromMemory holds the read lock to its end).
ImplementsReads == Atomic!Spec

SumOf(bars) == SumFunction([a \in DOMAIN bars |-> bars[a].count])

\* The three calls of HandleUI see three states of the statistics, and requests
\* are recorded between them, yet a page never shows bars that add up to more
\* than its total, more bars than it has unique keys, or fewer recent requests
\* than its total calls for: each is read later than what bounds it from below.
PageAddsUp ==
  \A d \in {r \in Readers : serves[r] = "ui"} :
    /\ rpc[d] \in {"recent", "render"} =>
         /\ SumOf(page[d].ips) <= page[d].total /\ SumOf(page[d].uas) <= page[d].total
         /\ Len(page[d].ips) <= page[d].uniqueIPs
         /\ Len(page[d].uas) <= page[d].uniqueUAs
    /\ rpc[d] = "render" =>
         Len(page[d].recent) >=
           Atomic!Least(RecentLimit, Atomic!Least(MaxRecent, page[d].total))

\* "Returns a slice of RequestInfo ordered by timestamp (most recent first)"
\* (manager.go:254), which the page counts on (renderer.go:164).
MostRecentFirst ==
  \A d \in Readers :
    LET shown == page[d].recent IN
    \A a, b \in DOMAIN shown : a < b => shown[a] >= shown[b]

\* What the code keeps of that promise: the list is in the order in which the
\* lock was taken, and the clock is read before, so an entry may stand below
\* older ones, but below fewer of them than there are handlers, however long
\* the list is.
RecentNearlyOrdered ==
  \A d \in Readers :
    LET shown == page[d].recent IN
    \A b \in DOMAIN shown :
      Cardinality({a \in 1 .. b - 1 : shown[a] < shown[b]}) < Cardinality(Handlers)

\* A trapped request that reached RecordRequest is recorded and answered: in file
\* mode no reader holds the lock while it waits for it, and its sorting ends.  A
\* page that was asked for is rendered, however many requests arrive.
CallsReturn ==
  /\ \A h \in Handlers : hpc[h] # "idle" ~> hpc[h] = "idle"
  /\ \A r \in Readers : rpc[r] # "idle" ~> rpc[r] = "idle"

=============================================================================
