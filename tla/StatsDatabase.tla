---------------------------- MODULE StatsDatabase ----------------------------
(***************************************************************************)
(* The SQLite statistics of the spider trap (internal/stats/database.go,   *)
(* with the database branches of internal/stats/manager.go) and the admin  *)
(* handlers that read them (internal/admin/handler.go).                    *)
(*                                                                         *)
(* A visitor is the goroutine of a trapped request, in RecordRequest.  A   *)
(* dashboard is the goroutine of HandleUI, which fills a page from the     *)
(* chart data, the statistics and the recent requests, one call after the  *)
(* other; a chart is that of HandleChartData.  They meet at the            *)
(* Database's RWMutex and at the only connection of its pool.              *)
(***************************************************************************)
EXTENDS Integers, FiniteSets, FiniteSetsExt, Functions

CONSTANTS
  Visitors,       \* goroutines that serve trapped requests
  Dashboards,     \* goroutines that serve the admin page
  Charts,         \* goroutines that serve the chart data
  NoThread,       \* no goroutine
  IPs,            \* client addresses
  UserAgents,     \* user agents
  TopItems,       \* entries of a chart (10 in the code)
  RecentLimit,    \* entries of the page's request list (50 in the code)
  MaxRequests     \* bound of the model: requests that ever arrive

Readers == Dashboards \cup Charts

ASSUME ThreadsAssumption ==
  /\ Visitors \cap Readers = {}
  /\ NoThread \notin Visitors \cup Readers

ASSUME DataAssumption ==
  /\ IsFiniteSet(IPs) /\ IsFiniteSet(UserAgents)
  /\ TopItems \in Nat /\ RecentLimit \in Nat /\ MaxRequests \in Nat

VARIABLES
  writer, holds, parked,   \* the Database's RWMutex
  conn,      \* who has the pool's only connection, or NoThread
  db,        \* the committed rows
  tx,        \* the rows as the open transaction sees them; db when none is open
  clock,     \* time.Now(), counting the requests that have arrived
  wpc,       \* the statement of RecordRequest each visitor is about to run
  req,       \* the RequestInfo of each visitor
  gone,      \* the visitors whose context is cancelled
  rq,        \* the query each reader is in, or "render" or "idle"
  rst,       \* how far the query is: "lock", "run" or "rows"
  page       \* what each reader has gathered for its response

lockVars   == <<writer, holds, parked>>
rowVars    == <<db, tx>>
recordVars == <<clock, wpc, req, gone>>
readVars   == <<rq, rst, page>>
vars       == <<lockVars, conn, rowVars, recordVars, readVars>>

Mu == INSTANCE RWMutex

-----------------------------------------------------------------------------
(* The rows *)

Requests == [ip : IPs, ua : UserAgents, ts : 1 .. MaxRequests]

Rows == [log : SUBSET Requests, ips : [IPs -> Nat], uas : [UserAgents -> Nat],
         total : Nat]

NoRows == [log |-> {}, ips |-> [i \in IPs |-> 0], uas |-> [u \in UserAgents |-> 0],
           total |-> 0]

Statements == {"log", "ip", "ua", "total"}

\* What the statement s of the transaction for request q does to the rows.
Apply(s, rows, q) ==
  CASE s = "log"   -> [rows EXCEPT !.log = @ \cup {q}]
    [] s = "ip"    -> [rows EXCEPT !.ips[q.ip] = @ + 1]
    [] s = "ua"    -> [rows EXCEPT !.uas[q.ua] = @ + 1]
    [] s = "total" -> [rows EXCEPT !.total = @ + 1]

NextStage ==
  [log |-> "ip", ip |-> "ua", ua |-> "total", total |-> "commit"]

\* A count has a row of its own once it is positive.
RowsOf(count) == {k \in DOMAIN count : count[k] > 0}

Least(m, n) == IF m <= n THEN m ELSE n

\* The charts of a count, 0 standing for no bar: its TopItems largest rows;
\* which of two equal rows makes it is the database's choice.
ChartsOf(count) ==
  {[k \in DOMAIN count |-> IF k \in S THEN count[k] ELSE 0] : S \in
    {T \in kSubset(Least(TopItems, Cardinality(RowsOf(count))), RowsOf(count)) :
       \A k \in T, l \in RowsOf(count) \ T : count[k] >= count[l]}}

NoPage == [ips |-> NoRows.ips, uas |-> NoRows.uas, total |-> 0, uniqueIPs |-> 0,
           uniqueUAs |-> 0, recent |-> 0]

NoRequest == [ip |-> NoThread, ua |-> NoThread, ts |-> 0]

-----------------------------------------------------------------------------
Init ==
  /\ Mu!Init
  /\ conn = NoThread
  /\ db = NoRows /\ tx = NoRows
  /\ clock = 0
  /\ wpc = [v \in Visitors |-> "idle"]
  /\ req = [v \in Visitors |-> NoRequest]
  /\ gone = {}
  /\ rq = [r \in Readers |-> "idle"]
  /\ rst = [r \in Readers |-> "lock"]
  /\ page = [r \in Readers |-> NoPage]

-----------------------------------------------------------------------------
(* Recording a request *)

\* Manager.RecordRequest reads the clock before it asks for the lock.
Arrive(v) ==
  /\ wpc[v] = "idle"
  /\ clock < MaxRequests
  /\ clock' = clock + 1
  /\ \E i \in IPs, u \in UserAgents :
       req' = [req EXCEPT ![v] = [ip |-> i, ua |-> u, ts |-> clock']]
  /\ wpc' = [wpc EXCEPT ![v] = "lock"]
  /\ UNCHANGED <<lockVars, conn, rowVars, gone, readVars>>

Lock(v) ==
  /\ wpc[v] = "lock"
  /\ Mu!Lock(v)
  /\ wpc' = [wpc EXCEPT ![v] = "begin"]
  /\ UNCHANGED <<conn, rowVars, clock, req, gone, readVars>>

\* BeginTx waits for the connection.
Begin(v) ==
  /\ wpc[v] = "begin"
  /\ Mu!Exclusive(v)
  /\ v \notin gone
  /\ conn = NoThread
  /\ conn' = v
  /\ tx' = db
  /\ wpc' = [wpc EXCEPT ![v] = "log"]
  /\ UNCHANGED <<lockVars, db, clock, req, gone, readVars>>

\* Mutation: the statements run outside the transaction.
ExecAutocommits(v) ==
  /\ wpc[v] \in Statements
  /\ v \notin gone
  /\ db' = Apply(wpc[v], db, req[v]) /\ tx' = db'
  /\ wpc' = [wpc EXCEPT ![v] = NextStage[wpc[v]]]
  /\ UNCHANGED <<lockVars, conn, clock, req, gone, readVars>>

Exec(v) ==
  /\ wpc[v] \in Statements
  /\ v \notin gone
  /\ tx' = Apply(wpc[v], tx, req[v])
  /\ wpc' = [wpc EXCEPT ![v] = NextStage[wpc[v]]]
  /\ UNCHANGED <<lockVars, conn, db, clock, req, gone, readVars>>

\* RecordRequest returns: the connection goes back to the pool, the deferred
\* Unlock runs, and the goroutine is done with its request.
Return(v) ==
  /\ conn' = NoThread
  /\ Mu!Unlock
  /\ wpc' = [wpc EXCEPT ![v] = "idle"]
  /\ req' = [req EXCEPT ![v] = NoRequest]
  /\ gone' = gone \ {v}

Commit(v) ==
  /\ wpc[v] = "commit"
  /\ v \notin gone
  /\ db' = tx
  /\ Return(v)
  /\ UNCHANGED <<tx, clock, readVars>>

\* Mutation: an error path commits what the transaction has done so far.
AbortCommits(v) ==
  /\ \/ wpc[v] = "begin" /\ Mu!Exclusive(v)
     \/ wpc[v] \in Statements \cup {"commit"}
  /\ db' = tx
  /\ Return(v)
  /\ UNCHANGED <<tx, clock, readVars>>

\* Mutation: no deferred Rollback, so the transaction keeps the connection.
AbortLeaksConnection(v) ==
  /\ \/ wpc[v] = "begin" /\ Mu!Exclusive(v)
     \/ wpc[v] \in Statements \cup {"commit"}
  /\ Mu!Unlock
  /\ wpc' = [wpc EXCEPT ![v] = "idle"]
  /\ req' = [req EXCEPT ![v] = NoRequest]
  /\ gone' = gone \ {v}
  /\ UNCHANGED <<conn, rowVars, clock, readVars>>

\* BeginTx, a statement or Commit fails, always once the context is cancelled;
\* the deferred Rollback runs before the Unlock.
Abort(v) ==
  /\ \/ wpc[v] = "begin" /\ Mu!Exclusive(v)
     \/ wpc[v] \in Statements \cup {"commit"}
  /\ tx' = db
  /\ Return(v)
  /\ UNCHANGED <<db, clock, readVars>>

\* The client hangs up, or the server gives the request up.
Disconnect(v) ==
  /\ wpc[v] # "idle" /\ v \notin gone
  /\ gone' = gone \cup {v}
  /\ UNCHANGED <<lockVars, conn, rowVars, clock, wpc, req, readVars>>

-----------------------------------------------------------------------------
(* Reading a page *)

StatsQueries == {"total", "ips", "uas", "statsLog"}
Queries == {"topIPs", "topUAs", "recent"} \cup StatsQueries

\* GetTopIPs, GetTopUserAgents, GetStats and the two GetRecentRequests, one of
\* them called by GetStats, each take the read lock before their first query
\* and release it when they return.
FirstOfCall == {"topIPs", "topUAs", "total", "statsLog", "recent"}
LastOfCall  == {"topIPs", "topUAs", "statsLog", "recent"}

AfterCharts(r) == IF r \in Dashboards THEN "total" ELSE "render"

AfterQuery(r) ==
  CASE rq[r] = "topIPs"   -> "topUAs"
    [] rq[r] = "topUAs"   -> AfterCharts(r)
    [] rq[r] = "total"    -> "ips"
    [] rq[r] = "ips"      -> "uas"
    [] rq[r] = "uas"      -> "statsLog"
    [] rq[r] = "statsLog" -> "recent"
    [] rq[r] = "recent"   -> "render"

\* An error ends the Manager's call, not the page.
AfterError(r) ==
  CASE rq[r] \in {"topIPs", "topUAs"} -> AfterCharts(r)
    [] rq[r] \in StatsQueries         -> "recent"
    [] rq[r] = "recent"               -> "render"

\* The pages that reader r may have once its query has run.
PagesRead(r) ==
  CASE rq[r] = "topIPs"   -> {[page[r] EXCEPT !.ips = c] : c \in ChartsOf(db.ips)}
    [] rq[r] = "topUAs"   -> {[page[r] EXCEPT !.uas = c] : c \in ChartsOf(db.uas)}
    [] rq[r] = "total"    -> {[page[r] EXCEPT !.total = db.total]}
    [] rq[r] = "ips"      -> {[page[r] EXCEPT !.uniqueIPs = Cardinality(RowsOf(db.ips))]}
    [] rq[r] = "uas"      -> {[page[r] EXCEPT !.uniqueUAs = Cardinality(RowsOf(db.uas))]}
    [] rq[r] = "statsLog" -> {page[r]}
    [] rq[r] = "recent"   ->
         {[page[r] EXCEPT !.recent = Least(RecentLimit, Cardinality(db.log))]}

\* Mutation: on an error GetStats returns what it has read so far.
PageKeepsPartialStats(r) ==
  CASE rq[r] \in {"topIPs", "topUAs"} -> [page[r] EXCEPT !.ips = NoPage.ips, !.uas = NoPage.uas]
    [] rq[r] \in StatsQueries -> page[r]
    [] rq[r] = "recent"       -> [page[r] EXCEPT !.recent = 0]

\* The Manager returns what it can without the call that failed.
PageAfterError(r) ==
  CASE rq[r] \in {"topIPs", "topUAs"} -> [page[r] EXCEPT !.ips = NoPage.ips, !.uas = NoPage.uas]
    [] rq[r] \in StatsQueries ->
         [page[r] EXCEPT !.total = 0, !.uniqueIPs = 0, !.uniqueUAs = 0]
    [] rq[r] = "recent"       -> [page[r] EXCEPT !.recent = 0]

GoTo(r, q) ==
  /\ rq' = [rq EXCEPT ![r] = q]
  /\ rst' = [rst EXCEPT ![r] =
       IF q \in Queries \ FirstOfCall THEN "run" ELSE "lock"]

Open(r) ==
  /\ rq[r] = "idle"
  /\ GoTo(r, "topIPs")
  /\ UNCHANGED <<lockVars, conn, rowVars, recordVars, page>>

RLock(r) ==
  /\ rq[r] \in Queries /\ rst[r] = "lock"
  /\ Mu!RLock(r)
  /\ rst' = [rst EXCEPT ![r] = "run"]
  /\ UNCHANGED <<conn, rowVars, recordVars, rq, page>>

\* The connection is the reader's from the query to the last of its rows.
Query(r) ==
  /\ rst[r] = "run"
  /\ Mu!Shared(r)
  /\ conn = NoThread
  /\ conn' = r
  /\ \E p \in PagesRead(r) : page' = [page EXCEPT ![r] = p]
  /\ rst' = [rst EXCEPT ![r] = "rows"]
  /\ UNCHANGED <<lockVars, rowVars, recordVars, rq>>

\* Mutation: the read lock is released after every query.
LastRowUnlocks(r) ==
  /\ rst[r] = "rows"
  /\ conn' = NoThread
  /\ Mu!RUnlockAll(r)
  /\ GoTo(r, AfterQuery(r))
  /\ UNCHANGED <<rowVars, recordVars, page>>

\* Mutation: a successful call forgets its RUnlock.
LastRowKeepsLock(r) ==
  /\ rst[r] = "rows"
  /\ conn' = NoThread
  /\ GoTo(r, AfterQuery(r))
  /\ UNCHANGED <<lockVars, rowVars, recordVars, page>>

LastRow(r) ==
  /\ rst[r] = "rows"
  /\ conn' = NoThread
  /\ IF rq[r] \in LastOfCall THEN Mu!RUnlockAll(r) ELSE UNCHANGED lockVars
  /\ GoTo(r, AfterQuery(r))
  /\ UNCHANGED <<rowVars, recordVars, page>>

\* Mutation: no deferred rows.Close, so the rows keep the connection.
FailLeaksRows(r) ==
  /\ rst[r] \in {"run", "rows"}
  /\ Mu!Shared(r)
  /\ Mu!RUnlockAll(r)
  /\ page' = [page EXCEPT ![r] = PageAfterError(r)]
  /\ GoTo(r, AfterError(r))
  /\ UNCHANGED <<conn, rowVars, recordVars>>

\* The query or a row fails, or the context is cancelled, also while the
\* reader waits for the connection.
Fail(r) ==
  /\ rst[r] \in {"run", "rows"}
  /\ Mu!Shared(r)
  /\ conn' = IF conn = r THEN NoThread ELSE conn
  /\ Mu!RUnlockAll(r)
  /\ page' = [page EXCEPT ![r] = PageAfterError(r)]
  /\ GoTo(r, AfterError(r))
  /\ UNCHANGED <<rowVars, recordVars>>

Render(r) ==
  /\ rq[r] = "render"
  /\ GoTo(r, "idle")
  /\ page' = [page EXCEPT ![r] = NoPage]
  /\ UNCHANGED <<lockVars, conn, rowVars, recordVars>>

-----------------------------------------------------------------------------
\* The process ends and starts again on the same file: SQLite rolls the open
\* transaction back, every goroutine is gone.
Crash ==
  /\ writer' = NoThread
  /\ holds' = [r \in Readers |-> 0]
  /\ parked' = {}
  /\ conn' = NoThread
  /\ tx' = db
  /\ wpc' = [v \in Visitors |-> "idle"]
  /\ req' = [v \in Visitors |-> NoRequest]
  /\ gone' = {}
  /\ rq' = [r \in Readers |-> "idle"]
  /\ rst' = [r \in Readers |-> "lock"]
  /\ page' = [r \in Readers |-> NoPage]
  /\ UNCHANGED <<db, clock>>

Record(v) ==
  Arrive(v) \/ Lock(v) \/ Begin(v) \/ Exec(v) \/ Commit(v) \/ Abort(v) \/ Disconnect(v)

Read(r) ==
  Open(r) \/ RLock(r) \/ Query(r) \/ LastRow(r) \/ Fail(r) \/ Render(r)

Next ==
  \/ \E v \in Visitors : Record(v)
  \/ \E r \in Readers : Read(r)
  \/ Crash

Spec == Init /\ [][Next]_vars

\* The scheduler runs every goroutine that can run; sync.Mutex and the queue
\* of the connection pool serve in the end whoever waits.  Nothing makes a
\* client call, hang up or reload, or the process crash.
Fairness ==
  /\ \A v \in Visitors :
       /\ SF_vars(Lock(v))
       /\ WF_vars(Begin(v) \/ Exec(v) \/ Commit(v) \/ Abort(v))
  /\ \A r \in Readers :
       /\ SF_vars(Query(r))
       /\ WF_vars(RLock(r) \/ LastRow(r) \/ Render(r))

FairSpec == Spec /\ Fairness

-----------------------------------------------------------------------------
(* Properties *)

Pages == [ips : [IPs -> Nat], uas : [UserAgents -> Nat], total : Nat,
          uniqueIPs : Nat, uniqueUAs : Nat, recent : Nat]

\* Types of the variables.
TypeOK ==
  /\ writer \in Visitors \cup {NoThread}
  /\ holds \in [Readers -> 0 .. 2]
  /\ parked \subseteq Readers
  /\ conn \in Visitors \cup Readers \cup {NoThread}
  /\ db \in Rows /\ tx \in Rows
  /\ clock \in 0 .. MaxRequests
  /\ wpc \in [Visitors -> {"idle", "lock", "begin", "commit"} \cup Statements]
  /\ req \in [Visitors -> Requests \cup {NoRequest}]
  /\ gone \subseteq Visitors
  /\ rq \in [Readers -> Queries \cup {"idle", "render"}]
  /\ rst \in [Readers -> {"lock", "run", "rows"}]
  /\ page \in [Readers -> Pages]

\* The committed log and the three kinds of count agree at every moment, also
\* after a failed statement, a cancelled context or a crash in mid-transaction
\* (the transaction of RecordRequest).
LedgerBalanced ==
  /\ db.total = Cardinality(db.log)
  /\ \A i \in IPs : db.ips[i] = Cardinality({q \in db.log : q.ip = i})
  /\ \A u \in UserAgents : db.uas[u] = Cardinality({q \in db.log : q.ua = u})

\* From the query of the total to its return GetStats reads one state of the
\* database: what the page has of it is what a query would still answer.
StatsAreSnapshot ==
  \A r \in Dashboards :
    /\ \/ rq[r] = "total" /\ rst[r] = "rows"
       \/ rq[r] \in {"ips", "uas", "statsLog"}
       => page[r].total = db.total
    /\ \/ rq[r] = "ips" /\ rst[r] = "rows"
       \/ rq[r] \in {"uas", "statsLog"}
       => page[r].uniqueIPs = Cardinality(RowsOf(db.ips))

\* HandleUI reads charts, totals and recent requests under three locks, so a
\* page mixes three states of the database; because it reads them in this
\* order the page is still plausible: unless GetStats failed, no chart counts
\* more requests or has more bars than the totals beside it admit, and unless
\* its query failed the request list is as long as the total calls for.
PagePlausible ==
  \A r \in Dashboards :
    LET p == page[r] IN
    rq[r] = "render" /\ p.total > 0 =>
      /\ SumFunction(p.ips) <= p.total
      /\ SumFunction(p.uas) <= p.total
      /\ Cardinality(RowsOf(p.ips)) <= p.uniqueIPs
      /\ Cardinality(RowsOf(p.uas)) <= p.uniqueUAs
      /\ p.uniqueIPs \in 1 .. p.total /\ p.uniqueUAs \in 1 .. p.total
      /\ p.recent # 0 => p.recent >= Least(RecentLimit, p.total)

\* The Database implements the atomic ledger: what RecordRequest does in four
\* statements and a commit, among other requests, readers, errors and crashes,
\* looks like one step or like nothing.
Calls == {req[v] : v \in {x \in Visitors : wpc[x] # "idle"}}
Counts == [ips |-> db.ips, uas |-> db.uas, total |-> db.total]

Ledger == INSTANCE RequestLedger WITH
  Times <- 1 .. MaxRequests, calls <- Calls, log <- db.log, tally <- Counts

ImplementsLedger == Ledger!Spec

\* GetStats waits in GetRecentRequests for a writer that waits for GetStats
\* (see CancelledRecordReturns): only a restart ends that.
Gridlocked == \E r \in parked : holds[r] > 0

\* A goroutine at work waits if its next step needs others to move first.
VisitorWaits(v) ==
  \/ wpc[v] = "lock" /\ writer # NoThread
  \/ wpc[v] = "begin" /\ (conn # NoThread \/ \E r \in Readers : holds[r] > 0)

ReaderWaits(r) ==
  \/ r \in parked
  \/ rst[r] = "run" /\ conn # NoThread

\* That gridlock is the only deadlock of lock and connection: otherwise, as
\* long as anybody is at work, somebody at work waits for nobody, on whatever
\* path the calls before it returned.
NoOtherDeadlock ==
  \/ Gridlocked
  \/ (\A v \in Visitors : wpc[v] = "idle") /\ (\A r \in Readers : rq[r] = "idle")
  \/ \E v \in Visitors : wpc[v] # "idle" /\ ~VisitorWaits(v)
  \/ \E r \in Readers : rq[r] # "idle" /\ ~ReaderWaits(r)

\* Nothing else keeps a call of RecordRequest from returning or a page that was
\* opened from being rendered: no error path keeps the lock or the connection.
CallsReturn ==
  /\ \A v \in Visitors : wpc[v] # "idle" ~> (wpc[v] = "idle" \/ Gridlocked)
  /\ \A r \in Readers : rq[r] # "idle" ~> (rq[r] = "idle" \/ Gridlocked)

\* database.go:136-139 of RecordRequest: "ctx: context for cancellation and
\* timeout control ... Returns an error if the database operation fails or
\* context is cancelled".
CancelledRecordReturns == \A v \in Visitors : v \in gone ~> wpc[v] = "idle"

=============================================================================
