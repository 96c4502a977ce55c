------------------------- MODULE StatsDatabaseProofs -------------------------
(***************************************************************************)
(* Theorems about StatsDatabase, for every number of visitors and readers  *)
(* and every set of addresses and agents.  The proof first establishes the *)
(* types and the discipline of the locks and of the connection, then what  *)
(* the transaction holds, and from these the properties.                   *)
(***************************************************************************)
EXTENDS StatsDatabase, CountSums, FiniteSetTheorems, TLAPS

-----------------------------------------------------------------------------
(* The inductive invariant *)

InTx == Statements \cup {"commit"}

\* What a reader holds follows from where it is: one lock of GetStats at the
\* nested query, one of its current call once its RLock has returned.
ReadersOK ==
  \A r \in Readers :
    /\ holds[r] = (IF rq[r] = "statsLog" THEN 1 ELSE 0)
                  + (IF rst[r] # "lock" /\ r \notin parked THEN 1 ELSE 0)
    /\ rst[r] # "lock" => rq[r] \in Queries
    /\ rq[r] \in {"ips", "uas"} => rst[r] # "lock"
    /\ r \in parked => rst[r] = "run" /\ rq[r] \in FirstOfCall
    /\ rst[r] = "rows" <=> conn = r

\* A visitor past its arrival has a request.  The announced writer is the
\* visitor past its Lock; inside its transaction it has the connection and
\* nobody holds a read lock.
VisitorsOK ==
  /\ writer = NoThread => parked = {}
  /\ \A v \in Visitors :
       /\ wpc[v] # "idle" => req[v] \in Requests
       /\ writer = v <=> wpc[v] \in {"begin"} \cup InTx
       /\ conn = v <=> wpc[v] \in InTx
       /\ wpc[v] \in InTx => \A r \in Readers : holds[r] = 0

FiniteLogs == IsFiniteSet(db.log) /\ IsFiniteSet(tx.log)

LocksInv == TypeOK /\ ReadersOK /\ VisitorsOK /\ FiniteLogs

-----------------------------------------------------------------------------
(* Lemmas about the operators *)

LEMMA RowsCounted ==
  ASSUME NEW S, IsFiniteSet(S), NEW count \in [S -> Nat]
  PROVE  Cardinality(RowsOf(count)) \in Nat
<1>1. RowsOf(count) \subseteq S
  BY DEF RowsOf
<1>2. IsFiniteSet(RowsOf(count))
  BY <1>1, FS_Subset
<1> QED
  BY <1>2, FS_CardinalityType

LEMMA ChartTyped ==
  ASSUME NEW S, NEW count \in [S -> Nat], NEW c \in ChartsOf(count)
  PROVE  c \in [S -> Nat]
<1>1. PICK T : c = [k \in DOMAIN count |-> IF k \in T THEN count[k] ELSE 0]
  BY DEF ChartsOf
<1> QED
  BY <1>1

LEMMA NoRowsTyped == NoRows \in Rows
  BY DEF NoRows, Rows

LEMMA NoPageTyped == NoPage \in Pages
  BY DEF NoPage, Pages, NoRows

\* A statement keeps the rows typed and their log finite.
LEMMA ApplyTyped ==
  ASSUME NEW s \in Statements, NEW rows \in Rows, NEW q \in Requests,
         IsFiniteSet(rows.log)
  PROVE  /\ Apply(s, rows, q) \in Rows
         /\ IsFiniteSet(Apply(s, rows, q).log)
<1>1. CASE s = "log"
  <2>1. Apply(s, rows, q) = [rows EXCEPT !.log = @ \cup {q}]
    BY <1>1 DEF Apply
  <2>2. IsFiniteSet(rows.log \cup {q})
    BY FS_AddElement
  <2> QED
    BY <2>1, <2>2 DEF Rows
<1>2. CASE s = "ip"
  BY <1>2 DEF Apply, Rows, Requests
<1>3. CASE s = "ua"
  BY <1>3 DEF Apply, Rows, Requests
<1>4. CASE s = "total"
  BY <1>4 DEF Apply, Rows, Requests
<1> QED
  BY <1>1, <1>2, <1>3, <1>4 DEF Statements

\* Whatever a query returns, the page stays typed.
LEMMA PageTyped ==
  ASSUME TypeOK, FiniteLogs, NEW r \in Readers, rq[r] \in Queries,
         NEW p \in PagesRead(r)
  PROVE  p \in Pages
<1> DEFINE old == page[r]
<1>0. old \in Pages /\ db \in Rows
  BY DEF TypeOK
<1>1. CASE rq[r] = "topIPs"
  <2>1. PICK c \in ChartsOf(db.ips) : p = [old EXCEPT !.ips = c]
    BY <1>1 DEF PagesRead
  <2>2. c \in [IPs -> Nat]
    BY <1>0, ChartTyped DEF Rows
  <2> QED
    BY <1>0, <2>1, <2>2 DEF Pages
<1>2. CASE rq[r] = "topUAs"
  <2>1. PICK c \in ChartsOf(db.uas) : p = [old EXCEPT !.uas = c]
    BY <1>2 DEF PagesRead
  <2>2. c \in [UserAgents -> Nat]
    BY <1>0, ChartTyped DEF Rows
  <2> QED
    BY <1>0, <2>1, <2>2 DEF Pages
<1>3. CASE rq[r] = "total"
  BY <1>0, <1>3 DEF PagesRead, Pages, Rows
<1>4. CASE rq[r] = "ips"
  <2>1. Cardinality(RowsOf(db.ips)) \in Nat
    BY <1>0, RowsCounted, DataAssumption DEF Rows
  <2> QED
    BY <1>0, <1>4, <2>1 DEF PagesRead, Pages
<1>5. CASE rq[r] = "uas"
  <2>1. Cardinality(RowsOf(db.uas)) \in Nat
    BY <1>0, RowsCounted, DataAssumption DEF Rows
  <2> QED
    BY <1>0, <1>5, <2>1 DEF PagesRead, Pages
<1>6. CASE rq[r] = "statsLog"
  BY <1>0, <1>6 DEF PagesRead
<1>7. CASE rq[r] = "recent"
  <2>1. Least(RecentLimit, Cardinality(db.log)) \in Nat
    BY FS_CardinalityType, DataAssumption DEF Least, FiniteLogs
  <2> QED
    BY <1>0, <1>7, <2>1 DEF PagesRead, Pages
<1> QED
  BY <1>1, <1>2, <1>3, <1>4, <1>5, <1>6, <1>7 DEF Queries, StatsQueries

LEMMA PageAfterErrorTyped ==
  ASSUME TypeOK, NEW r \in Readers, rq[r] \in Queries
  PROVE  PageAfterError(r) \in Pages
  BY NoPageTyped DEF TypeOK, PageAfterError, Pages, Queries, StatsQueries

-----------------------------------------------------------------------------
(* Types, locks and connection *)

LEMMA LocksInit == Init => LocksInv
<1> SUFFICES ASSUME Init PROVE LocksInv
  OBVIOUS
<1>1. NoRows \in Rows /\ NoPage \in Pages
  BY NoRowsTyped, NoPageTyped
<1>2. TypeOK
  BY <1>1, DataAssumption DEF Init, TypeOK, Mu!Init, Requests
<1>3. ReadersOK
  BY ThreadsAssumption DEF Init, ReadersOK, Mu!Init, Queries, StatsQueries
<1>4. VisitorsOK
  BY ThreadsAssumption DEF Init, VisitorsOK, Mu!Init, InTx, Statements
<1>5. FiniteLogs
  BY FS_EmptySet DEF Init, FiniteLogs, NoRows
<1> QED
  BY <1>2, <1>3, <1>4, <1>5 DEF LocksInv

LEMMA ArriveLocks == ASSUME LocksInv, NEW v \in Visitors, Arrive(v) PROVE LocksInv'
<1> USE DEF LocksInv, Arrive, lockVars, rowVars, readVars
<1>1. TypeOK'
  BY DataAssumption DEF TypeOK, Requests
<1>2. ReadersOK'
  BY DEF ReadersOK
<1>3. VisitorsOK'
  BY DataAssumption DEF VisitorsOK, Requests, TypeOK, InTx, Statements
<1>4. FiniteLogs'
  BY DEF FiniteLogs
<1> QED
  BY <1>1, <1>2, <1>3, <1>4

LEMMA LockLocks == ASSUME LocksInv, NEW v \in Visitors, Lock(v) PROVE LocksInv'
<1> USE DEF LocksInv, Lock, Mu!Lock, rowVars, readVars
<1>1. TypeOK'
  BY DEF TypeOK
<1>2. ReadersOK'
  BY DEF ReadersOK
<1>3. VisitorsOK'
  BY ThreadsAssumption DEF VisitorsOK, TypeOK, InTx, Statements
<1>4. FiniteLogs'
  BY DEF FiniteLogs
<1> QED
  BY <1>1, <1>2, <1>3, <1>4

LEMMA BeginLocks == ASSUME LocksInv, NEW v \in Visitors, Begin(v) PROVE LocksInv'
<1> USE DEF LocksInv, Begin, Mu!Exclusive, lockVars, readVars
<1>1. TypeOK'
  BY DEF TypeOK, Statements
<1>2. ReadersOK'
  BY ThreadsAssumption DEF ReadersOK
<1>3. VisitorsOK'
  BY ThreadsAssumption DEF VisitorsOK, TypeOK, InTx, Statements
<1>4. FiniteLogs'
  BY DEF FiniteLogs
<1> QED
  BY <1>1, <1>2, <1>3, <1>4

LEMMA ExecLocks == ASSUME LocksInv, NEW v \in Visitors, Exec(v) PROVE LocksInv'
<1> USE DEF LocksInv, Exec, lockVars, readVars
<1>0. /\ Apply(wpc[v], tx, req[v]) \in Rows
      /\ IsFiniteSet(Apply(wpc[v], tx, req[v]).log)
  <2>1. req[v] \in Requests /\ tx \in Rows
    BY DEF VisitorsOK, TypeOK, Statements
  <2> QED
    BY <2>1, ApplyTyped DEF FiniteLogs
<1>1. TypeOK'
  BY <1>0 DEF TypeOK, Statements, NextStage
<1>2. ReadersOK'
  BY DEF ReadersOK
<1>3. VisitorsOK'
  BY DEF VisitorsOK, TypeOK, InTx, Statements, NextStage
<1>4. FiniteLogs'
  BY <1>0 DEF FiniteLogs
<1> QED
  BY <1>1, <1>2, <1>3, <1>4

\* What RecordRequest leaves behind on every return.
LEMMA ReturnLocks ==
  ASSUME LocksInv, NEW v \in Visitors, wpc[v] \in {"begin"} \cup InTx,
         Return(v), UNCHANGED <<clock, readVars>>,
         \A r \in Readers : holds[r] = 0,
         db' \in {db, tx}, tx' \in {db, tx}
  PROVE  LocksInv'
<1> USE DEF LocksInv, Return, Mu!Unlock, readVars
<1>1. TypeOK'
  <2>1. holds' \in [Readers -> 0 .. 2]
    BY DEF TypeOK
  <2> QED
    BY <2>1 DEF TypeOK
<1>2. ReadersOK'
  <2>1. ASSUME NEW r \in Readers PROVE conn # r
    BY ThreadsAssumption DEF ReadersOK, VisitorsOK, TypeOK
  <2> QED
    BY <2>1, ThreadsAssumption DEF ReadersOK, TypeOK
<1>3. VisitorsOK'
  BY ThreadsAssumption DEF VisitorsOK, TypeOK, InTx, Statements
<1>4. FiniteLogs'
  BY DEF FiniteLogs
<1> QED
  BY <1>1, <1>2, <1>3, <1>4

LEMMA CommitLocks == ASSUME LocksInv, NEW v \in Visitors, Commit(v) PROVE LocksInv'
<1>1. \A r \in Readers : holds[r] = 0
  BY DEF LocksInv, VisitorsOK, Commit, InTx
<1> QED
  BY <1>1, ReturnLocks DEF Commit, InTx, readVars

LEMMA AbortLocks == ASSUME LocksInv, NEW v \in Visitors, Abort(v) PROVE LocksInv'
<1>1. \A r \in Readers : holds[r] = 0
  BY DEF LocksInv, VisitorsOK, Abort, Mu!Exclusive, InTx
<1> QED
  BY <1>1, ReturnLocks DEF Abort, InTx, readVars

LEMMA DisconnectLocks ==
  ASSUME LocksInv, NEW v \in Visitors, Disconnect(v) PROVE LocksInv'
<1> USE DEF LocksInv, Disconnect, lockVars, rowVars, readVars
<1>1. TypeOK'
  BY DEF TypeOK
<1>2. ReadersOK' /\ VisitorsOK' /\ FiniteLogs'
  BY DEF ReadersOK, VisitorsOK, FiniteLogs
<1> QED
  BY <1>1, <1>2

LEMMA OpenLocks == ASSUME LocksInv, NEW r \in Readers, Open(r) PROVE LocksInv'
<1> USE DEF LocksInv, Open, GoTo, lockVars, rowVars, recordVars
<1>1. TypeOK'
  BY DEF TypeOK, Queries, FirstOfCall
<1>2. ReadersOK'
  BY DEF ReadersOK, TypeOK, Queries, StatsQueries, FirstOfCall
<1>3. VisitorsOK' /\ FiniteLogs'
  BY DEF VisitorsOK, FiniteLogs
<1> QED
  BY <1>1, <1>2, <1>3

LEMMA RLockLocks == ASSUME LocksInv, NEW r \in Readers, RLock(r) PROVE LocksInv'
<1> USE DEF LocksInv, RLock, Mu!RLock, rowVars, recordVars
<1>0. rst[r] = "lock" /\ rq[r] \in FirstOfCall /\ r \notin parked
  BY DEF ReadersOK, Queries, StatsQueries, FirstOfCall
<1>1. TypeOK'
  <2>1. holds[r] \in 0 .. 1
    BY <1>0 DEF ReadersOK, TypeOK
  <2> QED
    BY <2>1 DEF TypeOK
<1>2. ReadersOK'
  BY <1>0 DEF ReadersOK, TypeOK
<1>3. VisitorsOK'
  BY <1>0, ThreadsAssumption DEF VisitorsOK, TypeOK, InTx
<1>4. FiniteLogs'
  BY DEF FiniteLogs
<1> QED
  BY <1>1, <1>2, <1>3, <1>4

LEMMA QueryLocks == ASSUME LocksInv, NEW r \in Readers, Query(r) PROVE LocksInv'
<1> USE DEF LocksInv, Query, Mu!Shared, lockVars, rowVars, recordVars
<1>1. TypeOK'
  <2>1. rq[r] \in Queries
    BY DEF ReadersOK
  <2>2. page' \in [Readers -> Pages]
    BY <2>1, PageTyped DEF TypeOK
  <2> QED
    BY <2>2 DEF TypeOK
<1>2. ReadersOK'
  BY ThreadsAssumption DEF ReadersOK, TypeOK
<1>3. VisitorsOK'
  BY ThreadsAssumption DEF VisitorsOK
<1>4. FiniteLogs'
  BY DEF FiniteLogs
<1> QED
  BY <1>1, <1>2, <1>3, <1>4

LEMMA LastRowLocks == ASSUME LocksInv, NEW r \in Readers, LastRow(r) PROVE LocksInv'
<1> USE DEF LocksInv, LastRow, GoTo, Mu!RUnlockAll, lockVars, rowVars, recordVars
<1>0. /\ conn = r /\ r \notin parked /\ rq[r] \in Queries
      /\ AfterQuery(r) \in Queries \cup {"render"}
      /\ rq[r] \notin LastOfCall =>
           /\ holds[r] = 1
           /\ AfterQuery(r) \in {"ips", "uas", "statsLog"}
      /\ rq[r] \in LastOfCall =>
           AfterQuery(r) \in (FirstOfCall \cup {"render"}) \ {"statsLog"}
  BY DEF ReadersOK, AfterQuery, AfterCharts, Queries, StatsQueries, LastOfCall,
         FirstOfCall
<1>1. TypeOK'
  BY <1>0 DEF TypeOK
<1>2. ReadersOK'
  <2>1. CASE rq[r] \in LastOfCall
    <3>1. /\ holds' = [holds EXCEPT ![r] = 0] /\ parked' = parked
          /\ rst' = [rst EXCEPT ![r] = "lock"]
          /\ rq'[r] \notin {"statsLog", "ips", "uas"}
      BY <1>0, <2>1 DEF Queries, StatsQueries, FirstOfCall, TypeOK
    <3> QED
      BY <1>0, <3>1, ThreadsAssumption DEF ReadersOK, TypeOK
  <2>2. CASE rq[r] \notin LastOfCall
    BY <1>0, <2>2, ThreadsAssumption DEF ReadersOK, TypeOK, Queries, StatsQueries,
       FirstOfCall
  <2> QED
    BY <2>1, <2>2
<1>3. VisitorsOK'
  BY <1>0, ThreadsAssumption DEF VisitorsOK, TypeOK
<1>4. FiniteLogs'
  BY DEF FiniteLogs
<1> QED
  BY <1>1, <1>2, <1>3, <1>4

LEMMA FailLocks == ASSUME LocksInv, NEW r \in Readers, Fail(r) PROVE LocksInv'
<1> USE DEF LocksInv, Fail, GoTo, Mu!RUnlockAll, Mu!Shared, rowVars, recordVars
<1>0. /\ r \notin parked /\ rq[r] \in Queries
      /\ AfterError(r) \in (FirstOfCall \cup {"render"}) \ {"statsLog"}
  BY DEF ReadersOK, AfterError, AfterCharts, Queries, StatsQueries, FirstOfCall
<1>1. TypeOK'
  BY <1>0, PageAfterErrorTyped DEF TypeOK, FirstOfCall, Queries, StatsQueries
<1>2. ReadersOK'
  <2>1. /\ rst' = [rst EXCEPT ![r] = "lock"]
        /\ rq'[r] \notin {"statsLog", "ips", "uas"}
    BY <1>0 DEF Queries, StatsQueries, FirstOfCall, TypeOK
  <2> QED
    BY <1>0, <2>1, ThreadsAssumption DEF ReadersOK, TypeOK
<1>3. VisitorsOK'
  BY <1>0, ThreadsAssumption DEF VisitorsOK, TypeOK
<1>4. FiniteLogs'
  BY DEF FiniteLogs
<1> QED
  BY <1>1, <1>2, <1>3, <1>4

LEMMA RenderLocks == ASSUME LocksInv, NEW r \in Readers, Render(r) PROVE LocksInv'
<1> USE DEF LocksInv, Render, GoTo, lockVars, rowVars, recordVars
<1>1. TypeOK'
  BY NoPageTyped DEF TypeOK, Queries, StatsQueries
<1>2. ReadersOK'
  BY DEF ReadersOK, TypeOK, Queries, StatsQueries, FirstOfCall
<1>3. VisitorsOK' /\ FiniteLogs'
  BY DEF VisitorsOK, FiniteLogs
<1> QED
  BY <1>1, <1>2, <1>3

LEMMA CrashLocks == ASSUME LocksInv, Crash PROVE LocksInv'
<1> USE DEF LocksInv, Crash
<1>1. TypeOK'
  BY NoPageTyped DEF TypeOK
<1>2. ReadersOK'
  BY ThreadsAssumption DEF ReadersOK, Queries, StatsQueries
<1>3. VisitorsOK'
  BY ThreadsAssumption DEF VisitorsOK, InTx, Statements
<1>4. FiniteLogs'
  BY DEF FiniteLogs
<1> QED
  BY <1>1, <1>2, <1>3, <1>4

LEMMA LocksStep == LocksInv /\ [Next]_vars => LocksInv'
<1> SUFFICES ASSUME LocksInv, [Next]_vars PROVE LocksInv'
  OBVIOUS
<1>1. ASSUME NEW v \in Visitors, Record(v) PROVE LocksInv'
  BY <1>1, ArriveLocks, LockLocks, BeginLocks, ExecLocks, CommitLocks, AbortLocks,
     DisconnectLocks DEF Record
<1>2. ASSUME NEW r \in Readers, Read(r) PROVE LocksInv'
  BY <1>2, OpenLocks, RLockLocks, QueryLocks, LastRowLocks, FailLocks, RenderLocks
     DEF Read
<1>3. CASE Crash
  BY <1>3, CrashLocks
<1>4. CASE UNCHANGED vars
  BY <1>4 DEF vars, lockVars, rowVars, recordVars, readVars, LocksInv, TypeOK,
     ReadersOK, VisitorsOK, FiniteLogs
<1> QED
  BY <1>1, <1>2, <1>3, <1>4 DEF Next

LEMMA LocksAlways == Spec => []LocksInv
  BY LocksInit, LocksStep, PTL DEF Spec

\* The types of the state, for every set of goroutines, addresses and agents.
THEOREM TypeCorrect == Spec => []TypeOK
<1>1. LocksInv => TypeOK
  BY DEF LocksInv
<1> QED
  BY <1>1, LocksAlways, PTL

-----------------------------------------------------------------------------
(* Deadlock *)

\* Whoever has the connection uses it: nothing it waits for is in its way.
LEMMA OwnerMoves ==
  ASSUME LocksInv, conn # NoThread
  PROVE  NoOtherDeadlock
<1>1. CASE conn \in Visitors
  <2>1. wpc[conn] \in InTx
    BY <1>1 DEF LocksInv, VisitorsOK
  <2>2. wpc[conn] # "idle" /\ ~VisitorWaits(conn)
    BY <2>1 DEF InTx, Statements, VisitorWaits
  <2> QED
    BY <1>1, <2>2 DEF NoOtherDeadlock
<1>2. CASE conn \in Readers
  <2>1. rst[conn] = "rows" /\ conn \notin parked /\ rq[conn] \in Queries
    BY <1>2 DEF LocksInv, ReadersOK
  <2>2. rq[conn] # "idle" /\ ~ReaderWaits(conn)
    BY <2>1 DEF Queries, StatsQueries, ReaderWaits
  <2> QED
    BY <1>2, <2>2 DEF NoOtherDeadlock
<1> QED
  BY <1>1, <1>2 DEF LocksInv, TypeOK

\* While nobody has the connection, a reader that is not parked can move.
LEMMA ReaderMoves ==
  ASSUME LocksInv, conn = NoThread, NEW r \in Readers, rq[r] # "idle", r \notin parked
  PROVE  NoOtherDeadlock
  BY DEF NoOtherDeadlock, ReaderWaits

\* Nor is there another way to deadlock: the announced writer waits for a
\* reader alone that holds its lock, and if that one is not parked it moves.
LEMMA LocksAvoidDeadlock == LocksInv => NoOtherDeadlock
<1> SUFFICES ASSUME LocksInv, conn = NoThread, ~Gridlocked PROVE NoOtherDeadlock
  BY OwnerMoves DEF NoOtherDeadlock
<1> USE DEF LocksInv
<1>1. CASE writer # NoThread
  <2>1. writer \in Visitors /\ wpc[writer] = "begin"
    BY <1>1, ThreadsAssumption DEF TypeOK, VisitorsOK
  <2>2. CASE \A r \in Readers : holds[r] = 0
    <3>1. wpc[writer] # "idle" /\ ~VisitorWaits(writer)
      BY <2>1, <2>2 DEF VisitorWaits, TypeOK
    <3> QED
      BY <2>1, <3>1 DEF NoOtherDeadlock
  <2>3. CASE \E r \in Readers : holds[r] # 0
    <3>1. PICK r \in Readers : holds[r] > 0
      BY <2>3 DEF TypeOK
    <3>2. r \notin parked /\ rq[r] # "idle"
      BY <3>1 DEF Gridlocked, ReadersOK, Queries, StatsQueries
    <3> QED
      BY <3>2, ReaderMoves
  <2> QED
    BY <2>2, <2>3
<1>2. CASE writer = NoThread
  <2>1. parked = {} /\ \A v \in Visitors : wpc[v] \in {"idle", "lock"}
    BY <1>2, ThreadsAssumption DEF TypeOK, VisitorsOK, InTx
  <2>2. CASE \E v \in Visitors : wpc[v] # "idle"
    <3>1. PICK v \in Visitors : wpc[v] = "lock"
      BY <2>1, <2>2
    <3> QED
      BY <1>2, <3>1 DEF NoOtherDeadlock, VisitorWaits
  <2>3. CASE \E r \in Readers : rq[r] # "idle"
    BY <2>1, <2>3, ReaderMoves
  <2> QED
    BY <2>2, <2>3 DEF NoOtherDeadlock
<1> QED
  BY <1>1, <1>2

\* Lock and connection have one deadlock, the second read lock of GetStats
\* behind an announced writer: in every other state somebody at work waits for
\* nobody (RecordRequest and the read methods of database.go).
THEOREM GridlockIsOnlyDeadlock == Spec => []NoOtherDeadlock
  BY LocksAlways, LocksAvoidDeadlock, PTL

\* Once gridlocked, only a restart ends it: no unlock, error or cancelled
\* context frees the two, and no transaction commits any more.
GridlockLasts == [][Gridlocked => db' = db /\ (Gridlocked' \/ Crash)]_vars

\* The gridlocked reader is in its second RLock, and the writer that could
\* wake it waits for the first.
LEMMA GridlockStep ==
  ASSUME LocksInv, Gridlocked, [Next]_vars
  PROVE  db' = db /\ (Gridlocked' \/ Crash)
<1> USE DEF LocksInv
<1>1. PICK g \in parked : holds[g] > 0
  BY DEF Gridlocked
<1>2. g \in Readers /\ rst[g] = "run" /\ rq[g] = "statsLog"
  BY <1>1 DEF TypeOK, ReadersOK
<1>3. \A v \in Visitors : wpc[v] \notin InTx /\ ~Mu!Exclusive(v)
  BY <1>1, <1>2 DEF VisitorsOK, Mu!Exclusive, TypeOK
<1>4. writer # NoThread
  BY <1>1 DEF VisitorsOK
<1>5. SUFFICES ASSUME ~Crash PROVE db' = db /\ g \in parked' /\ holds'[g] > 0
  BY DEF Crash, Gridlocked
<1>6. ASSUME NEW v \in Visitors, Record(v)
      PROVE  db' = db /\ g \in parked' /\ holds'[g] > 0
  BY <1>1, <1>3, <1>4, <1>6 DEF Record, Arrive, Lock, Begin, Exec, Commit, Abort,
     Disconnect, Mu!Lock, InTx, lockVars, rowVars
<1>7. ASSUME NEW r \in Readers, Read(r)
      PROVE  db' = db /\ g \in parked' /\ holds'[g] > 0
  <2>1. CASE RLock(r)
    <3>1. r # g
      BY <1>2, <2>1 DEF RLock
    <3> QED
      BY <1>1, <1>4, <2>1 DEF RLock, Mu!RLock, rowVars
  <2>2. CASE LastRow(r) \/ Fail(r)
    <3>1. r # g
      BY <1>1, <1>2, <2>2 DEF LastRow, Fail, Mu!Shared
    <3>2. parked' = parked /\ holds'[g] = holds[g] /\ db' = db
      BY <1>2, <2>2, <3>1 DEF LastRow, Fail, Mu!RUnlockAll, lockVars, rowVars, TypeOK
    <3> QED
      BY <1>1, <3>2
  <2>3. CASE Open(r) \/ Query(r) \/ Render(r)
    BY <1>1, <2>3 DEF Open, Query, Render, lockVars, rowVars
  <2> QED
    BY <1>7, <2>1, <2>2, <2>3 DEF Read
<1>8. CASE UNCHANGED vars
  BY <1>1, <1>8 DEF vars, lockVars, rowVars
<1> QED
  BY <1>5, <1>6, <1>7, <1>8 DEF Next

\* A gridlock lasts until the program is restarted, and nothing is recorded
\* meanwhile (database.go:265 under :208).
THEOREM OnlyRestartEndsGridlock == Spec => GridlockLasts
<1>1. LocksInv /\ [Next]_vars => [Gridlocked => db' = db /\ (Gridlocked' \/ Crash)]_vars
  BY GridlockStep
<1> QED
  BY <1>1, LocksAlways, PTL DEF Spec, GridlockLasts

-----------------------------------------------------------------------------
(* The transaction and the ledger *)

Balanced(rows) ==
  /\ rows.total = Cardinality(rows.log)
  /\ \A i \in IPs : rows.ips[i] = Cardinality({q \in rows.log : q.ip = i})
  /\ \A u \in UserAgents : rows.uas[u] = Cardinality({q \in rows.log : q.ua = u})

\* The rows after the whole transaction for q.
Recorded(rows, q) ==
  Apply("total", Apply("ua", Apply("ip", Apply("log", rows, q), q), q), q)

\* Before each statement the transaction has done those before it to the
\* committed rows, which nobody has changed in the meantime.
TxOK ==
  \A v \in Visitors :
    LET q == req[v] IN
    /\ wpc[v] = "log"    => tx = db
    /\ wpc[v] = "ip"     => tx = Apply("log", db, q)
    /\ wpc[v] = "ua"     => tx = Apply("ip", Apply("log", db, q), q)
    /\ wpc[v] = "total"  => tx = Apply("ua", Apply("ip", Apply("log", db, q), q), q)
    /\ wpc[v] = "commit" => tx = Recorded(db, q)

\* The clock keeps the requests under way apart from each other and from
\* those in the log.
CallsOK ==
  /\ \A q \in db.log : q.ts <= clock
  /\ \A v \in Visitors : wpc[v] # "idle" =>
       /\ req[v].ts <= clock
       /\ \A q \in db.log : q.ts # req[v].ts
       /\ \A w \in Visitors \ {v} : wpc[w] # "idle" => req[w].ts # req[v].ts

LedgerInv == LocksInv /\ TxOK /\ CallsOK /\ Balanced(db)

LEMMA RecordedFields ==
  ASSUME NEW rows \in Rows, NEW q \in Requests
  PROVE  Recorded(rows, q) = [log   |-> rows.log \cup {q},
                              ips   |-> [rows.ips EXCEPT ![q.ip] = @ + 1],
                              uas   |-> [rows.uas EXCEPT ![q.ua] = @ + 1],
                              total |-> rows.total + 1]
<1> DEFINE r1 == [rows EXCEPT !.log = @ \cup {q}]
           r2 == [r1 EXCEPT !.ips[q.ip] = @ + 1]
           r3 == [r2 EXCEPT !.uas[q.ua] = @ + 1]
           r4 == [r3 EXCEPT !.total = @ + 1]
<1>1. Recorded(rows, q) = r4
  BY DEF Recorded, Apply
<1>2. rows = [log |-> rows.log, ips |-> rows.ips, uas |-> rows.uas, total |-> rows.total]
  BY DEF Rows
<1> QED
  BY <1>1, <1>2 DEF Rows

\* One more request with a given feature, if q has it.
LEMMA CountAdded ==
  ASSUME NEW S, IsFiniteSet(S), NEW q, q \notin S, NEW F
  PROVE  /\ IsFiniteSet(S \cup {q})
         /\ Cardinality((S \cup {q}) \cap F) =
              (IF q \in F THEN Cardinality(S \cap F) + 1 ELSE Cardinality(S \cap F))
<1>1. IsFiniteSet(S \cap F)
  BY FS_Subset
<1>2. CASE q \in F
  <2>1. (S \cup {q}) \cap F = (S \cap F) \cup {q} /\ q \notin S \cap F
    BY <1>2
  <2> QED
    BY <1>1, <1>2, <2>1, FS_AddElement
<1>3. CASE q \notin F
  <2>1. (S \cup {q}) \cap F = S \cap F
    BY <1>3
  <2> QED
    BY <1>3, <2>1, FS_AddElement
<1> QED
  BY <1>2, <1>3

LEMMA RecordedBalanced ==
  ASSUME NEW rows \in Rows, IsFiniteSet(rows.log), Balanced(rows),
         NEW q \in Requests, q \notin rows.log
  PROVE  Balanced(Recorded(rows, q))
<1> DEFINE new == Recorded(rows, q)
           log == rows.log
<1>0. log \subseteq Requests
  BY DEF Rows
<1>1. new.total = Cardinality(new.log)
  BY RecordedFields, FS_AddElement DEF Balanced
<1>2. ASSUME NEW i \in IPs
      PROVE  new.ips[i] = Cardinality({x \in new.log : x.ip = i})
  <2> DEFINE F == {x \in Requests : x.ip = i}
  <2>1. /\ {x \in log : x.ip = i} = log \cap F
        /\ {x \in log \cup {q} : x.ip = i} = (log \cup {q}) \cap F
    BY <1>0
  <2>2. Cardinality((log \cup {q}) \cap F) =
          (IF q \in F THEN Cardinality(log \cap F) + 1 ELSE Cardinality(log \cap F))
    BY CountAdded
  <2>3. rows.ips[i] = Cardinality(log \cap F)
    BY <2>1 DEF Balanced
  <2>4. /\ new.log = log \cup {q}
        /\ new.ips[i] = (IF i = q.ip THEN rows.ips[i] + 1 ELSE rows.ips[i])
    BY RecordedFields DEF Rows
  <2> QED
    BY <2>1, <2>2, <2>3, <2>4
<1>3. ASSUME NEW u \in UserAgents
      PROVE  new.uas[u] = Cardinality({x \in new.log : x.ua = u})
  <2> DEFINE F == {x \in Requests : x.ua = u}
  <2>1. /\ {x \in log : x.ua = u} = log \cap F
        /\ {x \in log \cup {q} : x.ua = u} = (log \cup {q}) \cap F
    BY <1>0
  <2>2. Cardinality((log \cup {q}) \cap F) =
          (IF q \in F THEN Cardinality(log \cap F) + 1 ELSE Cardinality(log \cap F))
    BY CountAdded
  <2>3. rows.uas[u] = Cardinality(log \cap F)
    BY <2>1 DEF Balanced
  <2>4. /\ new.log = log \cup {q}
        /\ new.uas[u] = (IF u = q.ua THEN rows.uas[u] + 1 ELSE rows.uas[u])
    BY RecordedFields DEF Rows
  <2> QED
    BY <2>1, <2>2, <2>3, <2>4
<1> QED
  BY <1>1, <1>2, <1>3 DEF Balanced

LEMMA LedgerInit == Init => LedgerInv
<1> SUFFICES ASSUME Init PROVE LedgerInv
  OBVIOUS
<1>1. TxOK /\ CallsOK
  BY DEF Init, TxOK, CallsOK, NoRows
<1>2. Balanced(db)
  <2>1. ASSUME NEW P(_) PROVE {q \in {} : P(q)} = {}
    OBVIOUS
  <2> QED
    BY <2>1, FS_EmptySet DEF Init, Balanced, NoRows
<1> QED
  BY <1>1, <1>2, LocksInit DEF LedgerInv

\* Only Commit changes the committed rows; it enters its request.
LEMMA CommitRecords ==
  ASSUME LedgerInv, NEW v \in Visitors, Commit(v)
  PROVE  /\ req[v] \in Requests /\ req[v] \notin db.log
         /\ db' = Recorded(db, req[v])
         /\ db'.log = db.log \cup {req[v]}
         /\ Balanced(db')
<1> USE DEF LedgerInv, Commit
<1>1. req[v] \in Requests /\ req[v] \notin db.log
  BY DEF LocksInv, VisitorsOK, CallsOK
<1>2. db' = Recorded(db, req[v])
  BY DEF TxOK
<1>3. db \in Rows /\ IsFiniteSet(db.log)
  BY DEF LocksInv, TypeOK, FiniteLogs
<1> QED
  BY <1>1, <1>2, <1>3, RecordedFields, RecordedBalanced

LEMMA OnlyCommitWrites ==
  ASSUME [Next]_vars, \A v \in Visitors : ~Commit(v)
  PROVE  db' = db
<1> USE DEF lockVars, rowVars, recordVars, readVars
<1>1. ASSUME NEW v \in Visitors, Record(v) PROVE db' = db
  BY <1>1 DEF Record, Arrive, Lock, Begin, Exec, Abort, Disconnect
<1>2. ASSUME NEW r \in Readers, Read(r) PROVE db' = db
  BY <1>2 DEF Read, Open, RLock, Query, LastRow, Fail, Render
<1> QED
  BY <1>1, <1>2 DEF Next, Crash, vars

\* Two visitors are never both past Lock.
LEMMA OneWriter ==
  ASSUME LocksInv, NEW v \in Visitors, NEW w \in Visitors,
         wpc[v] \in {"begin"} \cup InTx, wpc[w] \in {"begin"} \cup InTx
  PROVE  v = w
  BY DEF LocksInv, VisitorsOK

LEMMA TxStep == LedgerInv /\ [Next]_vars => TxOK'
<1> SUFFICES ASSUME LedgerInv, [Next]_vars PROVE TxOK'
  OBVIOUS
<1> USE DEF LedgerInv
<1>a. wpc \in [Visitors -> {"idle", "lock", "begin", "commit"} \cup Statements]
      /\ req \in [Visitors -> Requests \cup {NoRequest}]
  BY DEF LocksInv, TypeOK
<1>1. ASSUME NEW v \in Visitors, Arrive(v) PROVE TxOK'
  BY <1>a, <1>1 DEF Arrive, TxOK, rowVars
<1>2. ASSUME NEW v \in Visitors, Lock(v) PROVE TxOK'
  BY <1>a, <1>2 DEF Lock, TxOK, rowVars
<1>3. ASSUME NEW v \in Visitors, Begin(v) PROVE TxOK'
  <2>1. ASSUME NEW w \in Visitors, wpc'[w] \in InTx PROVE w = v /\ wpc'[v] = "log"
    BY <1>a, <1>3, <2>1, OneWriter DEF Begin, InTx, Statements
  <2>2. tx' = db /\ db' = db
    BY <1>3 DEF Begin
  <2> QED
    BY <2>1, <2>2 DEF TxOK, InTx, Statements
<1>4. ASSUME NEW v \in Visitors, Exec(v) PROVE TxOK'
  <2>1. ASSUME NEW w \in Visitors, wpc'[w] \in InTx PROVE w = v
    BY <1>a, <1>4, <2>1, OneWriter DEF Exec, InTx, Statements, NextStage
  <2>2. /\ db' = db /\ req' = req
        /\ tx' = Apply(wpc[v], tx, req[v]) /\ wpc'[v] = NextStage[wpc[v]]
        /\ wpc[v] \in Statements
    BY <1>a, <1>4 DEF Exec
  <2> QED
    BY <2>1, <2>2 DEF TxOK, InTx, Statements, NextStage, Recorded
<1>5. ASSUME NEW v \in Visitors, Commit(v) \/ Abort(v) PROVE TxOK'
  <2>1. ASSUME NEW w \in Visitors PROVE wpc'[w] \notin InTx
    BY <1>a, <1>5, OneWriter DEF Commit, Abort, Return, InTx, Statements
  <2> QED
    BY <2>1 DEF TxOK, InTx, Statements
<1>6. ASSUME NEW v \in Visitors, Disconnect(v) PROVE TxOK'
  BY <1>6 DEF Disconnect, TxOK, rowVars
<1>7. ASSUME NEW r \in Readers, Read(r) PROVE TxOK'
  <2>1. UNCHANGED <<rowVars, wpc, req>>
    BY <1>7 DEF Read, Open, RLock, Query, LastRow, Fail, Render, rowVars, recordVars
  <2> QED
    BY <2>1 DEF TxOK, rowVars
<1>8. CASE Crash
  BY <1>8 DEF Crash, TxOK
<1>9. CASE UNCHANGED vars
  BY <1>9 DEF vars, rowVars, recordVars, TxOK
<1> QED
  BY <1>1, <1>2, <1>3, <1>4, <1>5, <1>6, <1>7, <1>8, <1>9 DEF Next, Record

LEMMA CallsStep == LedgerInv /\ [Next]_vars => CallsOK'
<1> SUFFICES ASSUME LedgerInv, [Next]_vars PROVE CallsOK'
  OBVIOUS
<1> USE DEF LedgerInv
<1>a. /\ wpc \in [Visitors -> {"idle", "lock", "begin", "commit"} \cup Statements]
      /\ req \in [Visitors -> Requests \cup {NoRequest}]
      /\ clock \in Nat /\ db.log \subseteq Requests
      /\ \A v \in Visitors : wpc[v] # "idle" => req[v] \in Requests
  BY DataAssumption DEF LocksInv, TypeOK, VisitorsOK, Rows
<1>b. \A q \in Requests : q.ts \in Nat
  BY DataAssumption DEF Requests
<1>1. ASSUME NEW v \in Visitors, Arrive(v) PROVE CallsOK'
  <2>1. /\ clock' = clock + 1 /\ db' = db
        /\ wpc' = [wpc EXCEPT ![v] = "lock"]
        /\ \A w \in Visitors \ {v} : req'[w] = req[w]
        /\ req'[v].ts = clock + 1
    BY <1>a, <1>1 DEF Arrive, rowVars
  <2>2. \A w \in Visitors : wpc[w] # "idle" => req[w].ts \in Nat /\ req[w].ts # clock + 1
    BY <1>a, <1>b DEF CallsOK
  <2>3. \A q \in db.log : q.ts \in Nat /\ q.ts # clock + 1
    BY <1>a, <1>b DEF CallsOK
  <2> QED
    BY <1>a, <2>1, <2>2, <2>3 DEF CallsOK
<1>2. ASSUME NEW v \in Visitors, Lock(v) \/ Begin(v) \/ Exec(v) PROVE CallsOK'
  <2>1. /\ UNCHANGED <<clock, req, db>>
        /\ wpc[v] # "idle"
        /\ \A w \in Visitors \ {v} : wpc'[w] = wpc[w]
    BY <1>a, <1>2 DEF Lock, Begin, Exec, rowVars, Statements
  <2> QED
    BY <2>1 DEF CallsOK
<1>3. ASSUME NEW v \in Visitors, Commit(v) PROVE CallsOK'
  <2>1. /\ clock' = clock /\ db'.log = db.log \cup {req[v]}
        /\ wpc[v] # "idle" /\ wpc'[v] = "idle"
        /\ \A w \in Visitors \ {v} : wpc'[w] = wpc[w] /\ req'[w] = req[w]
    BY <1>a, <1>3, CommitRecords DEF Commit, Return
  <2> QED
    BY <2>1 DEF CallsOK
<1>4. ASSUME NEW v \in Visitors, Abort(v) PROVE CallsOK'
  <2>1. /\ UNCHANGED <<clock, db>> /\ wpc'[v] = "idle"
        /\ \A w \in Visitors \ {v} : wpc'[w] = wpc[w] /\ req'[w] = req[w]
    BY <1>a, <1>4 DEF Abort, Return
  <2> QED
    BY <2>1 DEF CallsOK
<1>5. ASSUME NEW v \in Visitors, Disconnect(v) PROVE CallsOK'
  BY <1>5 DEF Disconnect, CallsOK, rowVars
<1>6. ASSUME NEW r \in Readers, Read(r) PROVE CallsOK'
  <2>1. UNCHANGED <<db, clock, wpc, req>>
    BY <1>6 DEF Read, Open, RLock, Query, LastRow, Fail, Render, rowVars, recordVars
  <2> QED
    BY <2>1 DEF CallsOK
<1>7. CASE Crash
  BY <1>7 DEF Crash, CallsOK
<1>8. CASE UNCHANGED vars
  BY <1>8 DEF vars, rowVars, recordVars, CallsOK
<1> QED
  BY <1>1, <1>2, <1>3, <1>4, <1>5, <1>6, <1>7, <1>8 DEF Next, Record

LEMMA LedgerStep == LedgerInv /\ [Next]_vars => LedgerInv'
<1> SUFFICES ASSUME LedgerInv, [Next]_vars PROVE LedgerInv'
  OBVIOUS
<1>1. LocksInv'
  BY LocksStep DEF LedgerInv
<1>2. Balanced(db)'
  <2>1. CASE \E v \in Visitors : Commit(v)
    BY <2>1, CommitRecords
  <2>2. CASE \A v \in Visitors : ~Commit(v)
    BY <2>2, OnlyCommitWrites DEF LedgerInv
  <2> QED
    BY <2>1, <2>2
<1> QED
  BY <1>1, <1>2, TxStep, CallsStep DEF LedgerInv

LEMMA LedgerAlways == Spec => []LedgerInv
  BY LedgerInit, LedgerStep, PTL DEF Spec

\* The log and the counts of the database agree at every moment, whatever
\* fails, hangs up or crashes in mid-transaction.
THEOREM LedgerStaysBalanced == Spec => []LedgerBalanced
<1>1. LedgerInv => LedgerBalanced
  BY DEF LedgerInv, Balanced, LedgerBalanced
<1> QED
  BY <1>1, LedgerAlways, PTL

-----------------------------------------------------------------------------
(* GetStats reads one state of the database *)

\* A reader inside GetStats holds the lock, so nobody commits.
LEMMA ReadersExclude ==
  ASSUME LocksInv, NEW r \in Readers,
         \/ rq[r] = "total" /\ rst[r] = "rows"
         \/ rq[r] \in {"ips", "uas", "statsLog"},
         [Next]_vars
  PROVE  db' = db
<1>1. holds[r] # 0
  BY DEF LocksInv, ReadersOK, FirstOfCall
<1>2. \A v \in Visitors : ~Commit(v)
  BY <1>1 DEF LocksInv, VisitorsOK, Commit, InTx
<1> QED
  BY <1>2, OnlyCommitWrites

LEMMA SnapshotStep == LocksInv /\ StatsAreSnapshot /\ [Next]_vars => StatsAreSnapshot'
<1> SUFFICES ASSUME LocksInv, StatsAreSnapshot, [Next]_vars, NEW r \in Dashboards
             PROVE
               /\ \/ rq'[r] = "total" /\ rst'[r] = "rows"
                  \/ rq'[r] \in {"ips", "uas", "statsLog"}
                  => page'[r].total = db'.total
               /\ \/ rq'[r] = "ips" /\ rst'[r] = "rows"
                  \/ rq'[r] \in {"uas", "statsLog"}
                  => page'[r].uniqueIPs = Cardinality(RowsOf(db'.ips))
  BY DEF StatsAreSnapshot
<1>a. /\ r \in Readers /\ page \in [Readers -> Pages]
      /\ rq \in [Readers -> Queries \cup {"idle", "render"}]
      /\ rst \in [Readers -> {"lock", "run", "rows"}]
      /\ rst[r] # "lock" => rq[r] \in Queries
  BY DEF LocksInv, TypeOK, Readers, ReadersOK
<1>1. CASE UNCHANGED <<rq[r], rst[r], page[r]>>
  BY <1>1, <1>a, ReadersExclude DEF StatsAreSnapshot
<1>2. CASE Open(r) \/ RLock(r) \/ Render(r)
  <2>1. /\ UNCHANGED <<db, page>> \/ rq'[r] = "idle"
        /\ rq'[r] \in {"topIPs", "idle", rq[r]}
        /\ RLock(r) => rst'[r] = "run"
        /\ rq'[r] = rq[r] => RLock(r)
    BY <1>2, <1>a DEF Open, RLock, Render, GoTo, rowVars
  <2> QED
    BY <2>1 DEF StatsAreSnapshot
<1>3. CASE Query(r)
  <2>1. PICK p \in PagesRead(r) : page' = [page EXCEPT ![r] = p]
    BY <1>3 DEF Query
  <2>2. /\ rq' = rq /\ db' = db /\ page'[r] = p /\ page[r] \in Pages
        /\ rq[r] \in Queries /\ rst[r] = "run"
    BY <1>3, <1>a, <2>1 DEF Query, rowVars
  <2>3. /\ rq[r] = "total" => p.total = db.total
        /\ rq[r] \in {"ips", "uas", "statsLog"} => p.total = page[r].total
        /\ rq[r] = "ips" => p.uniqueIPs = Cardinality(RowsOf(db.ips))
        /\ rq[r] \in {"uas", "statsLog"} => p.uniqueIPs = page[r].uniqueIPs
    BY <2>1, <2>2 DEF PagesRead, Pages
  <2> QED
    BY <2>2, <2>3 DEF StatsAreSnapshot
<1>4. CASE LastRow(r)
  <2>1. /\ UNCHANGED <<db, page>> /\ rst[r] = "rows"
        /\ rq'[r] = AfterQuery(r) /\ rst'[r] # "rows"
    BY <1>4, <1>a DEF LastRow, GoTo, rowVars
  <2>2. /\ AfterQuery(r) = "ips" => rq[r] = "total"
        /\ AfterQuery(r) = "uas" => rq[r] = "ips"
        /\ AfterQuery(r) = "statsLog" => rq[r] = "uas"
    BY <1>a, <2>1 DEF AfterQuery, AfterCharts, Queries, StatsQueries
  <2> QED
    BY <2>1, <2>2 DEF StatsAreSnapshot
<1>5. CASE Fail(r)
  <2>1. rq'[r] = AfterError(r) /\ rst'[r] # "rows" /\ rq[r] \in Queries
    BY <1>5, <1>a DEF Fail, GoTo
  <2>2. AfterError(r) \in {"total", "render", "recent"}
    BY <2>1 DEF AfterError, AfterCharts, Queries, StatsQueries
  <2> QED
    BY <2>1, <2>2
<1>6. CASE Crash
  BY <1>6, <1>a DEF Crash
<1>7. ASSUME NEW x \in Readers, x # r, Read(x) PROVE UNCHANGED <<rq[r], rst[r], page[r]>>
  BY <1>7, <1>a DEF Read, Open, RLock, Query, LastRow, Fail, Render, GoTo
<1>8. ASSUME NEW v \in Visitors, Record(v) PROVE UNCHANGED <<rq[r], rst[r], page[r]>>
  BY <1>8 DEF Record, Arrive, Lock, Begin, Exec, Commit, Abort, Disconnect, readVars
<1>9. UNCHANGED vars => UNCHANGED <<rq[r], rst[r], page[r]>>
  BY DEF vars, readVars
<1> QED
  BY <1>1, <1>2, <1>3, <1>4, <1>5, <1>6, <1>7, <1>8, <1>9 DEF Next, Read

\* The numbers of a call of GetStats all belong to one moment: the outer read
\* lock keeps every commit away until the call returns.
THEOREM StatsAreOneSnapshot == Spec => []StatsAreSnapshot
<1>1. Init => StatsAreSnapshot
  BY DEF Init, StatsAreSnapshot, Readers
<1>2. LocksInv /\ StatsAreSnapshot /\ [Next]_vars => StatsAreSnapshot'
  BY SnapshotStep
<1> QED
  BY <1>1, <1>2, LocksAlways, PTL DEF Spec

-----------------------------------------------------------------------------
(* A page is plausible *)

\* Every request was counted once, so each kind of count adds up to the total.
SumsOK == SumFunction(db.ips) = db.total /\ SumFunction(db.uas) = db.total

\* The reader has got so far: the total, the addresses, the agents, the list.
HasTotal(r) ==
  \/ rq[r] = "total" /\ rst[r] = "rows"
  \/ rq[r] \in {"ips", "uas", "statsLog", "recent", "render"}

HasIPs(r) ==
  \/ rq[r] = "ips" /\ rst[r] = "rows"
  \/ rq[r] \in {"uas", "statsLog", "recent", "render"}

HasUAs(r) ==
  \/ rq[r] = "uas" /\ rst[r] = "rows"
  \/ rq[r] \in {"statsLog", "recent", "render"}

HasRecent(r) ==
  \/ rq[r] = "recent" /\ rst[r] = "rows"
  \/ rq[r] = "render"

\* What a page has been given, the rows bound; they only grow.
Bounded(p, rows) ==
  /\ SumFunction(p.ips) <= rows.total /\ SumFunction(p.uas) <= rows.total
  /\ Cardinality(RowsOf(p.ips)) <= Cardinality(RowsOf(rows.ips))
  /\ Cardinality(RowsOf(p.uas)) <= Cardinality(RowsOf(rows.uas))
  /\ p.total <= rows.total

\* The parts of PagePlausible, each about one number of the page.
TotalFits(p) == p.total > 0 => SumFunction(p.ips) <= p.total /\ SumFunction(p.uas) <= p.total

IPsFit(p) ==
  p.total > 0 => Cardinality(RowsOf(p.ips)) <= p.uniqueIPs /\ p.uniqueIPs \in 1 .. p.total

UAsFit(p) ==
  p.total > 0 => Cardinality(RowsOf(p.uas)) <= p.uniqueUAs /\ p.uniqueUAs \in 1 .. p.total

RecentFits(p) == p.total > 0 /\ p.recent # 0 => p.recent >= Least(RecentLimit, p.total)

\* Each part holds from the moment its number was read.
Plausible(r) ==
  /\ Bounded(page[r], db)
  /\ HasTotal(r)  => TotalFits(page[r])
  /\ HasIPs(r)    => IPsFit(page[r])
  /\ HasUAs(r)    => UAsFit(page[r])
  /\ HasRecent(r) => RecentFits(page[r])

PlausibleInv == LedgerInv /\ StatsAreSnapshot /\ SumsOK /\ \A r \in Dashboards : Plausible(r)

\* A chart is a part of the counts.
LEMMA ChartWithin ==
  ASSUME NEW S, IsFiniteSet(S), NEW count \in [S -> Nat], NEW c \in ChartsOf(count)
  PROVE  /\ SumFunction(c) <= SumFunction(count)
         /\ Cardinality(RowsOf(c)) <= Cardinality(RowsOf(count))
<1>1. PICK T : c = [k \in DOMAIN count |-> IF k \in T THEN count[k] ELSE 0]
  BY DEF ChartsOf
<1>2. c \in [S -> Nat] /\ \A k \in S : c[k] <= count[k]
  BY <1>1
<1>3. SumFunctionOnSet(c, S) <= SumFunctionOnSet(count, S)
  BY <1>2, SumMonotone
<1>4. DOMAIN c = S /\ DOMAIN count = S
  BY <1>2
<1>5. RowsOf(c) \in SUBSET RowsOf(count)
  BY <1>2 DEF RowsOf
<1>6. IsFiniteSet(RowsOf(count))
  <2>1. RowsOf(count) \in SUBSET S
    BY DEF RowsOf
  <2> QED
    BY <2>1, FS_Subset
<1> QED
  BY <1>3, <1>4, <1>5, <1>6, FS_Subset DEF SumFunction

\* There are no more rows than requests in them, and none only if there are no
\* requests.
LEMMA RowsWithinSum ==
  ASSUME NEW S, IsFiniteSet(S), NEW count \in [S -> Nat]
  PROVE  /\ SumFunction(count) \in Nat
         /\ Cardinality(RowsOf(count)) <= SumFunction(count)
         /\ SumFunction(count) > 0 => Cardinality(RowsOf(count)) > 0
<1>1. SumFunction(count) \in Nat
  BY SumType
<1>2. Cardinality(RowsOf(count)) <= SumFunction(count)
  <2>1. RowsOf(count) = {x \in S : count[x] > 0} /\ DOMAIN count = S
    BY DEF RowsOf
  <2> QED
    BY <2>1, SumCoversKeys DEF SumFunction
<1>3. ASSUME SumFunction(count) > 0 PROVE Cardinality(RowsOf(count)) > 0
  <2>1. RowsOf(count) # {}
    <3>1. SUFFICES ASSUME RowsOf(count) = {} PROVE FALSE
      OBVIOUS
    <3>2. \A k \in S : count[k] = 0
      BY <3>1 DEF RowsOf
    <3>3. count = [k \in S |-> 0]
      BY <3>2
    <3> QED
      BY <1>3, <3>3, SumOfZeros
  <2>2. IsFiniteSet(RowsOf(count))
    <3>1. RowsOf(count) \in SUBSET S
      BY DEF RowsOf
    <3> QED
      BY <3>1, FS_Subset
  <2> QED
    BY <2>1, <2>2, FS_EmptySet, FS_CardinalityType
<1> QED
  BY <1>1, <1>2, <1>3

\* Nothing is shown before anything was read, and no rows bound it.
LEMMA NothingFits ==
  /\ SumFunction(NoPage.ips) = 0 /\ SumFunction(NoPage.uas) = 0
  /\ Cardinality(RowsOf(NoPage.ips)) = 0 /\ Cardinality(RowsOf(NoPage.uas)) = 0
<1>1. NoPage.ips = [i \in IPs |-> 0] /\ NoPage.uas = [u \in UserAgents |-> 0]
  BY DEF NoPage, NoRows
<1>2. RowsOf(NoPage.ips) = {} /\ RowsOf(NoPage.uas) = {}
  BY <1>1 DEF RowsOf
<1>3. SumFunction(NoPage.ips) = 0 /\ SumFunction(NoPage.uas) = 0
  BY <1>1, DataAssumption, SumOfZeros
<1> QED
  BY <1>2, <1>3, FS_EmptySet

\* What the bounds are made of is numbers.
LEMMA RowsNumbers ==
  ASSUME NEW rows \in Rows
  PROVE  /\ rows.total \in Nat /\ rows.ips \in [IPs -> Nat] /\ rows.uas \in [UserAgents -> Nat]
         /\ Cardinality(RowsOf(rows.ips)) \in Nat /\ Cardinality(RowsOf(rows.uas)) \in Nat
         /\ SumFunction(rows.ips) \in Nat /\ SumFunction(rows.uas) \in Nat
<1>1. rows.total \in Nat /\ rows.ips \in [IPs -> Nat] /\ rows.uas \in [UserAgents -> Nat]
  BY DEF Rows
<1> QED
  BY <1>1, DataAssumption, RowsCounted, SumType

LEMMA PageNumbers ==
  ASSUME NEW p \in Pages
  PROVE  /\ p.total \in Nat /\ p.uniqueIPs \in Nat /\ p.uniqueUAs \in Nat /\ p.recent \in Nat
         /\ Cardinality(RowsOf(p.ips)) \in Nat /\ Cardinality(RowsOf(p.uas)) \in Nat
         /\ SumFunction(p.ips) \in Nat /\ SumFunction(p.uas) \in Nat
<1>1. /\ p.ips \in [IPs -> Nat] /\ p.uas \in [UserAgents -> Nat]
      /\ p.total \in Nat /\ p.uniqueIPs \in Nat /\ p.uniqueUAs \in Nat /\ p.recent \in Nat
  BY DEF Pages
<1> QED
  BY <1>1, DataAssumption, RowsCounted, SumType

\* A commit adds one to the total and to one count of each kind.
LEMMA CommitGrows ==
  ASSUME LedgerInv, NEW v \in Visitors, Commit(v)
  PROVE  /\ db'.total = db.total + 1
         /\ SumFunction(db'.ips) = SumFunction(db.ips) + 1
         /\ SumFunction(db'.uas) = SumFunction(db.uas) + 1
         /\ Cardinality(RowsOf(db.ips)) <= Cardinality(RowsOf(db'.ips))
         /\ Cardinality(RowsOf(db.uas)) <= Cardinality(RowsOf(db'.uas))
<1> DEFINE q == req[v]
           ips == [db.ips EXCEPT ![q.ip] = @ + 1]
           uas == [db.uas EXCEPT ![q.ua] = @ + 1]
<1>1. /\ db \in Rows /\ q \in Requests /\ db' = Recorded(db, q)
  BY CommitRecords DEF LedgerInv, LocksInv, TypeOK
<1>2. /\ db.ips \in [IPs -> Nat] /\ db.uas \in [UserAgents -> Nat]
      /\ q.ip \in IPs /\ q.ua \in UserAgents
  BY <1>1 DEF Rows, Requests
<1> HIDE DEF q
<1>3. db'.total = db.total + 1 /\ db'.ips = ips /\ db'.uas = uas
  BY <1>1, RecordedFields
<1>4. /\ SumFunction(ips) = SumFunction(db.ips) + 1
      /\ SumFunction(uas) = SumFunction(db.uas) + 1
  BY <1>2, DataAssumption, SumCounted
<1>5. /\ ips \in [IPs -> Nat] /\ uas \in [UserAgents -> Nat]
      /\ \A i \in IPs : db.ips[i] > 0 => ips[i] > 0
      /\ \A u \in UserAgents : db.uas[u] > 0 => uas[u] > 0
  BY <1>2
<1> HIDE DEF ips, uas
<1>6. /\ RowsOf(db.ips) \in SUBSET RowsOf(ips) /\ RowsOf(ips) \in SUBSET IPs
      /\ RowsOf(db.uas) \in SUBSET RowsOf(uas) /\ RowsOf(uas) \in SUBSET UserAgents
  BY <1>2, <1>5 DEF RowsOf
<1>7. IsFiniteSet(RowsOf(ips)) /\ IsFiniteSet(RowsOf(uas))
  BY <1>6, DataAssumption, FS_Subset
<1> QED
  BY <1>3, <1>4, <1>6, <1>7, FS_Subset

LEMMA RowsGrow ==
  ASSUME LedgerInv, SumsOK, [Next]_vars
  PROVE  /\ SumsOK'
         /\ db.total <= db'.total
         /\ Cardinality(RowsOf(db.ips)) <= Cardinality(RowsOf(db'.ips))
         /\ Cardinality(RowsOf(db.uas)) <= Cardinality(RowsOf(db'.uas))
<1>1. db \in Rows
  BY DEF LedgerInv, LocksInv, TypeOK
<1>2. CASE \E v \in Visitors : Commit(v)
  BY <1>1, <1>2, CommitGrows, RowsNumbers DEF SumsOK
<1>3. CASE \A v \in Visitors : ~Commit(v)
  <2>1. db' = db
    BY <1>3, OnlyCommitWrites
  <2> QED
    BY <1>1, <2>1, RowsNumbers DEF SumsOK
<1> QED
  BY <1>2, <1>3

LEMMA BoundedGrows ==
  ASSUME LedgerInv, LedgerInv', SumsOK, [Next]_vars, NEW p \in Pages, Bounded(p, db)
  PROVE  Bounded(p, db')
<1>1. db \in Rows /\ db' \in Rows
  BY DEF LedgerInv, LocksInv, TypeOK
<1>2. /\ db.total <= db'.total
      /\ Cardinality(RowsOf(db.ips)) <= Cardinality(RowsOf(db'.ips))
      /\ Cardinality(RowsOf(db.uas)) <= Cardinality(RowsOf(db'.uas))
  BY RowsGrow
<1> QED
  BY <1>1, <1>2, RowsNumbers, PageNumbers DEF Bounded

\* What a query adds to a page fits what the page had before.
LEMMA QueryFits ==
  ASSUME PlausibleInv, NEW r \in Dashboards, r \in Readers, rq[r] \in Queries,
         rst[r] = "run", NEW p \in PagesRead(r)
  PROVE  /\ Bounded(p, db)
         /\ rq[r] \in {"total", "ips", "uas", "statsLog", "recent"} => TotalFits(p)
         /\ rq[r] \in {"ips", "uas", "statsLog", "recent"} => IPsFit(p)
         /\ rq[r] \in {"uas", "statsLog", "recent"} => UAsFit(p)
         /\ rq[r] = "recent" => RecentFits(p)
<1> DEFINE old == page[r]
           nIPs == Cardinality(RowsOf(db.ips))
           nUAs == Cardinality(RowsOf(db.uas))
           n == Least(RecentLimit, Cardinality(db.log))
<1>1. db \in Rows /\ old \in Pages
  BY DEF PlausibleInv, LedgerInv, LocksInv, TypeOK
<1>2. /\ db.ips \in [IPs -> Nat] /\ db.uas \in [UserAgents -> Nat] /\ db.total \in Nat
      /\ SumFunction(db.ips) = db.total /\ SumFunction(db.uas) = db.total
      /\ nIPs \in Nat /\ nUAs \in Nat
  BY <1>1, RowsNumbers DEF PlausibleInv, SumsOK
<1>3. nIPs <= db.total /\ (db.total > 0 => nIPs > 0)
  BY <1>2, DataAssumption, RowsWithinSum
<1>4. nUAs <= db.total /\ (db.total > 0 => nUAs > 0)
  BY <1>2, DataAssumption, RowsWithinSum
<1>5. Plausible(r) /\ Bounded(old, db)
  BY DEF PlausibleInv, Plausible
<1>6. CASE rq[r] = "topIPs"
  <2>1. PICK c \in ChartsOf(db.ips) : p = [old EXCEPT !.ips = c]
    BY <1>6 DEF PagesRead
  <2>2. /\ c \in [IPs -> Nat] /\ SumFunction(c) <= db.total
        /\ Cardinality(RowsOf(c)) <= nIPs
    BY <1>2, DataAssumption, ChartTyped, ChartWithin
  <2>3. p.ips = c /\ p.uas = old.uas /\ p.total = old.total
    BY <1>1, <2>1 DEF Pages
  <2> QED
    BY <1>5, <1>6, <2>2, <2>3 DEF Bounded
<1>7. CASE rq[r] = "topUAs"
  <2>1. PICK c \in ChartsOf(db.uas) : p = [old EXCEPT !.uas = c]
    BY <1>7 DEF PagesRead
  <2>2. /\ c \in [UserAgents -> Nat] /\ SumFunction(c) <= db.total
        /\ Cardinality(RowsOf(c)) <= nUAs
    BY <1>2, DataAssumption, ChartTyped, ChartWithin
  <2>3. p.uas = c /\ p.ips = old.ips /\ p.total = old.total
    BY <1>1, <2>1 DEF Pages
  <2> QED
    BY <1>5, <1>7, <2>2, <2>3 DEF Bounded
<1>8. CASE rq[r] = "total"
  <2>1. p = [old EXCEPT !.total = db.total]
    BY <1>8 DEF PagesRead
  <2>2. p.total = db.total /\ p.ips = old.ips /\ p.uas = old.uas
    BY <1>1, <2>1 DEF Pages
  <2> QED
    BY <1>2, <1>5, <1>8, <2>2 DEF Bounded, TotalFits
<1>9. CASE rq[r] = "ips"
  <2>1. p = [old EXCEPT !.uniqueIPs = nIPs]
    BY <1>9 DEF PagesRead
  <2>2. p.uniqueIPs = nIPs /\ p.total = old.total /\ p.ips = old.ips /\ p.uas = old.uas
    BY <1>1, <2>1 DEF Pages
  <2>3. old.total = db.total /\ TotalFits(old)
    BY <1>5, <1>9 DEF PlausibleInv, StatsAreSnapshot, Plausible, HasTotal
  <2>4. Bounded(p, db) /\ TotalFits(p)
    BY <1>5, <2>2, <2>3 DEF Bounded, TotalFits
  <2>5. IPsFit(p)
    BY <1>2, <1>3, <1>5, <2>2, <2>3 DEF Bounded, IPsFit
  <2> QED
    BY <1>9, <2>4, <2>5
<1>10. CASE rq[r] = "uas"
  <2>1. p = [old EXCEPT !.uniqueUAs = nUAs]
    BY <1>10 DEF PagesRead
  <2>2. /\ p.uniqueUAs = nUAs /\ p.uniqueIPs = old.uniqueIPs /\ p.total = old.total
        /\ p.ips = old.ips /\ p.uas = old.uas
    BY <1>1, <2>1 DEF Pages
  <2>3. old.total = db.total /\ TotalFits(old) /\ IPsFit(old)
    BY <1>5, <1>10 DEF PlausibleInv, StatsAreSnapshot, Plausible, HasTotal, HasIPs
  <2>4. Bounded(p, db) /\ TotalFits(p) /\ IPsFit(p)
    BY <1>5, <2>2, <2>3 DEF Bounded, TotalFits, IPsFit
  <2>5. UAsFit(p)
    BY <1>2, <1>4, <1>5, <2>2, <2>3 DEF Bounded, UAsFit
  <2> QED
    BY <1>10, <2>4, <2>5
<1>11. CASE rq[r] = "statsLog"
  <2>1. p = old
    BY <1>11 DEF PagesRead
  <2> QED
    BY <1>5, <1>11, <2>1 DEF Plausible, HasTotal, HasIPs, HasUAs
<1>12. CASE rq[r] = "recent"
  <2>1. p = [old EXCEPT !.recent = n]
    BY <1>12 DEF PagesRead
  <2>2. /\ p.recent = n /\ p.total = old.total /\ p.ips = old.ips /\ p.uas = old.uas
        /\ p.uniqueIPs = old.uniqueIPs /\ p.uniqueUAs = old.uniqueUAs
    BY <1>1, <2>1 DEF Pages
  <2>3. TotalFits(old) /\ IPsFit(old) /\ UAsFit(old)
    BY <1>5, <1>12 DEF Plausible, HasTotal, HasIPs, HasUAs
  <2>4. Bounded(p, db) /\ TotalFits(p) /\ IPsFit(p) /\ UAsFit(p)
    BY <1>5, <2>2, <2>3 DEF Bounded, TotalFits, IPsFit, UAsFit
  <2>5. RecentFits(p)
    <3>1. Cardinality(db.log) = db.total
      BY DEF PlausibleInv, LedgerInv, Balanced
    <3>2. old.total \in Nat /\ old.total <= db.total
      BY <1>1, <1>5 DEF Bounded, Pages
    <3> QED
      BY <1>2, <2>2, <3>1, <3>2, DataAssumption DEF RecentFits, Least
  <2> QED
    BY <1>12, <2>4, <2>5
<1> QED
  BY <1>6, <1>7, <1>8, <1>9, <1>10, <1>11, <1>12 DEF Queries, StatsQueries

\* After an error the page shows nothing of the call that failed.
LEMMA ErrorFits ==
  ASSUME PlausibleInv, NEW r \in Dashboards, r \in Readers, rq[r] \in Queries
  PROVE  /\ Bounded(PageAfterError(r), db)
         /\ rq[r] \in StatsQueries =>
              /\ TotalFits(PageAfterError(r)) /\ IPsFit(PageAfterError(r))
              /\ UAsFit(PageAfterError(r))
         /\ rq[r] = "recent" =>
              /\ TotalFits(PageAfterError(r)) /\ IPsFit(PageAfterError(r))
              /\ UAsFit(PageAfterError(r)) /\ RecentFits(PageAfterError(r))
<1> DEFINE old == page[r]
           p == PageAfterError(r)
<1>1. db \in Rows /\ old \in Pages
  BY DEF PlausibleInv, LedgerInv, LocksInv, TypeOK
<1>2. Plausible(r) /\ Bounded(old, db)
  BY DEF PlausibleInv, Plausible
<1>3. CASE rq[r] \in {"topIPs", "topUAs"}
  <2>1. p = [old EXCEPT !.ips = NoPage.ips, !.uas = NoPage.uas]
    BY <1>3 DEF PageAfterError, StatsQueries
  <2>2. p.ips = NoPage.ips /\ p.uas = NoPage.uas /\ p.total = old.total
    BY <1>1, <2>1 DEF Pages
  <2> QED
    BY <1>1, <1>2, <1>3, <2>2, NothingFits, RowsNumbers DEF Bounded, StatsQueries
<1>4. CASE rq[r] \in StatsQueries
  <2>1. p = [old EXCEPT !.total = 0, !.uniqueIPs = 0, !.uniqueUAs = 0]
    BY <1>4 DEF PageAfterError, StatsQueries
  <2>2. p.total = 0 /\ p.ips = old.ips /\ p.uas = old.uas
    BY <1>1, <2>1 DEF Pages
  <2>3. Bounded(p, db)
    BY <1>1, <1>2, <2>2, RowsNumbers DEF Bounded
  <2> QED
    BY <1>4, <2>2, <2>3 DEF TotalFits, IPsFit, UAsFit, StatsQueries
<1>5. CASE rq[r] = "recent"
  <2>1. p = [old EXCEPT !.recent = 0]
    BY <1>5 DEF PageAfterError, StatsQueries
  <2>2. /\ p.recent = 0 /\ p.total = old.total /\ p.ips = old.ips /\ p.uas = old.uas
        /\ p.uniqueIPs = old.uniqueIPs /\ p.uniqueUAs = old.uniqueUAs
    BY <1>1, <2>1 DEF Pages
  <2>3. TotalFits(old) /\ IPsFit(old) /\ UAsFit(old)
    BY <1>2, <1>5 DEF Plausible, HasTotal, HasIPs, HasUAs
  <2>4. Bounded(p, db) /\ TotalFits(p) /\ IPsFit(p) /\ UAsFit(p)
    BY <1>2, <2>2, <2>3 DEF Bounded, TotalFits, IPsFit, UAsFit
  <2>5. RecentFits(p)
    BY <2>2 DEF RecentFits
  <2> QED
    BY <1>5, <2>4, <2>5 DEF StatsQueries
<1> QED
  BY <1>3, <1>4, <1>5 DEF Queries

LEMMA PlausibleInit == Init => SumsOK /\ \A r \in Dashboards : Plausible(r)
<1> SUFFICES ASSUME Init PROVE SumsOK /\ \A r \in Dashboards : Plausible(r)
  OBVIOUS
<1>1. db = NoRows /\ \A r \in Dashboards : page[r] = NoPage /\ rq[r] = "idle"
  BY DEF Init, Readers
<1>2. NoRows.ips = NoPage.ips /\ NoRows.uas = NoPage.uas /\ NoRows.total = 0 /\ NoPage.total = 0
  BY DEF NoRows, NoPage
<1>3. SumsOK
  BY <1>1, <1>2, NothingFits DEF SumsOK
<1>4. Bounded(NoPage, NoRows)
  BY <1>2, NothingFits DEF Bounded
<1> QED
  BY <1>1, <1>3, <1>4 DEF Plausible, HasTotal, HasIPs, HasUAs, HasRecent

LEMMA PlausibleStep ==
  ASSUME PlausibleInv, LedgerInv', [Next]_vars, NEW r \in Dashboards
  PROVE  Plausible(r)'
<1>a. /\ r \in Readers /\ page \in [Readers -> Pages] /\ page'[r] \in Pages
      /\ rq \in [Readers -> Queries \cup {"idle", "render"}]
      /\ rst \in [Readers -> {"lock", "run", "rows"}]
      /\ rst[r] # "lock" => rq[r] \in Queries
      /\ LedgerInv /\ SumsOK /\ Plausible(r)
  BY DEF PlausibleInv, LedgerInv, LocksInv, TypeOK, Readers, ReadersOK
<1>b. page'[r] \in {page[r], NoPage} => Bounded(page'[r], db')
  <2>1. Bounded(page[r], db')
    BY <1>a, BoundedGrows DEF Plausible
  <2>2. Bounded(NoPage, db')
    <3>1. db' \in Rows
      BY DEF LedgerInv, LocksInv, TypeOK
    <3>2. NoPage.total = 0
      BY DEF NoPage
    <3> QED
      BY <3>1, <3>2, NothingFits, RowsNumbers DEF Bounded
  <2> QED
    BY <2>1, <2>2
<1>1. CASE UNCHANGED <<rq[r], rst[r], page[r]>>
  BY <1>1, <1>a, <1>b DEF Plausible, HasTotal, HasIPs, HasUAs, HasRecent
<1>2. CASE Open(r) \/ RLock(r)
  <2>1. /\ page' = page
        /\ \/ rq'[r] = "topIPs"
           \/ rq'[r] = rq[r] /\ rst'[r] = "run"
    BY <1>2, <1>a DEF Open, RLock, GoTo
  <2> QED
    BY <1>a, <1>b, <2>1 DEF Plausible, HasTotal, HasIPs, HasUAs, HasRecent
<1>3. CASE Render(r)
  <2>1. page'[r] = NoPage /\ rq'[r] = "idle"
    BY <1>3, <1>a DEF Render, GoTo
  <2> QED
    BY <1>b, <2>1 DEF Plausible, HasTotal, HasIPs, HasUAs, HasRecent
<1>4. CASE Query(r)
  <2>1. PICK p \in PagesRead(r) : page' = [page EXCEPT ![r] = p]
    BY <1>4 DEF Query
  <2>2. /\ rq'[r] = rq[r] /\ db' = db /\ page'[r] = p /\ rq[r] \in Queries /\ rst[r] = "run"
    BY <1>4, <1>a, <2>1 DEF Query, rowVars
  <2>3. /\ Bounded(p, db)
        /\ rq[r] \in {"total", "ips", "uas", "statsLog", "recent"} => TotalFits(p)
        /\ rq[r] \in {"ips", "uas", "statsLog", "recent"} => IPsFit(p)
        /\ rq[r] \in {"uas", "statsLog", "recent"} => UAsFit(p)
        /\ rq[r] = "recent" => RecentFits(p)
    BY <1>a, <2>2, QueryFits
  <2> QED
    BY <2>2, <2>3 DEF Plausible, HasTotal, HasIPs, HasUAs, HasRecent, Queries, StatsQueries
<1>5. CASE LastRow(r)
  <2>1. /\ page' = page /\ rst[r] = "rows" /\ rq[r] \in Queries
        /\ rq'[r] = AfterQuery(r) /\ rst'[r] # "rows"
    BY <1>5, <1>a DEF LastRow, GoTo, rowVars
  <2>2. /\ HasTotal(r)' => HasTotal(r)
        /\ HasIPs(r)' => HasIPs(r)
        /\ HasUAs(r)' => HasUAs(r)
        /\ HasRecent(r)' => HasRecent(r)
    BY <2>1 DEF AfterQuery, AfterCharts, Queries, StatsQueries, HasTotal, HasIPs, HasUAs,
       HasRecent
  <2> QED
    BY <1>a, <1>b, <2>1, <2>2 DEF Plausible
<1>6. CASE Fail(r)
  <2>1. /\ page'[r] = PageAfterError(r) /\ db' = db /\ rq[r] \in Queries
        /\ rq'[r] = AfterError(r) /\ rst'[r] # "rows"
    BY <1>6, <1>a DEF Fail, GoTo, rowVars
  <2>2. /\ Bounded(PageAfterError(r), db)
        /\ rq[r] \in StatsQueries =>
             /\ TotalFits(PageAfterError(r)) /\ IPsFit(PageAfterError(r))
             /\ UAsFit(PageAfterError(r))
        /\ rq[r] = "recent" =>
             /\ TotalFits(PageAfterError(r)) /\ IPsFit(PageAfterError(r))
             /\ UAsFit(PageAfterError(r)) /\ RecentFits(PageAfterError(r))
    BY <1>a, <2>1, ErrorFits
  <2>3. \/ rq[r] \in {"topIPs", "topUAs"} /\ AfterError(r) = "total"
        \/ rq[r] \in StatsQueries /\ AfterError(r) = "recent"
        \/ rq[r] = "recent" /\ AfterError(r) = "render"
    BY <2>1 DEF AfterError, AfterCharts, Queries, StatsQueries
  <2> QED
    BY <2>1, <2>2, <2>3 DEF Plausible, HasTotal, HasIPs, HasUAs, HasRecent
<1>7. CASE Crash
  <2>1. page'[r] = NoPage /\ rq'[r] = "idle"
    BY <1>7, <1>a DEF Crash
  <2> QED
    BY <1>b, <2>1 DEF Plausible, HasTotal, HasIPs, HasUAs, HasRecent
<1>8. ASSUME NEW x \in Readers, x # r, Read(x) PROVE UNCHANGED <<rq[r], rst[r], page[r]>>
  BY <1>8, <1>a DEF Read, Open, RLock, Query, LastRow, Fail, Render, GoTo
<1>9. ASSUME NEW v \in Visitors, Record(v) PROVE UNCHANGED <<rq[r], rst[r], page[r]>>
  BY <1>9 DEF Record, Arrive, Lock, Begin, Exec, Commit, Abort, Disconnect, readVars
<1>10. UNCHANGED vars => UNCHANGED <<rq[r], rst[r], page[r]>>
  BY DEF vars, readVars
<1> QED
  BY <1>1, <1>2, <1>3, <1>4, <1>5, <1>6, <1>7, <1>8, <1>9, <1>10 DEF Next, Read

LEMMA PlausibleAlways == Spec => []PlausibleInv
<1>1. Init => PlausibleInv
  <2>1. Init => StatsAreSnapshot
    BY DEF Init, StatsAreSnapshot, Readers
  <2> QED
    BY <2>1, LedgerInit, PlausibleInit DEF PlausibleInv
<1>2. PlausibleInv /\ [Next]_vars => PlausibleInv'
  <2> SUFFICES ASSUME PlausibleInv, [Next]_vars PROVE PlausibleInv'
    OBVIOUS
  <2>1. LedgerInv'
    BY LedgerStep DEF PlausibleInv
  <2>2. StatsAreSnapshot'
    BY SnapshotStep DEF PlausibleInv, LedgerInv
  <2>3. SumsOK'
    BY RowsGrow DEF PlausibleInv
  <2>4. \A r \in Dashboards : Plausible(r)'
    BY <2>1, PlausibleStep
  <2> QED
    BY <2>1, <2>2, <2>3, <2>4 DEF PlausibleInv
<1> QED
  BY <1>1, <1>2, PTL DEF Spec

\* A page that mixes three states of the database is plausible: it is read in an
\* order in which each number is later than what it has to bound.
THEOREM PagesArePlausible == Spec => []PagePlausible
<1>1. PlausibleInv => PagePlausible
  BY DEF PlausibleInv, Plausible, PagePlausible, HasTotal, HasIPs, HasUAs, HasRecent,
     TotalFits, IPsFit, UAsFit, RecentFits
<1> QED
  BY <1>1, PlausibleAlways, PTL

-----------------------------------------------------------------------------
(* The database implements the ledger *)

\* The instance has its own copy of the operator of FiniteSets.
LEMMA SameCardinality == \A S : Ledger!Cardinality(S) = Cardinality(S)
  BY Zenon DEF Ledger!Cardinality, Cardinality

LEMMA BalancedIsTally ==
  ASSUME NEW rows \in Rows, Balanced(rows)
  PROVE  [ips |-> rows.ips, uas |-> rows.uas, total |-> rows.total]
           = Ledger!Tally(rows.log)
<1> DEFINE tally == Ledger!Tally(rows.log)
<1>1. rows.ips = tally.ips
  <2>1. tally.ips = [i \in IPs |-> Ledger!Cardinality({q \in rows.log : q.ip = i})]
    BY DEF Ledger!Tally
  <2>2. \A i \in IPs : rows.ips[i] = tally.ips[i]
    BY <2>1, SameCardinality DEF Balanced
  <2> QED
    BY <2>1, <2>2 DEF Rows
<1>2. rows.uas = tally.uas
  <2>1. tally.uas = [u \in UserAgents |-> Ledger!Cardinality({q \in rows.log : q.ua = u})]
    BY DEF Ledger!Tally
  <2>2. \A u \in UserAgents : rows.uas[u] = tally.uas[u]
    BY <2>1, SameCardinality DEF Balanced
  <2> QED
    BY <2>1, <2>2 DEF Rows
<1>3. rows.total = tally.total
  BY SameCardinality DEF Balanced, Ledger!Tally
<1>4. tally = [ips |-> tally.ips, uas |-> tally.uas, total |-> tally.total]
  BY DEF Ledger!Tally
<1> QED
  BY <1>1, <1>2, <1>3, <1>4

LEMMA LedgerInitMaps == Init => Ledger!Init
<1> SUFFICES ASSUME Init PROVE Ledger!Init
  OBVIOUS
<1>1. Calls = {} /\ db.log = {}
  BY DEF Init, Calls, NoRows
<1>2. db \in Rows /\ Balanced(db)
  BY NoRowsTyped, LedgerInit DEF Init, LedgerInv
<1> QED
  BY <1>1, <1>2, BalancedIsTally DEF Ledger!Init, Counts

LEMMA LedgerStepMaps ==
  LedgerInv /\ LedgerInv' /\ [Next]_vars => [Ledger!Next]_(Ledger!ledgerVars)
<1> SUFFICES ASSUME LedgerInv, LedgerInv', [Next]_vars
             PROVE  Ledger!Next \/ UNCHANGED <<Calls, db.log, Counts>>
  BY DEF Ledger!ledgerVars
<1>a. /\ wpc \in [Visitors -> {"idle", "lock", "begin", "commit"} \cup Statements]
      /\ req \in [Visitors -> Requests \cup {NoRequest}]
      /\ \A v \in Visitors : wpc[v] # "idle" => req[v] \in Requests
      /\ Ledger!Requests = Requests
  BY DEF LedgerInv, LocksInv, TypeOK, VisitorsOK, Ledger!Requests, Requests
<1>1. ASSUME NEW v \in Visitors, Arrive(v) PROVE Ledger!Next
  <2>1. /\ UNCHANGED db /\ wpc[v] = "idle" /\ wpc'[v] = "lock"
        /\ req'[v] \in Requests /\ req'[v].ts = clock + 1
        /\ \A w \in Visitors \ {v} : wpc'[w] = wpc[w] /\ req'[w] = req[w]
    <3>1. wpc' = [wpc EXCEPT ![v] = "lock"] /\ wpc[v] = "idle" /\ db' = db
      BY <1>1 DEF Arrive, rowVars
    <3>2. PICK i \in IPs, u \in UserAgents :
            req' = [req EXCEPT ![v] = [ip |-> i, ua |-> u, ts |-> clock']]
      BY <1>1 DEF Arrive
    <3>3. clock' = clock + 1 /\ clock' \in 1 .. MaxRequests
      BY <1>1, DataAssumption DEF Arrive, LedgerInv, LocksInv, TypeOK
    <3> QED
      BY <1>a, <3>1, <3>2, <3>3 DEF Requests
  <2>2. req'[v] \notin Calls \cup db.log
    BY <2>1, DataAssumption DEF Calls, LedgerInv, CallsOK, LocksInv, TypeOK
  <2>3. Calls' = Calls \cup {req'[v]}
    BY <2>1 DEF Calls
  <2>4. Ledger!Call(req'[v])
    BY <2>1, <2>2, <2>3 DEF Ledger!Call, Counts
  <2> QED
    BY <1>a, <2>1, <2>4 DEF Ledger!Next
<1>2. ASSUME NEW v \in Visitors, Commit(v) \/ Abort(v) PROVE Ledger!Next
  <2>1. /\ wpc[v] # "idle" /\ wpc'[v] = "idle"
        /\ \A w \in Visitors \ {v} : wpc'[w] = wpc[w] /\ req'[w] = req[w]
    BY <1>a, <1>2 DEF Commit, Abort, Return, Statements
  <2>2. \A w \in Visitors \ {v} : wpc[w] # "idle" => req[w] # req[v]
    BY <2>1 DEF LedgerInv, CallsOK
  <2>3. req[v] \in Calls /\ Calls' = Calls \ {req[v]}
    BY <2>1, <2>2 DEF Calls
  <2>4. CASE Commit(v)
    <3>1. db'.log = db.log \cup {req[v]}
      BY <2>4, CommitRecords
    <3>2. Counts' = Ledger!Tally(db'.log)
      BY BalancedIsTally DEF LedgerInv, LocksInv, TypeOK, Counts
    <3>3. Ledger!Record(req[v])
      BY <2>3, <3>1, <3>2 DEF Ledger!Record
    <3> QED
      BY <1>a, <2>1, <3>3 DEF Ledger!Next
  <2>5. CASE Abort(v)
    <3>1. Ledger!Reject(req[v])
      BY <2>3, <2>5 DEF Ledger!Reject, Abort, Counts
    <3> QED
      BY <1>a, <2>1, <3>1 DEF Ledger!Next
  <2> QED
    BY <1>2, <2>4, <2>5
<1>3. ASSUME NEW v \in Visitors, Lock(v) \/ Begin(v) \/ Exec(v) \/ Disconnect(v)
      PROVE  UNCHANGED <<Calls, db.log, Counts>>
  <2>1. /\ UNCHANGED <<db, req>>
        /\ \A w \in Visitors : wpc'[w] = "idle" <=> wpc[w] = "idle"
    BY <1>a, <1>3 DEF Lock, Begin, Exec, Disconnect, rowVars, Statements, NextStage
  <2> QED
    BY <2>1 DEF Calls, Counts
<1>4. ASSUME NEW r \in Readers, Read(r) PROVE UNCHANGED <<Calls, db.log, Counts>>
  <2>1. UNCHANGED <<db, req, wpc>>
    BY <1>4 DEF Read, Open, RLock, Query, LastRow, Fail, Render, rowVars, recordVars
  <2> QED
    BY <2>1 DEF Calls, Counts
<1>5. CASE Crash
  <2>1. Calls' = {} /\ db' = db
    BY <1>5 DEF Crash, Calls
  <2> QED
    BY <2>1 DEF Ledger!Next, Ledger!Crash, Counts
<1>6. CASE UNCHANGED vars
  BY <1>6 DEF vars, rowVars, recordVars, Calls, Counts
<1> QED
  BY <1>1, <1>2, <1>3, <1>4, <1>5, <1>6 DEF Next, Record

\* RecordRequest is atomic: every behaviour of the locks, statements and
\* faults of the database is a behaviour of the ledger.
THEOREM DatabaseImplementsLedger == Spec => ImplementsLedger
<1>1. Init => Ledger!Init
  BY LedgerInitMaps
<1>2. LedgerInv /\ LedgerInv' /\ [Next]_vars => [Ledger!Next]_(Ledger!ledgerVars)
  BY LedgerStepMaps
<1> QED
  BY <1>1, <1>2, LedgerAlways, PTL DEF Spec, ImplementsLedger, Ledger!Spec

=============================================================================
