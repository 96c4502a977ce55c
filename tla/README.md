# A TLA+ model of gospidertrap

gospidertrap is an HTTP server that answers every request with a page of random
links and keeps statistics about who asks. This directory holds TLA+ modules
that model its stateful parts, TLC configurations that check them on small
instances, and TLAPS proofs of the properties that matter most.

All definitions are translated from the Go source; each one is listed with its
lines in `PROJECT.json` under `map`. Definitions marked *external* there stand
for code outside the repository (`sync.RWMutex`, `golang.org/x/time/rate`,
`time.Ticker`), modelled as the source uses it.

## 1. The system

| component | source | state | operations |
|---|---|---|---|
| SQLite statistics | `internal/stats/database.go` | request log, two count tables, a stats row; an RWMutex; a pool of one connection | RecordRequest (one transaction), GetStats, GetRecentRequests, GetTopIPs, GetTopUserAgents |
| statistics manager | `internal/stats/manager.go` | in file mode the `Stats` in memory | RecordRequest, GetChartData, GetStats, GetRecentRequests: the database, or memory |
| file persistence | `main.go` 150-332, 482-503, 561-634 | requests.ndjson, stats.json, the goroutine of the periodic save | appendRequestToLog, saveStats, loadStats, start and stop of the periodic save |
| migration | `internal/stats/migration.go` | both files and the database | MigrateFromFiles at every start in database mode |
| rate limiter | `internal/ratelimit/limiter.go`, `internal/middleware/ratelimit.go` | a table of token buckets under a mutex, a ticker, a stop channel | Allow, the cleanup goroutine, Stop |
| admin pages | `internal/admin/handler.go`, `auth.go`, `renderer.go` | one token and one secret path for each run; a cookie in the browser | HandleLogin, HandleUI, HandleChartData; a script that fetches the charts |
| server | `internal/server/server.go` | the listener | Start, Shutdown, GracefulShutdown: signal, cleanup, then Shutdown with five seconds |
| trap handler | `internal/handler/request.go` | none | record, delay, answer; gives up when the context is cancelled |
| content, random source | `internal/content`, `internal/random` | a mutex around crypto/rand | a page of random links, or a template with its links replaced |
| middleware | `internal/middleware` | none | recovery from panics, body limit, rate limit, in this order from the outside |
| client address | `internal/stats/ip.go` | none | the address from the headers of a trusted proxy or from the connection |
| console, logging, start-up | `internal/ui`, `internal/logging`, rest of `main.go` | none | flags, input files, text |

Every request runs in a goroutine of its own through the middleware into the
trap handler or an admin handler. These goroutines, the cleanup goroutine of
the limiter, the periodic save and the main goroutine meet at four places: the
RWMutex of the database and its only connection, the RWMutex of the statistics
in memory, the mutex of the limiter's table, and the files of the data
directory. State that outlives the process is the database, requests.ndjson and
stats.json.

### What is hard here, and what makes each part correct

* **Database.** Four statements and a commit may fail or be cut off anywhere by
  a cancelled context or a crash; log and counts must still agree. A page is
  made of three calls with three locks. One connection and a lock that is not
  reentrant make every forgotten release, and every nested one, fatal.
* **Limiter.** The bucket is looked up under the mutex and used after it. An
  address must not gain tokens from the cleanup; the table must stay within its
  capacity and yet make room again.
* **File mode.** Copies are taken while requests are recorded; two savers write
  one file, in place; cleanup runs before the listener closes. Total, maps and
  list must be of the same requests in whatever a restart can load.
* **Migration.** It is not one transaction, runs at every start, and file mode
  may come back. No logged request may be lost, and none counted twice; the
  start time must survive, in whatever zone the clock was.
* **Reads in memory.** Three read locks make one page; under the first, two maps
  are copied in any order, sorted by exchanges and cut. Each read must be of one
  moment, and the three must fit together.
* **Admin.** A page needs the token of this run; browsers keep the cookies,
  addresses, pages and late answers of earlier ones. Whoever has the token must
  get in, nobody else, and no page may show the data of another run.
* **Chain and shutdown.** Every page draws from one source of random numbers and
  its mutex, a hanging handler must not keep the process alive, and the database
  must not be closed under a handler that runs. Limiter and statistics must mean the same address.

`PROJECT.json` lists these dangers one by one, at the line where each bites and
with the properties that guard against it.

## 2. The modules

| module | models | kind |
|---|---|---|
| `RWMutex` | Go's `sync.RWMutex`, with its announced writer | part of a composition |
| `RequestLedger` | what RecordRequest promises: all or nothing, in one step | abstract specification |
| `StatsDatabase` | `database.go`, the database branches of `manager.go`, and the reads of the admin handlers | detailed specification |
| `StatsDatabaseProofs` | theorems about it | proofs |
| `TokenBuckets` | what the limiter is for: a bucket for each address, for ever | abstract specification |
| `RateLimiter` | `limiter.go` and the middleware that calls it | detailed specification |
| `RateLimiterProofs` | theorems about it | proofs |
| `MemoryStats` | the statistics in memory and what recording does to them | operators |
| `FileStats` | file mode: log file, both savers, restarts, shutdown | specification |
| `FileStatsProofs` | theorems about it | proofs |
| `Migration` | MigrateFromFiles over several starts in both modes | specification |
| `MigrationProofs` | theorems about it | proofs |
| `MemoryReads` | what the reads of a page promise in file mode: each at one instant, charts that are the top of the counts | abstract specification |
| `MemoryPage` | the same reads with lock, copy, exchange sort and cut, and recording at the same time | detailed specification |
| `MemoryPageProofs` | theorems about it | proofs |
| `AdminSession` | signing in: token, path, cookie, query parameter, over several runs and tabs | specification |
| `AdminSessionProofs` | theorems about it | proofs |
| `Server` | recovery, rate limit, routes, trap handler, page of links, random source, signals, graceful shutdown | composition |
| `ServerProofs` | theorems about it | proofs |
| `CountSums` | lemmas about the sum of the counts in a map, used by three of the proof modules | proofs |
| `MC...` | the models TLC checks; the `.cfg` files give the constants | model checking |

Operators whose comment begins with *Mutation* are not part of the
specifications. Each is a plausible error in the definition that follows it and
shows that a property tells the code from its faulty variant; which property
catches which is in `PROJECT.json` under `mutants`.

### StatsDatabase

`writer`, `holds`, `parked` are the state of the RWMutex (`RWMutex` is
instantiated as `Mu`), `conn` is who has the pool's connection, `db` the
committed rows and `tx` what the open transaction sees. A visitor goes through
`Arrive` (manager.go takes the time), `Lock`, `Begin`, four `Exec`, and
`Commit` or `Abort`; `Disconnect` cancels its context at any moment. A
cancelled context makes `Begin`, `Exec` and `Commit` impossible and leaves
`Abort`, which is also open to every visitor (a statement may fail at any time,
for instance on the CHECK constraints of the schema). The abstract `Lock` has
no such exit: `sync.RWMutex` knows no contexts.

A dashboard is the goroutine of HandleUI, a chart that of HandleChartData. `rq`
names the query a reader is in; the locking calls are those of the five
methods, with GetStats calling GetRecentRequests under its own read lock.
`LastRow` and `Fail` end a query well or badly; `PageAfterError` is what the
manager then puts on the page. A `Crash` keeps `db` alone.

### RateLimiter

`table` and `tokens` are the map and its buckets, identified so that a bucket
can be in a goroutine's hand and no longer in the map. `Lookup` is the part of
Allow under the mutex (`Found`, `Track` or `AtCapacity`), `Decide` the part
after it. A sweep is one step for each entry and keeps the mutex throughout.
`spent` counts the tokens an address got since the last unit of time, `late`
those that came from a bucket the cleanup had removed.

### FileStats

`mem` is `Stats`; the count maps are functions that are 0 outside the map.
`MemoryStats` has the statistics and `Recorded`, what RecordRequest makes of
them; `MemoryPage` uses the same operators. `file` is stats.json: absent, torn
(whatever `json.Unmarshal` rejects), or the statistics it holds. Both savers go through `BeginCopy` and `EndCopy` (the read
lock, which keeps `Record` out), `OpenFile` (os.WriteFile truncates) and
`WriteData`; `OpenFails` and `WriteFails` are the errors. `over` knows whose
file has been written by the other saver since it was opened: the rest of a
longer text may then stay behind the shorter one. `main` follows the main
goroutine through `Signal`, `FinalSave`, `CloseListener` and `Exit`.

### Migration

A line of `log` is the request it holds and what its text is: whole, larger
than the database's columns allow, longer than bufio.Scanner takes, torn (also
one that is too long already), or spoilt by being appended to a torn one, unless
the two are too long together (`Joined`). A time is a moment and the offset of
the clock it was read from; a start in either mode may find another offset. The
driver stores times as text, local date and time first, and SQLite compares the
texts: `TextAfter`, external, is that comparison, and `MigrateStats` uses it as
the UPDATE does. `backup` is requests.ndjson.migrated, which `RenameLog`
replaces. Runs in file mode (`AppendLine`,
`SaveStats`) and starts in database mode (`OpenLog` to `RenameStats`) take
turns; `Stop` ends a run of either kind at any step. `cut` counts the
migrations that began and have not renamed the log.

### MemoryPage

`serves` is the handler a reader runs, `rpc` the step it is about to take:
`RLock` before each of the three calls, then `CopyIPs`, the loops of the sort
(`Compare` is one turn of the inner one, `NextRow` its end; `row` and `col` are
`i` and `j`), `CopyUAs`, the same loops again and `ReturnCharts`; then GetStats
and GetRecentRequests, which are one step each under their lock. A copy takes
the entries of a map in any order, as `range` does. The chart of the addresses
waits in `top` until the call returns. A handler reads the clock (`Arrive`)
before it takes the lock. The program starts with empty statistics or with what
`loadStats` finds.

`MemoryReads` has neither lock nor list: `ChartData` picks any of the `TopLists`
of the counts as they are. `ReturnCharts`, `GetStats` and `GetRecentRequests`
map to its reads, `Record` to its Record, and all the sorting to stutters.

### AdminSession

Run `n` of the program has the token and the path number `n`: that random
strings differ is assumed. `jar` is the cookie of the browser, shared by its
tabs; `net` is what each tab waits for or was answered, so that answers arrive
late, in another order than they were given, and in another run. `Receive` is
the browser: it stores the cookie, follows the redirect of HandleLogin, and runs
the script of the admin page, which fetches `/data` with the cookie alone
(renderer.go:209). SameSite=Strict keeps the cookie from a navigation that
began on another site (`elsewhere`). A path of an earlier run is served by the
trap (`Trap`), as the mux of this run does not know it. `known` is what the
operator has read off the console; requests carry tokens of it and cookies the
handlers gave out. `calm` is a history variable for the last line of
`TokenAdmits`, which says when the charts of a page may be refused after a login:
the tabs for which the program was not restarted, and the cookie neither expired
nor was replaced by another run's, since their address was opened. That the page
itself is admitted is said of all tabs.

### Server

The chain as one composition, with the limiter and the database reduced to
their answers, which their own modules describe: `Allow` or `Refuse`;
`RecordRequest` records, fails, or, once `Gridlock` has happened, never
returns. `Drawn` is a draw under the mutex of the random source: the number of
links first, then one for each link (a random string is several draws; they are
the same step again). `Panic` is the panic in Intn, `RecoverPanic` the
outermost middleware. `main` goes through GracefulShutdown: `Cleanup`,
`Shutdown` (closes the listener), then `Drained` or `Timeout`; the former
returns to main and its deferred calls (`CloseDatabase`), the latter is
`os.Exit`, as is `ListenFails`. Go 1.24, which go.mod:3 asks for, never takes the
branch of `Panic`; the step adds behaviours and no property rests on it. `signal` is the channel with one place; a
second signal during cleanup waits in it, a third is dropped.

## 3. The runs

| run | checks | result |
|---|---|---|
| `database` | types; log and counts agree; GetStats reads one state; a rendered page is plausible; the gridlock is the only deadlock; the ledger is implemented; recordings and pages return unless gridlocked | holds, 226k states |
| `database_gridlock` | a cancelled recording returns (database.go:136-139) | **violated** |
| `limiter` | types; capacity; tokens accounted for; the ideal buckets are implemented; Allow returns; quiet addresses leave; the cleanup goroutine ends | holds, 34k states |
| `limiter_burst` | no address gets more than a burst at once (limiter.go:30) | **violated** |
| `files` | types; total, maps and list agree everywhere; the log covers them; what is counted reaches stats.json; after a signal the process ends, with what was counted by then in the final snapshot | holds, 102k states |
| `files_final` | the final snapshot stays (main.go:626) | **violated** |
| `migration` | types; nothing lost; imports accounted for; migrations end | holds, 400k states |
| `migration_once` | a logged request is counted once (migration.go:165) | **violated** |
| `memory_page` | types; the reads of a page are implemented; they add up; recordings and pages return | holds, 111k states |
| `admin` | types; only who read the token is shown pages; charts are of their page's run; sessions stay; a right token opens its page | holds, 482k states up to symmetry |
| `admin_once` | the login link admits once (README.md:93) | **violated** |
| `server` | types; the database is closed after its last use; what is recorded was admitted; pages have their links; requests end; the process ends after a signal | holds, 225k states |

### Further configurations

These are not among the runs of `PROJECT.json`; `tlc -config X.cfg MCY.tla`
checks them. Four ask for a promise that the code breaks, each in one property;
the others are the runs above, on instances that show a part of them better.

| configuration | of | checks | result |
|---|---|---|---|
| `MigrationBackup.cfg` | `MCMigration` | `OriginalsKept`: a logged request is in the log or in its backup (migration.go:52) | **violated** |
| `MigrationZone.cfg` | `MCMigration` | `StartPreserved`: the start time of stats.json is preserved (migration.go:164) | **violated** |
| `MemoryPageRecent.cfg` | `MCMemoryPage` | `MostRecentFirst`: the recent list is ordered, most recent first (manager.go:254) | **violated** |
| `AdminSessionQuery.cfg` | `MCAdminSession` | `QueryTokenSetsCookie`: a page opened with a token and no cookie gets the cookie (handler.go:139) | **violated** |
| `MemoryPageOrder.cfg` | `MCMemoryPage` | `RecentNearlyOrdered`: the recent list is ordered but for handlers at work | holds, 37k states |
| `MemoryPageCharts.cfg` | `MCMemoryPage` | `memory_page` without liveness, three user agents and two places for them | holds, 147k states up to symmetry |
| `MemoryPageReturns.cfg` | `MCMemoryPage` | `CallsReturn` with two readers | holds, 65k states |
| `FileStatsMaps.cfg` | `MCFileStats` | `files` with two user agents and one place for them | holds, 353k states |

### Bounds

* `database`: two visitors compete for lock and connection; a dashboard makes
  all the queries there are, with a writer between the two locks of GetStats.
  Three requests from two addresses make a chart choose (`TopItems` 1) and a
  list cut (`RecentLimit` 2). `HandleChartData` is the first call of a
  dashboard. Errors, cancellations and crashes come anywhere.
* `limiter`: more addresses than places, two calls; a bucket of two tokens can
  be full, used and empty. The buckets are those in the table and those in the
  hands of calls, so `Fresh` is never empty when `Track` wants one.
* `files`: two handlers and both savers, a list of one, over any number of
  restarts. There is room for the address and none for the user agent: every
  request is counted in the one map and refused by the other, so that a total,
  a map and a list that belong to different moments differ. `FileStatsMaps.cfg`
  has the map of user agents fill up in the course of a run.
* `migration`: two requests, four starts: enough for file mode, database mode
  and both again, with two lines before or behind each other in one log. Two
  zones two hours apart, and moments one hour apart, so that text and moment
  can disagree.
* `memory_page`: three addresses, a chart of two and up to five requests (three of
  them loaded, so that there are counts like 2, 2, 1) make the second round of the
  sort matter to the cut; with less, a sort that skips it goes unnoticed. A list
  of four is shown in part (`RecentLimit` 3), and pushes an entry out. It has one
  user agent and one reader. `MemoryPageCharts.cfg` has a chart of user agents to
  sort, and their map full; `MemoryPageReturns.cfg` has two readers, one of which
  can hold the lock while a writer waits and keeps the other out.
* `MemoryPageOrder.cfg`: five requests by two handlers, more than the number by
  which one entry may be overtaken, in a list that forgets the oldest.
* `admin`: two tabs and two runs, so that cookies, pages and answers of the first
  meet the second, and answers of one tab the requests of the other.
* `server`: two handlers, one in the hands of the other's mutex, address or
  shutdown; pages of one or two links; a proxy whose header names another
  address than the connection's.
* `MaxRequests`, `MaxRuns`, `MaxStarts` and `MaxLoaded` bound what ever arrives;
  the other counters are bounded by them. No state constraint is used. Symmetry
  is used in `admin` and `MemoryPageCharts.cfg`, which have no liveness property.

`Migration`, `AdminSession` and `Server` really stop (after the last start or
run; when the process has ended): deadlock is not checked there. It is checked
in all other runs and configurations.

### Fairness

* Goroutines that can run do run: weak fairness of every step of a handler, a
  reader, a saver, a sweep or the main goroutine that needs nobody else. Steps
  no property needs have none: in `FileStats` handlers may stop anywhere.
* A goroutine that waits for a lock or for the connection gets it if it is free
  again and again: strong fairness of `Lock`, `Query`, `Lookup`, `LockSource`.
  Go's mutexes hand over to a waiter after one millisecond, `RWMutex` keeps new
  readers out while a writer waits, and the pool serves in the order of arrival.
* Where `select` has a choice nothing is asked of it: the periodic saver may
  prefer its tick to the cancelled context, and the cleanup goroutine finds no
  tick once Stop has stopped the ticker.
* Time passes and tickers tick: weak fairness of `Refill` and `Tick`; the
  deadline of Shutdown passes: weak fairness of the main goroutine in `Server`.
* The disk does not fail for ever: strong fairness of the periodic saver's
  `OpenFile` and `WriteData`, used by `StatsReachFile` alone.
* Nothing makes a client send, hang up or reload, the process crash, or a
  signal come.

### What the violated properties show

* `CancelledRecordReturns`: GetStats calls GetRecentRequests under its own read
  lock (database.go:265, 283). When a RecordRequest announces itself in between
  (:141), the second RLock waits for the writer and the writer for the first.
  From then on no request is recorded and no page is made: the
  theorem `OnlyRestartEndsGridlock` says that only a restart ends it, and
  `NoOtherDeadlock` that it is the only deadlock of lock and connection.
* `BurstPerIP`: a call takes its token from a bucket that the cleanup removed
  after the lookup (limiter.go:67-69, 96-97). Such tokens are the `late` ones;
  `Accounted` and `ImplementsBuckets` show that they are the only excess.
* `FinalSnapshotStays`: stopPeriodicSave does not wait. A periodic save that is
  under way can overwrite the final snapshot with an older one, or leave the
  file empty when the process ends.
* `OneTimeLink`: HandleLogin keeps no record of the tokens it has seen.
* `ImportedOnce`: the log is renamed only after its last line. A crash before,
  a failed rename or an over-long line make the next start import it again.

In the further configurations:

* `OriginalsKept`: openLogFile creates requests.ndjson at every start in file
  mode, and os.Rename replaces what has the name of the backup. The second
  migration puts its log, an empty one too, in the place of the first backup.
  What `NothingLost` counts as reported and backed up is then in no file.
* `StartPreserved`: stats.json was written by a clock of one zone, the row by one
  of another (summer time, another `TZ`). The UPDATE compares local times, finds
  the text of the row smaller and keeps it, though its moment is the later one.
* `MostRecentFirst`: the timestamp is read before the lock (manager.go:55, :75).
  `RecentNearlyOrdered` is what remains of the promise: below how many older
  entries one may stand.
* `QueryTokenSetsCookie`: without a cookie the query token already passes
  IsAuthenticated (auth.go:138), so the branch of HandleUI that would set the
  cookie (handler.go:138-141) is only reached by a request whose cookie is
  outdated. The page is shown, its script is refused its data.

One property allows what a reader may not expect: `SessionKept` lets a late
answer of an earlier run take the newer cookie away, as the code does.
`TokenAdmits` says what that may lead to: never to "Access Denied" in place of the
page, at most to charts that are refused. Its one exception, a login link
followed from another site, does end at "Access Denied" even with the right
token, because SameSite=Strict keeps the cookie from the redirect. After a
restart the addresses of the last run count as visits to the trap.

## 4. The proofs

All proofs are checked by TLAPS to the last leaf, for every value of the
constants that the named assumptions admit (finite sets of addresses and user
agents; positive bucket size; no goroutine is both a reader and a visitor; in
`MemoryPage` finitely many handlers, and at least one).

**CountSums.** `SumFunction` of the community modules folds over a set by a
recursive function. `SumEquation` gives the equation that a sum satisfies, and
from it come the facts the proofs use: the sum of one more (`SumCounted`), of a
larger map (`SumMonotone`), of a part (`SumOfSelection`), and that a map has no
more keys than it has counted (`SumCoversKeys`). They need an induction over
sets, which the provers cannot apply with the property as a parameter; it is
done by looking at the smallest subset for which the fact would fail
(`SmallestSubset`, from the well-foundedness of the strict subset order).

**StatsDatabase.** `LocksInv` says who holds the lock and the connection: the
types, `ReadersOK` (a reader inside a query holds the read lock once, in the
last call of GetStats possibly twice), `VisitorsOK` (at most one visitor is
past `Lock`, it is the announced writer, and with the connection it excludes
readers) and that the logs are finite. It is inductive by itself. `LedgerInv`
adds `TxOK` (what the open transaction has done so far, statement by statement,
over `db`), `CallsOK` (requests under way are distinct, younger than the clock
and not in the log) and the balance of `db`. From these:

* `LedgerStaysBalanced`: `db` changes only in `Commit`, where `TxOK` says that
  `tx` is `db` with one request added everywhere.
* `StatsAreOneSnapshot`: between its first query and its return GetStats holds
  the read lock, so by `VisitorsOK` nobody can commit.
* `DatabaseImplementsLedger`: `Commit` maps to Record, `Arrive` to Call,
  `Abort` to Reject, `Crash` to Crash, everything else to a stutter.
* `PagesArePlausible`: `Plausible` says for every query of a dashboard what the
  answers so far bound (`Bounded`: no chart adds up to more, or has more bars,
  than the rows have now). Rows only grow (`RowsGrow`), so each answer is bounded
  by the later ones; the sums of the count tables are the total (`SumsOK`,
  preserved by `Commit` alone), a chart is a part of its table, and `PageAfterError`
  replaces a failed call by numbers that contradict nothing.
* `GridlockIsOnlyDeadlock`: by `LocksInv` whoever has the connection is inside a
  statement or its rows and waits for nobody; if nobody has it, the announced
  writer waits at most for a reader with its lock, and unless that one is parked
  (the gridlock) it moves. For this invariant no fairness is assumed: it is the
  half of `CallsReturn` that can be proved here.
* `OnlyRestartEndsGridlock`: a parked reader that holds a lock is at the nested
  call of GetStats, so no visitor is in its transaction or has the lock to
  itself, and no `Unlock` can wake the reader.

**RateLimiter.** The inductive invariant joins the types with `BucketsApart`
(no two addresses share a bucket, and the bucket a deciding call has in hand is
in no other address's place of the table), `SweepOK` (what is left to sweep is
tracked), `LateSpent` (`late` is at most `spent`) and `Accounted`. `BucketsApart` is the heart: a token a call takes
comes from the bucket of its own address or from nobody's, so removing a full
bucket is not visible. From it `TokensAccounted`, `CapacityKept` and
`LimiterImplementsBuckets`.

**FileStats.** The inductive invariant joins the types, `LogCoversStats` and
`CountsConsistent` with `CopyOK` (a saver that holds the read lock has copied the
total of the maps it is about to copy), `HandlersOK` (a serving handler has a
request; without a process there is none) and `FinalOK` (the main goroutine passes
cleanup only after the final save). `LogComplete` rests on the order in
handleRequest: `AppendLine` adds the line before `Record` adds to the total, so
that the handlers in between make up the difference. `CountsAgree` needs
`CopyOK`: without the lock the total of a copy could be of an earlier moment
than its maps and list. In `Record` a map counts the request unless it is full
and the key is new, and once it is full it stays full.

**Migration.** `LinesOK` (no two lines are of the same request; a torn line is
of a request whose writing failed), `ScanOK` (the lines before the scanner are
imported or reported), `TurnsOK` (the current migration has not imported what
the scanner will read, so that its lines have at most `cut - 1` imports) and
`FilesThere`, with the types and `NothingLost`, are inductive. `NothingLost` can
only be disturbed by `RenameLog`, where `ScanOK` covers the whole log;
`ImportsAccounted` follows from `TurnsOK`. The two broken promises of this module
have no theorem; `NothingLost` is proved without looking at the backup.

**MemoryPage.** The inductive invariant is `TypeOK` with `SortOK` and `LocalOK`.
`LocalOK` says that a handler at work has a request and a reader at work serves
one of the two pages. `SortOK` says that a reader that sorts holds the read lock,
so that its list is still a copy of the map (`IsCopy`: every key once, with its
count), and `top` the chart of the addresses (`IsTop`); and it has the loop
invariant `SortedUpTo`: the rows before `row` are in order and above all that
follow, and entry `row` is the largest of those compared with it.
`ExchangeCopies` shows that an exchange keeps a copy a copy, `CompareSorts` that
a turn keeps the loop invariant, `CutIsTop` that the
cut of a sorted copy is one of the `TopLists`. `ReadsAtomic` is then the
refinement: `ReturnCharts` is `ChartData` with that list as its witness. No
induction over data is needed, for the loops are steps of the specification.

Three more invariants stand on that one.
* `OrderOK`, for `RecentOrderKept`: an entry of the list was overtaken, or can
  still be, by handlers that were at work on an older request when it was
  appended. No history variable is needed: the entries behind it that are older
  and the handlers still at work on an older request are together fewer than the
  handlers there are, since whoever is at work afterwards has read the clock
  later. When the list is cut at its front, nothing changes behind an entry.
* `CountsOK` and `AnswersOK`, for `PagesAddUp`: the maps have not counted more than
  the total, the list is as long as the total says, and what a page was answered
  before bounds what it is answered next, because the statistics only grow
  (`StatisticsGrow`). `TopFits`: a chart adds up to no more than its map.
* `LocksOK`, for `NeverDeadlocked`: who holds the read lock is past its RLock and
  never parked, so that the announced writer waits for readers that move.

**AdminSession.** Five invariants, each inductive over the types. `TokensRead`:
every token the browser holds or sends was read by the operator, and what is
granted was asked for with such a token (`AdmittedHaveRead`). `FetchesOwnPath`:
the script of a page asks on the path the page came from, and only the run of
that path answers with data (`ChartsMatchPage`). `OwnCookies`: a handler gives
out the token of its own run or none (`SessionStays`). `PagesReached`: a tab
whose address has the token of this run is at every moment on its way to the
page, whatever has become of the cookie: with the token in its query, or behind
a redirect that has just set the cookie, or with the page on show. `LinksFollowed`:
a calm tab whose address has the right token sends it with every request, in the
address or, behind the login's redirect, in the cookie. The last two give
`ValidTokenAdmits`.

**Server.** `DatabaseOutlivesHandlers` needs that the listener is closed once
main is past `Shutdown`, so that no handler starts after `Drained`.
`RecordedAreAdmitted` counts the handlers about to record for an address:
`Allow` adds one to both sides, `RecordRequest` moves one from `Recording` to
`recorded`. `PagesComplete` rests on `made < links` while a page is drawn.

The assumptions are those of the modules: limits are natural numbers, sets of
goroutines and addresses are finite where they are counted, and the values for
"no file" are neither times nor lines.

**Only model-checked.** Liveness, which is out of the prover's reach: that
recordings, pages, requests, saves, migrations and the shutdown end, that quiet
addresses leave the limiter and its goroutine stops. Every invariant and every
action property of a passing run, and every refinement, is a theorem. Three theorems
state what no run lists: `OnlyRestartEndsGridlock` and `NeverDeadlocked`, whose
formulas (`GridlockLasts`, and the `NoDeadlock` that `CallsReturn` includes) are in
the modules of proofs, and `RecentOrderKept`, whose formula `MemoryPageOrder.cfg`
checks.

## 5. Abstractions, and what is not modelled

* A crash is the end of the process, not of the machine: what was committed, or
  written to a file, stays. (With `synchronous=NORMAL` the last commits may be
  lost with the machine.)
* An error may occur wherever the code checks for one. A rollback is part of
  the step that returns.
* Tokens are whole: `rate.Limiter` counts fractions between them, which no
  decision of the code can see except through the next whole one. The unit of
  time is the time of one token.
* Times are ordered as their numbers, except where the database compares them:
  the model of the migration has the comparison of texts. The recent list of
  database mode (`ORDER BY timestamp`) is modelled by its length, not its order.
* Paths and user agents are model values; an empty user agent counts as one
  more of them, and what the schema refuses is an error of a statement.
* The unit in which a signed-in operator meets the program is one browser.
  Cookies carry no Secure flag in the model: it only decides over which scheme
  they are sent.
* A panic in Intn is modelled as the code has it; from Go 1.24 on
  `crypto/rand.Read` never returns an error, so `Server` has more behaviours than
  the program.
* The page from an HTML template (generator.go:54-56) is left out: it draws one
  link for each anchor of the template, and no number of links.
* In `Server` a connection is accepted with its request; one that is accepted and
  has sent nothing when the listener closes, which Shutdown still serves, is
  modelled in `FileStats` only (`Arrive`).
* The limiter's and the database's inside is not repeated in `Server`, nor the
  page in file mode in `FileStats`: the modules meet in the answers of the calls.
* Not modelled: rendering, logging and console text (no state); flags and input
  files (before anything runs concurrently); the regular expressions of the
  content generator, with what `$` means in a replacement, and the parsing of
  addresses and shortening of user agents (string handling); the limit on
  bodies, which no handler reads; Docker, Make and CI files.

## 6. Plan

1. Done: the database, the limiter, file mode and the migration, each with its
   proofs; then the reads in memory, the sessions of the admin pages and the
   chain with its shutdown, with theirs.
2. Done: the proofs that add up counts (`CountSums`, `CountsAgree`, `PagesAddUp`,
   `PagesArePlausible`), the order of the recent list, and the absence of
   deadlocks.
3. Proofs to come: the mutex of the random source in `Server` (that whoever
   waits for it waits for a handler that moves), and what a
   late periodic save can do to the final snapshot at most.
4. Larger instances of `server` (three handlers, a template instead of links)
   and of `admin` (three runs), where they show something new.
