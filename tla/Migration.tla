------------------------------ MODULE Migration ------------------------------
(***************************************************************************)
(* MigrateFromFiles of internal/stats/migration.go over the life of a data *)
(* directory: runs in file mode (-use-files) write requests.ndjson and     *)
(* stats.json; every start in database mode replays them into the database *)
(* and renames them.  A run of either kind may end at any step.            *)
(*                                                                         *)
(* A line of requests.ndjson is the request it holds and what its text is. *)
(* Requests served in database mode are in module StatsDatabase.           *)
(***************************************************************************)
EXTENDS Integers, Sequences

CONSTANTS
  Requests,     \* the requests that file mode serves
  Absent,       \* no such file
  Torn,         \* a stats.json that json.Unmarshal rejects
  Zones,        \* the offsets from UTC that the local clock may have at a start
  MaxStarts     \* bound of the model: starts of the program

ASSUME StartsAssumption == MaxStarts \in Nat
ASSUME ZonesAssumption == Zones \subseteq Nat /\ Zones # {}

\* A time.Time: the moment, and the zone of the clock it was read from.
Times == [at : Nat, zone : Zones]

ASSUME NoTimesAssumption == Absent \notin Times /\ Torn \notin Times /\ Absent # Torn

VARIABLES
  log,        \* requests.ndjson: Absent or its lines
  backup,     \* requests.ndjson.migrated: Absent or its lines
  stats,      \* stats.json: Absent, Torn, or the startTime it holds
  imported,   \* how many times request_log holds each request
  dbStart,    \* start_time of the stats row; Absent while there is no row
  pc,         \* where the program is
  pos,        \* the line bufio.Scanner reads next
  starts,     \* the passing of time, counting the starts of the program
  began,      \* StartTime of the run in file mode
  arrived,    \* the requests file mode has served
  logged,     \* history: the requests appendRequestToLog wrote without error
  skipped,    \* history: the requests whose line a migration passed over
  cut         \* history: the migrations that began and did not rename the log

fileVars  == <<log, backup, stats>>
dbVars    == <<imported, dbStart>>
history   == <<arrived, logged, skipped, cut>>
startVars == <<starts, began>>
vars      == <<fileVars, dbVars, pc, pos, startVars, history>>

\* What a line's text is.  "long" is one over the 64 KB that bufio.Scanner takes;
\* the columns of the database refuse "large"; "torn" and "tornLong" are parts of
\* an object without a newline, behind which the next request is written, and the
\* line is "spoilt" (or "long") then.
Kinds == {"whole", "large", "long", "torn", "tornLong", "spoilt"}

Partial == {"torn", "tornLong"}
TooLong == {"long", "tornLong"}

Lines == [req : Requests, kind : Kinds]

ASSUME NoFileAssumption == Absent \notin Seq(Lines)

On(file, r) == file # Absent /\ \E i \in DOMAIN file : file[i].req = r

-----------------------------------------------------------------------------
Init ==
  /\ log = Absent /\ backup = Absent /\ stats = Absent
  /\ imported = [r \in Requests |-> 0]
  /\ dbStart = Absent
  /\ pc = "down" /\ pos = 0 /\ starts = 0
  /\ began \in [at : {0}, zone : Zones]
  /\ arrived = {} /\ logged = {} /\ skipped = {} /\ cut = 0

-----------------------------------------------------------------------------
(* A run in file mode *)

\* What time.Now() may be at start n: later than at the one before, on a local
\* clock whose zone may have changed since (summer time, another TZ).
Now(n) == [at : {n}, zone : Zones]

\* NewStats reads the clock; openLogFile creates the log or opens it for
\* appending.
StartFiles ==
  /\ pc = "down" /\ starts < MaxStarts
  /\ starts' = starts + 1
  /\ began' \in Now(starts')
  /\ log' = IF log = Absent THEN <<>> ELSE log
  /\ pc' = "files"
  /\ UNCHANGED <<backup, stats, dbVars, pos, history>>

EndsTorn == log # <<>> /\ log[Len(log)].kind \in Partial

\* What comes of a line of this kind when it is written behind a torn one.
Joined(kind) ==
  IF kind = "long" \/ log[Len(log)].kind = "tornLong" THEN "long" ELSE "spoilt"

\* The line of r goes to the end of the file, which may be inside a line.
Written(r, kind) ==
  IF EndsTorn
  THEN [log EXCEPT ![Len(log)] = [req |-> r, kind |-> Joined(kind)]]
  ELSE Append(log, [req |-> r, kind |-> kind])

\* appendRequestToLog; json.Encoder writes a part only when it fails.
AppendLine(r) ==
  /\ pc = "files"
  /\ r \notin arrived /\ arrived' = arrived \cup {r}
  /\ \/ /\ \E kind \in {"whole", "large", "long"} : log' = Written(r, kind)
        /\ logged' = logged \cup {r}
     \/ /\ ~EndsTorn
        /\ \E kind \in Partial : log' = Written(r, kind)
        /\ UNCHANGED logged
  /\ UNCHANGED <<backup, stats, dbVars, pc, pos, startVars, skipped, cut>>

\* saveStats writes the time this run has started; a failure leaves Torn.
SaveStats ==
  /\ pc = "files"
  /\ stats' \in {began, Torn}
  /\ UNCHANGED <<log, backup, dbVars, pc, pos, startVars, history>>

-----------------------------------------------------------------------------
(* A start in database mode *)

\* Mutation: MigrateFromFiles does not look whether there is a log.
StartUnchecked ==
  /\ pc = "down" /\ starts < MaxStarts
  /\ starts' = starts + 1
  /\ dbStart' \in IF dbStart = Absent THEN Now(starts') ELSE {dbStart}
  /\ pc' = "open"
  /\ UNCHANGED <<fileVars, imported, pos, began, history>>

\* NewDatabase makes the stats row unless it is there; MigrateFromFiles looks
\* for the two files.
StartDatabase ==
  /\ pc = "down" /\ starts < MaxStarts
  /\ starts' = starts + 1
  /\ dbStart' \in IF dbStart = Absent THEN Now(starts') ELSE {dbStart}
  /\ pc' = CASE log # Absent -> "open"
             [] log = Absent /\ stats # Absent -> "stats"
             [] OTHER -> "serving"
  /\ UNCHANGED <<fileVars, imported, pos, began, history>>

\* An error of the migration is logged at level debug, and the server starts.
OpenLog ==
  /\ pc = "open"
  /\ \/ pc' = "scan" /\ pos' = 1 /\ cut' = cut + 1
     \/ pc' = "serving" /\ UNCHANGED <<pos, cut>>
  /\ UNCHANGED <<fileVars, dbVars, startVars, arrived, logged, skipped>>

AtLine == pc = "scan" /\ pos <= Len(log)

\* Mutation: a line that Unmarshal or the database rejects is retried.
SkipNothing ==
  /\ AtLine
  /\ log[pos].kind \notin TooLong
  /\ UNCHANGED <<fileVars, dbVars, pos, pc, startVars, arrived, logged, skipped, cut>>

\* Unmarshal or RecordRequest fails: a warning, and the next line.
SkipLine ==
  /\ AtLine
  /\ log[pos].kind \notin TooLong
  /\ skipped' = skipped \cup {log[pos].req}
  /\ pos' = pos + 1
  /\ UNCHANGED <<fileVars, dbVars, pc, startVars, arrived, logged, cut>>

\* RecordRequest commits the request of the line.
ImportLine ==
  /\ AtLine
  /\ log[pos].kind = "whole"
  /\ imported' = [imported EXCEPT ![log[pos].req] = @ + 1]
  /\ pos' = pos + 1
  /\ UNCHANGED <<fileVars, dbStart, pc, startVars, history>>

\* Mutation: scanner.Err() is not looked at.
LongLineEndsScan ==
  /\ AtLine
  /\ log[pos].kind \in TooLong
  /\ pos' = Len(log) + 1
  /\ UNCHANGED <<fileVars, dbVars, pc, startVars, history>>

\* Scan returns false and scanner.Err() is bufio.ErrTooLong.
LongLine ==
  /\ AtLine
  /\ log[pos].kind \in TooLong
  /\ pc' = "serving"
  /\ UNCHANGED <<fileVars, dbVars, pos, startVars, history>>

EndScan ==
  /\ pc = "scan" /\ pos = Len(log) + 1
  /\ pc' = "rename"
  /\ UNCHANGED <<fileVars, dbVars, pos, startVars, history>>

AfterLog == IF stats = Absent THEN "serving" ELSE "stats"

\* Mutation: the log is copied and not moved away.
CopyLog ==
  /\ pc = "rename"
  /\ backup' = log /\ cut' = cut - 1
  /\ pc' = AfterLog
  /\ UNCHANGED <<log, stats, dbVars, pos, startVars, arrived, logged, skipped>>

\* os.Rename replaces an earlier backup; its failure is a warning.
RenameLog ==
  /\ pc = "rename"
  /\ \/ backup' = log /\ log' = Absent /\ cut' = cut - 1
     \/ UNCHANGED <<backup, log, cut>>
  /\ pc' = AfterLog
  /\ UNCHANGED <<stats, dbVars, pos, startVars, arrived, logged, skipped>>

\* The driver stores a time as text: date and time of the local clock first, the
\* zone behind them.  SQLite compares the texts.
TextAfter(s, t) ==
  \/ s.at + s.zone > t.at + t.zone
  \/ s.at + s.zone = t.at + t.zone /\ s.zone > t.zone

\* migrateStatsJSON keeps the start time whose text is the smaller, or fails.
MigrateStats ==
  /\ pc = "stats"
  /\ \/ /\ stats # Torn
        /\ dbStart' = IF TextAfter(dbStart, stats) THEN stats ELSE dbStart
        /\ pc' = "renameStats"
     \/ /\ pc' = "serving"
        /\ UNCHANGED dbStart
  /\ UNCHANGED <<fileVars, imported, pos, startVars, history>>

RenameStats ==
  /\ pc = "renameStats"
  /\ stats' \in {stats, Absent}
  /\ pc' = "serving"
  /\ UNCHANGED <<log, backup, dbVars, pos, startVars, history>>

\* A run ends, by a signal or by a crash.
Stop ==
  /\ pc # "down"
  /\ pc' = "down" /\ pos' = 0
  /\ UNCHANGED <<fileVars, dbVars, startVars, history>>

Migrate ==
  \/ OpenLog \/ SkipLine \/ ImportLine \/ LongLine \/ EndScan
  \/ RenameLog \/ MigrateStats \/ RenameStats

Next ==
  \/ StartFiles \/ SaveStats \/ StartDatabase \/ Migrate \/ Stop
  \/ \E r \in Requests : AppendLine(r)

Spec == Init /\ [][Next]_vars

\* MigrateFromFiles runs to its end: its context is context.Background().
FairSpec == Spec /\ WF_vars(Migrate)

-----------------------------------------------------------------------------
(* Properties *)

\* The variables have their types.
TypeOK ==
  /\ log \in Seq(Lines) \cup {Absent}
  /\ backup \in Seq(Lines) \cup {Absent}
  /\ stats \in Times \cup {Absent, Torn}
  /\ imported \in [Requests -> Nat]
  /\ dbStart \in Times \cup {Absent} /\ began \in Times
  /\ pc \in {"down", "files", "open", "scan", "rename", "stats", "renameStats", "serving"}
  /\ pc \in {"scan", "rename"} => log # Absent /\ pos \in 1..(Len(log) + 1)
  /\ pos \in Nat /\ starts \in Nat /\ cut \in Nat
  /\ arrived \in SUBSET Requests /\ logged \in SUBSET arrived
  /\ skipped \in SUBSET Requests

\* No logged request gets lost: it is still to be migrated, it has been
\* imported, or a migration has reported its line and moved it to the backup.
NothingLost ==
  \A r \in logged : On(log, r) \/ imported[r] > 0 \/ r \in skipped

\* A request is imported once, and once more for each migration that began and
\* did not get to renaming the log: no more often than there were crashes,
\* over-long lines and failed renames to account for it.
ImportsBounded ==
  \A r \in Requests : imported[r] <= cut + IF On(log, r) THEN 0 ELSE 1

\* A migration comes to an end, whatever the lines are.
MigrationEnds == (pc = "open") ~> (pc \in {"serving", "down"})

\* "The counts will be recalculated from the request log" (migration.go:165):
\* a request of the log is counted once.
ImportedOnce == \A r \in Requests : imported[r] <= 1

\* "Backs up original files (renamed with .migrated extension)" (migration.go:52):
\* a logged request is still in the log or in the backup, also after file mode
\* and database mode have taken turns.
OriginalsKept == \A r \in logged : On(log, r) \/ On(backup, r)

\* "This is mainly for preserving the start time" (migration.go:164): once
\* migrateStatsJSON has succeeded, the statistics in the database do not start
\* later than those of stats.json did.
StartPreserved == pc = "renameStats" => dbStart.at <= stats.at

=============================================================================
