------------------------------ MODULE FileStats ------------------------------
(***************************************************************************)
(* File mode (-use-files): the statistics live in memory, in the branch of *)
(* internal/stats/manager.go without a database, and main.go appends every *)
(* request to requests.ndjson, saves the statistics to stats.json every    *)
(* five minutes and once more at shutdown, and loads them at start.        *)
(*                                                                         *)
(* The actors are the request handlers, the goroutine of the periodic      *)
(* save, and the main goroutine, which makes the final save while the      *)
(* server still serves (internal/server/server.go:104-128).                *)
(***************************************************************************)
EXTENDS MemoryStats

CONSTANTS
  Handlers,       \* goroutines that serve trapped requests
  Absent,         \* no stats.json
  Torn,           \* a stats.json that json.Unmarshal rejects
  MaxRequests     \* bound of the model: requests that ever arrive

ASSUME BoundsAssumption ==
  /\ MaxRequests \in Nat
  /\ IsFiniteSet(Handlers) /\ IsFiniteSet(IPs) /\ IsFiniteSet(UserAgents)

VARIABLES
  mem,       \* the Stats in memory
  lines,     \* the number of lines of requests.ndjson
  unlogged,  \* history: the requests whose line could not be written
  file,      \* stats.json: Absent, Torn, or the statistics it holds
  clock,     \* time.Now(), counting its readings in RecordRequest
  hpc,       \* the step each handler is about to take
  hreq,      \* the request of each handler, with its timestamp
  spc,       \* where each of the two savers is
  snap,      \* the copy of the statistics each saver has made
  over,      \* the savers over whose open file the other one has written
  due,       \* the ticker's channel holds a tick
  main       \* "down", "serving", "cleanup", "shutdown" or "exited"

handlerVars == <<clock, hpc, hreq>>
saverVars   == <<spc, snap, over, due>>
vars        == <<mem, lines, unlogged, file, handlerVars, saverVars, main>>

Savers == {"periodic", "final"}

Up == main \in {"serving", "cleanup", "shutdown"}

-----------------------------------------------------------------------------
NoRequest == [ip |-> Absent, ua |-> Absent, ts |-> 0]

Init ==
  /\ mem = NoStats
  /\ lines = 0 /\ unlogged = 0
  /\ file = Absent
  /\ clock = 0
  /\ hpc = [h \in Handlers |-> "idle"]
  /\ hreq = [h \in Handlers |-> NoRequest]
  /\ spc = [s \in Savers |-> "off"]
  /\ snap = [s \in Savers |-> NoStats]
  /\ over = {}
  /\ due = FALSE
  /\ main = "down"

\* The start of the program: loadStats takes what the file holds, and starts
\* from nothing when the file is not there or cannot be parsed.
Start ==
  /\ main \in {"down", "exited"}
  /\ main' = "serving"
  /\ mem' = IF file \in {Absent, Torn} THEN NoStats ELSE file
  /\ spc' = [s \in Savers |-> IF s = "periodic" THEN "waiting" ELSE "off"]
  /\ snap' = [s \in Savers |-> NoStats]
  /\ UNCHANGED <<lines, unlogged, file, handlerVars, over, due>>

-----------------------------------------------------------------------------
(* Serving a request *)

\* After the listener is closed, a connection that was accepted before and has
\* sent nothing yet is still served.
Arrive(h) ==
  /\ Up
  /\ hpc[h] = "idle"
  /\ lines + unlogged + Cardinality({x \in Handlers : hpc[x] = "append"}) < MaxRequests
  /\ \E i \in IPs, u \in UserAgents :
       hreq' = [hreq EXCEPT ![h] = [ip |-> i, ua |-> u, ts |-> 0]]
  /\ hpc' = [hpc EXCEPT ![h] = "append"]
  /\ UNCHANGED <<mem, lines, unlogged, file, clock, saverVars, main>>

\* appendRequestToLog; a failure is logged and the request goes on.
AppendLine(h) ==
  /\ hpc[h] = "append"
  /\ \/ lines' = lines + 1 /\ UNCHANGED unlogged
     \/ unlogged' = unlogged + 1 /\ UNCHANGED lines
  /\ hpc' = [hpc EXCEPT ![h] = "stamp"]
  /\ UNCHANGED <<mem, file, clock, hreq, saverVars, main>>

\* Manager.RecordRequest reads the clock before it asks for the lock.
Stamp(h) ==
  /\ hpc[h] = "stamp"
  /\ clock' = clock + 1
  /\ hreq' = [hreq EXCEPT ![h].ts = clock']
  /\ hpc' = [hpc EXCEPT ![h] = "record"]
  /\ UNCHANGED <<mem, lines, unlogged, file, saverVars, main>>

\* Mutation: the write lock is forgotten.
RecordUnlocked(h) ==
  /\ hpc[h] = "record"
  /\ mem' = Recorded(mem, hreq[h])
  /\ hpc' = [hpc EXCEPT ![h] = "delay"]
  /\ UNCHANGED <<lines, unlogged, file, clock, hreq, saverVars, main>>

\* Mutation: a request is counted twice.
RecordTwice(h) ==
  /\ hpc[h] = "record"
  /\ \A s \in Savers : spc[s] # "copy"
  /\ mem' = Recorded(Recorded(mem, hreq[h]), hreq[h])
  /\ hpc' = [hpc EXCEPT ![h] = "delay"]
  /\ UNCHANGED <<lines, unlogged, file, clock, hreq, saverVars, main>>

\* The rest of it, under the write lock.
Record(h) ==
  /\ hpc[h] = "record"
  /\ \A s \in Savers : spc[s] # "copy"
  /\ mem' = Recorded(mem, hreq[h])
  /\ hpc' = [hpc EXCEPT ![h] = "delay"]
  /\ UNCHANGED <<lines, unlogged, file, clock, hreq, saverVars, main>>

\* The delay passes or the client hangs up; the handler returns.
Respond(h) ==
  /\ hpc[h] = "delay"
  /\ hpc' = [hpc EXCEPT ![h] = "idle"]
  /\ hreq' = [hreq EXCEPT ![h] = NoRequest]
  /\ UNCHANGED <<mem, lines, unlogged, file, clock, saverVars, main>>

-----------------------------------------------------------------------------
(* Saving the statistics: saveStats by either of the two savers *)

\* saveStats returns: the periodic save goes on waiting.  What became of the
\* final one is kept, with its copy, for the properties.
Return(s, outcome) ==
  /\ spc' = [spc EXCEPT ![s] = IF s = "periodic" THEN "waiting" ELSE outcome]
  /\ snap' = [snap EXCEPT !["periodic"] = IF s = "periodic" THEN NoStats ELSE @]

\* The read lock is taken and the total copied.
BeginCopy(s) ==
  /\ snap' = [snap EXCEPT ![s] = [NoStats EXCEPT !.total = mem.total]]
  /\ spc' = [spc EXCEPT ![s] = "copy"]

\* The maps and the list are copied, the lock is released.
EndCopy(s) ==
  /\ spc[s] = "copy"
  /\ snap' = [snap EXCEPT ![s] = [mem EXCEPT !.total = snap[s].total]]
  /\ spc' = [spc EXCEPT ![s] = "open"]
  /\ UNCHANGED <<mem, lines, unlogged, file, handlerVars, over, due, main>>

\* os.WriteFile empties the file before it writes.
OpenFile(s) ==
  /\ spc[s] = "open"
  /\ file' = Torn
  /\ spc' = [spc EXCEPT ![s] = "write"]
  /\ over' = {}
  /\ UNCHANGED <<mem, lines, unlogged, handlerVars, snap, due, main>>

\* Mutation: the goroutine of the periodic save returns at the first error.
FailureEndsSaver(s) ==
  /\ spc[s] = "open"
  /\ spc' = [spc EXCEPT ![s] = "off"]
  /\ UNCHANGED <<mem, lines, unlogged, file, handlerVars, snap, over, due, main>>

\* The error is logged; the periodic save tries again at the next tick.
OpenFails(s) ==
  /\ spc[s] = "open"
  /\ Return(s, "failed")
  /\ UNCHANGED <<mem, lines, unlogged, file, handlerVars, over, due, main>>

\* The other saver, when it has the file open.
OthersWriting(s) == {x \in Savers \ {s} : spc[x] = "write"}

\* The data is written from the start of the file.  When the other saver has
\* written since this one opened the file, the end of a longer text stays.
WriteData(s) ==
  /\ spc[s] = "write"
  /\ file' \in IF s \in over THEN {snap[s], Torn} ELSE {snap[s]}
  /\ Return(s, "done")
  /\ over' = (over \ {s}) \cup OthersWriting(s)
  /\ UNCHANGED <<mem, lines, unlogged, handlerVars, due, main>>

\* Nothing or a part of the data is written.
WriteFails(s) ==
  /\ spc[s] = "write"
  /\ file' \in {file, Torn}
  /\ Return(s, "failed")
  /\ over' = (over \ {s}) \cup OthersWriting(s)
  /\ UNCHANGED <<mem, lines, unlogged, handlerVars, due, main>>

Tick ==
  /\ spc["periodic"] # "off" /\ ~due
  /\ due' = TRUE
  /\ UNCHANGED <<mem, lines, unlogged, file, handlerVars, spc, snap, over, main>>

PeriodicSave ==
  /\ spc["periodic"] = "waiting" /\ due
  /\ due' = FALSE
  /\ BeginCopy("periodic")
  /\ UNCHANGED <<mem, lines, unlogged, file, handlerVars, over, main>>

\* The context is cancelled; with a tick ready too, select takes either.
PeriodicStop ==
  /\ spc["periodic"] = "waiting" /\ main \in {"cleanup", "shutdown"}
  /\ spc' = [spc EXCEPT !["periodic"] = "off"]
  /\ due' = FALSE
  /\ UNCHANGED <<mem, lines, unlogged, file, handlerVars, snap, over, main>>

-----------------------------------------------------------------------------
(* Shutting down *)

\* The signal has come: cleanup cancels the periodic save and goes on.
Signal ==
  /\ main = "serving"
  /\ main' = "cleanup"
  /\ UNCHANGED <<mem, lines, unlogged, file, handlerVars, saverVars>>

\* Mutation: with a periodic save under way its copy is taken for the final one.
FinalSaveReuses ==
  /\ main = "cleanup" /\ spc["final"] = "off"
  /\ IF spc["periodic"] \in {"open", "write"}
     THEN /\ snap' = [snap EXCEPT !["final"] = snap["periodic"]]
          /\ spc' = [spc EXCEPT !["final"] = "open"]
     ELSE BeginCopy("final")
  /\ UNCHANGED <<mem, lines, unlogged, file, handlerVars, over, due, main>>

FinalSave ==
  /\ main = "cleanup" /\ spc["final"] = "off"
  /\ BeginCopy("final")
  /\ UNCHANGED <<mem, lines, unlogged, file, handlerVars, over, due, main>>

\* Only after cleanup does Shutdown close the listener.
CloseListener ==
  /\ main = "cleanup" /\ spc["final"] \in {"done", "failed"}
  /\ main' = "shutdown"
  /\ UNCHANGED <<mem, lines, unlogged, file, handlerVars, saverVars>>

\* Whatever the process held is gone.
Gone ==
  /\ mem' = NoStats
  /\ hpc' = [h \in Handlers |-> "idle"]
  /\ hreq' = [h \in Handlers |-> NoRequest]
  /\ over' = {} /\ due' = FALSE

\* The handlers have returned, or Shutdown has waited for its five seconds.
Exit ==
  /\ main = "shutdown"
  /\ main' = "exited"
  /\ Gone
  /\ spc' = [spc EXCEPT !["periodic"] = "off"]
  /\ snap' = [snap EXCEPT !["periodic"] = NoStats]
  /\ UNCHANGED <<lines, unlogged, file, clock>>

Crash ==
  /\ Up
  /\ main' = "down"
  /\ Gone
  /\ spc' = [s \in Savers |-> "off"]
  /\ snap' = [s \in Savers |-> NoStats]
  /\ UNCHANGED <<lines, unlogged, file, clock>>

Serve(h) == Arrive(h) \/ AppendLine(h) \/ Stamp(h) \/ Record(h) \/ Respond(h)
Save(s) ==
  EndCopy(s) \/ OpenFile(s) \/ OpenFails(s) \/ WriteData(s) \/ WriteFails(s)

Next ==
  \/ \E h \in Handlers : Serve(h)
  \/ \E s \in Savers : Save(s)
  \/ Start \/ Tick \/ PeriodicSave \/ PeriodicStop
  \/ Signal \/ FinalSave \/ CloseListener \/ Exit \/ Crash

Spec == Init /\ [][Next]_vars

\* The savers and the main goroutine take their steps when they can, time
\* passes for the ticker, and the disk does not fail forever.  Nothing is asked
\* of the handlers: no save and no shutdown may depend on them.
Fairness ==
  /\ WF_vars(Tick) /\ WF_vars(PeriodicSave)
  /\ \A s \in Savers : WF_vars(Save(s))
  /\ SF_vars(OpenFile("periodic")) /\ SF_vars(WriteData("periodic"))
  /\ WF_vars(FinalSave) /\ WF_vars(CloseListener) /\ WF_vars(Exit)

FairSpec == Spec /\ Fairness

-----------------------------------------------------------------------------
(* Properties *)

Whole(f) == f \notin {Absent, Torn}

\* The variables have their types.
TypeOK ==
  /\ mem \in Statistics /\ Len(mem.recent) <= MaxRecent
  /\ lines \in Nat /\ unlogged \in Nat /\ clock \in Nat
  /\ file \in Statistics \cup {Absent, Torn}
  /\ hpc \in [Handlers -> {"idle", "append", "stamp", "record", "delay"}]
  /\ hreq \in [Handlers -> [ip : IPs, ua : UserAgents, ts : Nat] \cup {NoRequest}]
  /\ spc \in [Savers -> {"off", "waiting", "copy", "open", "write", "done", "failed"}]
  /\ snap \in [Savers -> Statistics]
  /\ over \in SUBSET Savers
  /\ due \in BOOLEAN
  /\ main \in {"down", "serving", "cleanup", "shutdown", "exited"}

\* Total, maps and list are of the same set of requests: in memory, in the
\* copy a saver is about to write while requests are recorded, and in every
\* file that a restart can load.
CountsConsistent ==
  /\ Consistent(mem)
  /\ \A s \in Savers : spc[s] \in {"open", "write"} => Consistent(snap[s])
  /\ Whole(file) => Consistent(file)

\* The requests a handler has logged, or failed to log, and not yet counted.
Uncounted == {h \in Handlers : hpc[h] \in {"stamp", "record"}}

\* requests.ndjson is complete with respect to the statistics: whatever was
\* counted, in this session or in one whose stats.json was loaded, has a line
\* or was reported as not written (main.go logs before it counts).
LogCoversStats ==
  /\ mem.total + Cardinality(Uncounted) <= lines + unlogged
  /\ \A s \in Savers : snap[s].total <= lines + unlogged
  /\ Whole(file) => file.total <= lines + unlogged

\* What has been counted while the server serves reaches stats.json, though
\* saves fail and are repeated.
StatsReachFile ==
  \A n \in 1..MaxRequests :
    (main = "serving" /\ mem.total >= n)
      ~> (main # "serving" \/ (Whole(file) /\ file.total >= n))

\* Once the signal has come the process ends, and what has been counted by then
\* is in the final snapshot, whatever the periodic save does meanwhile: unless the
\* program crashes or the final save itself fails.  Nothing is promised of what is
\* counted later.
ShutdownSaves ==
  \A n \in 1..MaxRequests :
    (main = "cleanup" /\ spc["final"] = "off" /\ mem.total >= n)
      ~> \/ main = "down"
         \/ main = "exited" /\ spc["final"] = "failed"
         \/ main = "exited" /\ spc["final"] = "done" /\ snap["final"].total >= n

\* "Save final stats snapshot" (main.go:626): after an orderly exit whose
\* final save succeeded, stats.json holds that snapshot.
FinalSnapshotStays ==
  (main = "exited" /\ spc["final"] = "done") => file = snap["final"]

=============================================================================
