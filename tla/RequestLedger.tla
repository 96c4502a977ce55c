---------------------------- MODULE RequestLedger ----------------------------
(***************************************************************************)
(* What Database.RecordRequest promises ("Uses a transaction to ensure     *)
(* atomic updates", internal/stats/database.go:133), without locks,        *)
(* connection, transaction or statements: a call enters its request in     *)
(* the log and in every count in one step, or leaves no trace; a crash     *)
(* ends the calls under way and takes nothing back.                        *)
(***************************************************************************)
EXTENDS Naturals, FiniteSets

CONSTANTS
  IPs,          \* client addresses
  UserAgents,   \* user agents
  Times         \* what distinguishes the requests: their timestamps

VARIABLES
  calls,        \* the requests whose RecordRequest has not returned
  log,          \* the requests in request_log
  tally         \* the counts kept beside the log

ledgerVars == <<calls, log, tally>>

Requests == [ip : IPs, ua : UserAgents, ts : Times]

\* The counts that belong to a log.
Tally(entries) ==
  [ips   |-> [i \in IPs |-> Cardinality({q \in entries : q.ip = i})],
   uas   |-> [u \in UserAgents |-> Cardinality({q \in entries : q.ua = u})],
   total |-> Cardinality(entries)]

Init ==
  /\ calls = {}
  /\ log = {}
  /\ tally = Tally({})

Call(q) ==
  /\ q \notin calls \cup log
  /\ calls' = calls \cup {q}
  /\ UNCHANGED <<log, tally>>

Record(q) ==
  /\ q \in calls
  /\ calls' = calls \ {q}
  /\ log' = log \cup {q}
  /\ tally' = Tally(log')

Reject(q) ==
  /\ q \in calls
  /\ calls' = calls \ {q}
  /\ UNCHANGED <<log, tally>>

Crash ==
  /\ calls' = {}
  /\ UNCHANGED <<log, tally>>

Next ==
  \/ \E q \in Requests : Call(q) \/ Record(q) \/ Reject(q)
  \/ Crash

Spec == Init /\ [][Next]_ledgerVars

=============================================================================
