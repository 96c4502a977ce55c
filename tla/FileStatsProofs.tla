--------------------------- MODULE FileStatsProofs ---------------------------
(***************************************************************************)
(* Theorems about FileStats, for any handlers, addresses, user agents and  *)
(* caps.                                                                   *)
(***************************************************************************)
EXTENDS FileStats, CountSums, FiniteSetTheorems, TLAPS

-----------------------------------------------------------------------------
(* The inductive invariant *)

\* The total a saver has copied is that of the maps it is about to copy: the
\* read lock keeps Record out.
CopyOK == \A s \in Savers : spc[s] = "copy" => snap[s].total = mem.total

\* A handler that serves has a request; without a process there is none.
HandlersOK ==
  /\ \A h \in Handlers : hpc[h] # "idle" => hreq[h] \in [ip : IPs, ua : UserAgents, ts : Nat]
  /\ main \in {"down", "exited"} => \A h \in Handlers : hpc[h] = "idle"

\* The main goroutine goes on only after the final save.
FinalOK == main \in {"shutdown", "exited"} => spc["final"] \in {"done", "failed"}

Inv == TypeOK /\ LogCoversStats /\ CountsConsistent /\ CopyOK /\ HandlersOK /\ FinalOK

-----------------------------------------------------------------------------
(* The statistics *)

\* The counted keys of a map are some of finitely many.
LEMMA KeysFinite ==
  ASSUME NEW K, IsFiniteSet(K), NEW count \in [K -> Nat]
  PROVE  IsFiniteSet(KeysOf(count)) /\ Cardinality(KeysOf(count)) \in Nat
<1>1. KeysOf(count) \in SUBSET K
  BY DEF KeysOf
<1> QED
  BY <1>1, FS_Subset, FS_CardinalityType

\* A map that counts nothing agrees with the total 0.
LEMMA NothingAgrees ==
  ASSUME NEW K, IsFiniteSet(K), NEW max \in Nat
  PROVE  MapAgrees([k \in K |-> 0], max, 0)
<1>1. KeysOf([k \in K |-> 0]) = {}
  BY DEF KeysOf
<1>2. SumFunction([k \in K |-> 0]) = 0
  BY SumOfZeros
<1> QED
  BY <1>1, <1>2, FS_EmptySet DEF MapAgrees

LEMMA NoStatsConsistent == NoStats \in Statistics /\ Consistent(NoStats)
<1>1. NoStats \in Statistics
  BY DEF NoStats, Statistics
<1>2. /\ MapAgrees(NoStats.ips, MaxIPs, 0) /\ MapAgrees(NoStats.uas, MaxUserAgents, 0)
  BY NothingAgrees, CapsAssumption, BoundsAssumption DEF NoStats
<1>3. NoStats.total = 0 /\ Len(NoStats.recent) = 0
  BY DEF NoStats
<1> QED
  BY <1>1, <1>2, <1>3, CapsAssumption DEF Consistent

\* Counting a request keeps a map typed and in agreement with the total: a key
\* that finds no room is missing in the sum, and from then on the map is full.
LEMMA CountedAgrees ==
  ASSUME NEW K, IsFiniteSet(K), NEW count \in [K -> Nat], NEW k \in K, NEW max \in Nat,
         NEW total \in Nat, MapAgrees(count, max, total)
  PROVE  /\ Counted(count, k, max) \in [K -> Nat]
         /\ MapAgrees(Counted(count, k, max), max, total + 1)
<1> DEFINE c == Counted(count, k, max)
           more == [count EXCEPT ![k] = @ + 1]
<1>1. /\ more \in [K -> Nat]
      /\ SumFunction(more) = SumFunction(count) + 1 /\ SumFunction(count) \in Nat
  <2>1. SumFunction(more) = SumFunction(count) + 1
    BY SumCounted
  <2>2. SumFunction(count) \in Nat
    BY SumType
  <2> QED
    BY <2>1, <2>2
<1>2. IsFiniteSet(KeysOf(count)) /\ Cardinality(KeysOf(count)) \in Nat
  BY KeysFinite
<1>3. CASE count[k] > 0
  <2>1. c = more
    BY <1>3 DEF Counted
  <2>2. KeysOf(more) = KeysOf(count)
    BY <1>3 DEF KeysOf
  <2> HIDE DEF more, c
  <2> QED
    BY <1>1, <1>2, <2>1, <2>2 DEF MapAgrees, c
<1>4. CASE ~(count[k] > 0) /\ Cardinality(KeysOf(count)) < max
  <2>1. c = more
    BY <1>4 DEF Counted
  <2>2. KeysOf(more) = KeysOf(count) \cup {k} /\ k \notin KeysOf(count)
    BY <1>4 DEF KeysOf
  <2>3. Cardinality(KeysOf(more)) = Cardinality(KeysOf(count)) + 1
    BY <1>2, <2>2, FS_AddElement
  <2>4. SumFunction(count) = total
    BY <1>4 DEF MapAgrees
  <2> HIDE DEF more, c
  <2> QED
    BY <1>1, <1>2, <1>4, <2>1, <2>3, <2>4 DEF MapAgrees, c
<1>5. CASE ~(count[k] > 0) /\ ~(Cardinality(KeysOf(count)) < max)
  <2>1. c = count
    BY <1>5 DEF Counted
  <2> QED
    BY <1>1, <1>2, <1>5, <2>1 DEF MapAgrees
<1> QED
  BY <1>3, <1>4, <1>5

\* The list of the recent requests grows by one or stays full.
LEMMA AppendedBounded ==
  ASSUME NEW recent \in Seq(Nat), NEW ts \in Nat, Len(recent) <= MaxRecent
  PROVE  /\ Appended(recent, ts) \in Seq(Nat)
         /\ Len(Appended(recent, ts)) =
              IF Len(recent) < MaxRecent THEN Len(recent) + 1 ELSE MaxRecent
<1>1. /\ Append(recent, ts) \in Seq(Nat)
      /\ Len(Append(recent, ts)) = Len(recent) + 1
      /\ Len(recent) \in Nat /\ MaxRecent \in Nat \ {0}
  BY CapsAssumption, BoundsAssumption
<1>2. CASE Len(recent) < MaxRecent
  BY <1>1, <1>2 DEF Appended
<1>3. CASE Len(recent) = MaxRecent
  <2>1. Appended(recent, ts) = Tail(Append(recent, ts))
    BY <1>1, <1>3 DEF Appended
  <2>2. Append(recent, ts) # <<>>
    BY <1>1
  <2> QED
    BY <1>1, <1>3, <2>1, <2>2
<1> QED
  BY <1>1, <1>2, <1>3

LEMMA RecordedConsistent ==
  ASSUME NEW m \in Statistics, Consistent(m), NEW q \in [ip : IPs, ua : UserAgents, ts : Nat]
  PROVE  /\ Recorded(m, q) \in Statistics
         /\ Consistent(Recorded(m, q))
         /\ Recorded(m, q).total = m.total + 1
<1> DEFINE r == Recorded(m, q)
<1>1. /\ m.total \in Nat /\ m.ips \in [IPs -> Nat] /\ m.uas \in [UserAgents -> Nat]
      /\ m.recent \in Seq(Nat)
      /\ q.ip \in IPs /\ q.ua \in UserAgents /\ q.ts \in Nat
      /\ MaxIPs \in Nat /\ MaxUserAgents \in Nat /\ MaxRecent \in Nat \ {0}
      /\ IsFiniteSet(IPs) /\ IsFiniteSet(UserAgents)
  BY CapsAssumption, BoundsAssumption DEF Statistics
<1>2. /\ r.total = m.total + 1
      /\ r.ips = Counted(m.ips, q.ip, MaxIPs)
      /\ r.uas = Counted(m.uas, q.ua, MaxUserAgents)
      /\ r.recent = Appended(m.recent, q.ts)
  BY DEF Recorded
<1>3. r.ips \in [IPs -> Nat] /\ MapAgrees(r.ips, MaxIPs, r.total)
  <2>1. MapAgrees(m.ips, MaxIPs, m.total)
    BY DEF Consistent
  <2>2. /\ Counted(m.ips, q.ip, MaxIPs) \in [IPs -> Nat]
        /\ MapAgrees(Counted(m.ips, q.ip, MaxIPs), MaxIPs, m.total + 1)
    BY <1>1, <2>1, CountedAgrees
  <2> QED
    BY <1>2, <2>2, Zenon
<1>4. r.uas \in [UserAgents -> Nat] /\ MapAgrees(r.uas, MaxUserAgents, r.total)
  <2>1. MapAgrees(m.uas, MaxUserAgents, m.total)
    BY DEF Consistent
  <2>2. /\ Counted(m.uas, q.ua, MaxUserAgents) \in [UserAgents -> Nat]
        /\ MapAgrees(Counted(m.uas, q.ua, MaxUserAgents), MaxUserAgents, m.total + 1)
    BY <1>1, <2>1, CountedAgrees
  <2> QED
    BY <1>2, <2>2, Zenon
<1>5. Len(m.recent) <= MaxRecent
  BY <1>1 DEF Consistent
<1>6. /\ r.recent \in Seq(Nat)
      /\ Len(r.recent) = IF Len(m.recent) < MaxRecent THEN Len(m.recent) + 1 ELSE MaxRecent
  BY <1>1, <1>2, <1>5, AppendedBounded
<1>7. r \in Statistics
  <2>1. r = [total |-> r.total, ips |-> r.ips, uas |-> r.uas, recent |-> r.recent]
    BY DEF Recorded
  <2> HIDE DEF r
  <2>2. /\ r.total \in Nat /\ r.ips \in [IPs -> Nat] /\ r.uas \in [UserAgents -> Nat]
        /\ r.recent \in Seq(Nat)
    <3>1. r.total \in Nat
      BY <1>1, <1>2
    <3> QED
      BY <1>3, <1>4, <1>6, <3>1, Zenon
  <2> QED
    BY ONLY <2>1, <2>2 DEF Statistics
<1>8. Len(r.recent) = IF r.total < MaxRecent THEN r.total ELSE MaxRecent
  BY <1>1, <1>2, <1>6 DEF Consistent
<1> QED
  BY <1>2, <1>3, <1>4, <1>7, <1>8 DEF Consistent

-----------------------------------------------------------------------------
(* The steps *)

LEMMA InvInit == Init => Inv
<1> SUFFICES ASSUME Init PROVE Inv
  OBVIOUS
<1> USE CapsAssumption, BoundsAssumption
<1>1. mem = NoStats /\ mem \in Statistics /\ Consistent(mem) /\ mem.total = 0 /\ Len(mem.recent) = 0
  BY NoStatsConsistent DEF Init, NoStats
<1>2. \A s \in Savers : snap[s] = NoStats /\ snap[s].total = 0 /\ spc[s] = "off"
  BY DEF Init, NoStats
<1>3. TypeOK
  <2>1. mem \in Statistics /\ Len(mem.recent) <= MaxRecent
    BY <1>1
  <2>2. snap \in [Savers -> Statistics]
    BY NoStatsConsistent DEF Init
  <2>3. /\ hpc \in [Handlers -> {"idle", "append", "stamp", "record", "delay"}]
        /\ hreq \in [Handlers -> [ip : IPs, ua : UserAgents, ts : Nat] \cup {NoRequest}]
        /\ spc \in [Savers -> {"off", "waiting", "copy", "open", "write", "done", "failed"}]
    BY DEF Init
  <2> QED
    BY <2>1, <2>2, <2>3 DEF Init, TypeOK
<1>4. Uncounted = {}
  BY DEF Init, Uncounted
<1>5. LogCoversStats
  BY <1>1, <1>2, <1>4, FS_EmptySet DEF Init, LogCoversStats, Whole
<1>6. CountsConsistent /\ CopyOK /\ HandlersOK /\ FinalOK
  BY <1>1, <1>2 DEF Init, CountsConsistent, CopyOK, HandlersOK, FinalOK, Whole
<1> QED
  BY <1>3, <1>5, <1>6 DEF Inv

LEMMA UncountedFinite ==
  IsFiniteSet(Uncounted) /\ Cardinality(Uncounted) \in Nat
BY FS_Subset, FS_CardinalityType, CapsAssumption, BoundsAssumption DEF Uncounted

\* The steps of a handler.
LEMMA StepHandler ==
  ASSUME Inv, NEW h \in Handlers, Serve(h)
  PROVE  Inv'
<1> USE CapsAssumption, BoundsAssumption
<1>t. TypeOK /\ LogCoversStats /\ CountsConsistent /\ CopyOK /\ HandlersOK /\ FinalOK
  BY DEF Inv
<1>u. Cardinality(Uncounted) \in Nat
  BY UncountedFinite
<1>1. CASE Arrive(h)
  <2>1. Uncounted' = Uncounted
    BY <1>t, <1>1 DEF Arrive, Uncounted, TypeOK
  <2>2. TypeOK'
    BY <1>t, <1>1 DEF Arrive, TypeOK, saverVars
  <2>3. LogCoversStats'
    BY <1>t, <1>1, <2>1 DEF Arrive, LogCoversStats, saverVars
  <2>4. CountsConsistent' /\ CopyOK' /\ FinalOK'
    BY <1>t, <1>1 DEF Arrive, CountsConsistent, CopyOK, FinalOK, saverVars
  <2>5. HandlersOK'
    BY <1>t, <1>1 DEF Arrive, Up, HandlersOK, TypeOK
  <2> QED
    BY <2>2, <2>3, <2>4, <2>5 DEF Inv
<1>2. CASE AppendLine(h)
  <2>1. Uncounted' = Uncounted \cup {h} /\ h \notin Uncounted
    BY <1>t, <1>2 DEF AppendLine, Uncounted, TypeOK
  <2>2. Cardinality(Uncounted') = Cardinality(Uncounted) + 1
    BY <2>1, UncountedFinite, FS_AddElement
  <2>3. TypeOK'
    BY <1>t, <1>2 DEF AppendLine, TypeOK, saverVars
  <2>4. /\ lines + unlogged \in Nat /\ lines' + unlogged' = lines + unlogged + 1
        /\ UNCHANGED <<mem, file, snap>>
    BY <1>t, <1>2 DEF AppendLine, TypeOK, saverVars
  <2>5. /\ mem.total \in Nat /\ \A s \in Savers : snap[s].total \in Nat
        /\ Whole(file) => file.total \in Nat
    BY <1>t DEF TypeOK, Statistics, Whole
  <2>6. LogCoversStats'
    BY <1>t, <1>u, <2>2, <2>4, <2>5 DEF LogCoversStats, Whole
  <2>7. CountsConsistent' /\ CopyOK' /\ FinalOK'
    BY <1>t, <1>2 DEF AppendLine, CountsConsistent, CopyOK, FinalOK, saverVars
  <2>8. HandlersOK'
    BY <1>t, <1>2 DEF AppendLine, HandlersOK, TypeOK
  <2> QED
    BY <2>3, <2>6, <2>7, <2>8 DEF Inv
<1>3. CASE Stamp(h)
  <2>1. Uncounted' = Uncounted
    BY <1>t, <1>3 DEF Stamp, Uncounted, TypeOK
  <2>2. /\ clock' \in Nat
        /\ hreq' = [hreq EXCEPT ![h].ts = clock']
        /\ hreq[h] \in [ip : IPs, ua : UserAgents, ts : Nat]
    BY <1>t, <1>3 DEF Stamp, TypeOK, HandlersOK
  <2>3. hreq'[h] \in [ip : IPs, ua : UserAgents, ts : Nat]
    BY <1>t, <2>2 DEF TypeOK
  <2>4. hreq' \in [Handlers -> [ip : IPs, ua : UserAgents, ts : Nat] \cup {NoRequest}]
    BY <1>t, <2>2, <2>3 DEF TypeOK
  <2>5. TypeOK'
    BY <1>t, <1>3, <2>2, <2>4 DEF Stamp, TypeOK, saverVars
  <2>6. LogCoversStats'
    BY <1>t, <1>3, <2>1 DEF Stamp, LogCoversStats, saverVars
  <2>7. CountsConsistent' /\ CopyOK' /\ FinalOK'
    BY <1>t, <1>3 DEF Stamp, CountsConsistent, CopyOK, FinalOK, saverVars
  <2>8. HandlersOK'
    BY <1>t, <1>3, <2>2, <2>3 DEF Stamp, HandlersOK, TypeOK
  <2> QED
    BY <2>5, <2>6, <2>7, <2>8 DEF Inv
<1>4. CASE Record(h)
  <2>1. Uncounted' = Uncounted \ {h} /\ h \in Uncounted
    BY <1>t, <1>4 DEF Record, Uncounted, TypeOK
  <2>2. Cardinality(Uncounted') = Cardinality(Uncounted) - 1
    BY <2>1, UncountedFinite, FS_RemoveElement
  <2>3. mem' \in Statistics /\ Consistent(mem') /\ mem'.total = mem.total + 1
    <3>1. hreq[h] \in [ip : IPs, ua : UserAgents, ts : Nat]
      BY <1>t, <1>4 DEF Record, HandlersOK
    <3>2. mem \in Statistics /\ Consistent(mem) /\ mem' = Recorded(mem, hreq[h])
      BY <1>t, <1>4 DEF Record, TypeOK, CountsConsistent
    <3> QED
      BY <3>1, <3>2, RecordedConsistent
  <2>4. Len(mem'.recent) <= MaxRecent
    BY <2>3 DEF Consistent, Statistics
  <2>5. TypeOK'
    BY <1>t, <1>4, <2>3, <2>4 DEF Record, TypeOK, saverVars
  <2>6. mem.total \in Nat
    BY <1>t DEF TypeOK, Statistics
  <2>7. LogCoversStats'
    BY <1>t, <1>u, <1>4, <2>2, <2>3, <2>6 DEF Record, LogCoversStats, Whole, saverVars
  <2>8. CountsConsistent'
    BY <1>t, <1>4, <2>3 DEF Record, CountsConsistent, saverVars
  <2>9. CopyOK'
    BY <1>4 DEF Record, CopyOK, saverVars
  <2>10. HandlersOK' /\ FinalOK'
    BY <1>t, <1>4 DEF Record, HandlersOK, FinalOK, TypeOK, saverVars
  <2> QED
    BY <2>5, <2>7, <2>8, <2>9, <2>10 DEF Inv
<1>5. CASE Respond(h)
  <2>1. Uncounted' = Uncounted
    BY <1>t, <1>5 DEF Respond, Uncounted, TypeOK
  <2>2. TypeOK'
    BY <1>t, <1>5 DEF Respond, TypeOK, saverVars
  <2>3. LogCoversStats'
    BY <1>t, <1>5, <2>1 DEF Respond, LogCoversStats, saverVars
  <2>4. CountsConsistent' /\ CopyOK' /\ FinalOK'
    BY <1>t, <1>5 DEF Respond, CountsConsistent, CopyOK, FinalOK, saverVars
  <2>5. HandlersOK'
    BY <1>t, <1>5 DEF Respond, HandlersOK, TypeOK
  <2> QED
    BY <2>2, <2>3, <2>4, <2>5 DEF Inv
<1> QED
  BY <1>1, <1>2, <1>3, <1>4, <1>5 DEF Serve

\* The steps of saveStats, by either saver.
LEMMA StepSaver ==
  ASSUME Inv, NEW s \in Savers, Save(s)
  PROVE  Inv'
<1> USE CapsAssumption, BoundsAssumption
<1>t. TypeOK /\ LogCoversStats /\ CountsConsistent /\ CopyOK /\ HandlersOK /\ FinalOK
  BY DEF Inv
<1>n. NoStats \in Statistics /\ NoStats.total = 0
  BY NoStatsConsistent DEF NoStats
<1>s. /\ mem \in Statistics /\ mem.total \in Nat /\ lines + unlogged \in Nat
      /\ snap \in [Savers -> Statistics]
      /\ spc \in [Savers -> {"off", "waiting", "copy", "open", "write", "done", "failed"}]
  BY <1>t DEF TypeOK, Statistics
<1>1. CASE EndCopy(s)
  <2>1. /\ spc[s] = "copy" /\ snap[s].total = mem.total
        /\ spc' = [spc EXCEPT ![s] = "open"]
        /\ UNCHANGED <<mem, lines, unlogged, file, handlerVars, over, due, main>>
    BY <1>t, <1>1 DEF EndCopy, CopyOK
  <2>2. snap' = [snap EXCEPT ![s] = mem]
    BY <1>1, <1>s, <2>1 DEF EndCopy, Statistics
  <2>3. TypeOK'
    BY <1>t, <1>s, <2>1, <2>2 DEF TypeOK, handlerVars
  <2>4. LogCoversStats'
    <3>1. Uncounted' = Uncounted
      BY <2>1 DEF Uncounted, handlerVars
    <3>2. Cardinality(Uncounted) \in Nat
      BY UncountedFinite
    <3> QED
      BY <1>t, <1>s, <2>1, <2>2, <3>1, <3>2 DEF LogCoversStats, Whole
  <2>5. CountsConsistent' /\ CopyOK'
    BY <1>t, <1>s, <2>1, <2>2 DEF CountsConsistent, CopyOK
  <2>6. HandlersOK' /\ FinalOK'
    BY <1>t, <1>s, <2>1 DEF HandlersOK, FinalOK, handlerVars
  <2> QED
    BY <2>3, <2>4, <2>5, <2>6 DEF Inv
<1>2. CASE OpenFile(s) \/ OpenFails(s) \/ WriteData(s) \/ WriteFails(s)
  <2>1. /\ spc[s] \in {"open", "write"}
        /\ UNCHANGED <<mem, lines, unlogged, handlerVars, due, main>>
        /\ over' \in SUBSET Savers
    BY <1>t, <1>2 DEF OpenFile, OpenFails, WriteData, WriteFails, OthersWriting, TypeOK
  <2>2. file' \in {file, Torn, snap[s]}
    BY <1>2 DEF OpenFile, OpenFails, WriteData, WriteFails
  <2>3. /\ snap' \in [Savers -> Statistics]
        /\ \A x \in Savers : snap'[x] = snap[x] \/ (snap'[x] = NoStats /\ spc'[x] = "waiting")
    <3>1. CASE UNCHANGED snap
      BY <1>s, <3>1
    <3>2. CASE s = "periodic" /\ snap' = [snap EXCEPT !["periodic"] = NoStats]
               /\ spc' = [spc EXCEPT !["periodic"] = "waiting"]
      BY <1>s, <1>n, <3>2
    <3> QED
      BY <1>2, <1>s, <3>1, <3>2 DEF OpenFile, OpenFails, WriteData, WriteFails, Return
  <2>4. \E where \in {"write", "waiting", "done", "failed"} :
          /\ spc' = [spc EXCEPT ![s] = where]
          /\ where = "write" => UNCHANGED snap
          /\ s = "final" => where # "waiting"
    BY <1>2 DEF OpenFile, OpenFails, WriteData, WriteFails, Return, Savers
  <2>5. TypeOK'
    BY <1>t, <1>s, <2>1, <2>2, <2>3, <2>4 DEF TypeOK, handlerVars
  <2>6. LogCoversStats'
    <3>1. Uncounted' = Uncounted
      BY <2>1 DEF Uncounted, handlerVars
    <3>2. \A x \in Savers : snap'[x].total <= lines + unlogged
      BY <1>t, <1>n, <1>s, <2>3 DEF LogCoversStats
    <3>3. Whole(file)' => file'.total <= lines + unlogged
      BY <1>t, <2>2 DEF LogCoversStats, Whole
    <3> QED
      BY <1>t, <2>1, <3>1, <3>2, <3>3 DEF LogCoversStats
  <2>7. CountsConsistent' /\ CopyOK'
    <3>1. Whole(file)' => Consistent(file')
      BY <1>t, <2>1, <2>2 DEF CountsConsistent, Whole
    <3>2. \A x \in Savers : spc'[x] \in {"open", "write"} => Consistent(snap'[x])
      BY <1>t, <1>s, <2>1, <2>3, <2>4 DEF CountsConsistent
    <3>3. CopyOK'
      BY <1>t, <1>s, <2>1, <2>3, <2>4 DEF CopyOK
    <3> QED
      BY <1>t, <2>1, <3>1, <3>2, <3>3 DEF CountsConsistent
  <2>8. HandlersOK' /\ FinalOK'
    BY <1>t, <1>s, <2>1, <2>4 DEF HandlersOK, FinalOK, handlerVars, Savers
  <2> QED
    BY <2>5, <2>6, <2>7, <2>8 DEF Inv
<1> QED
  BY <1>1, <1>2 DEF Save

\* The other steps: starting, the ticker, and shutting down.
LEMMA StepMain ==
  ASSUME Inv,
         Start \/ Tick \/ PeriodicSave \/ PeriodicStop \/ Signal \/ FinalSave
           \/ CloseListener \/ Exit \/ Crash
  PROVE  Inv'
<1> USE CapsAssumption, BoundsAssumption
<1>t. TypeOK /\ LogCoversStats /\ CountsConsistent /\ CopyOK /\ HandlersOK /\ FinalOK
  BY DEF Inv
<1>n. NoStats \in Statistics /\ NoStats.total = 0 /\ Consistent(NoStats) /\ Len(NoStats.recent) = 0
  BY NoStatsConsistent DEF NoStats
<1>s. /\ mem \in Statistics /\ mem.total \in Nat /\ lines + unlogged \in Nat
      /\ snap \in [Savers -> Statistics]
      /\ spc \in [Savers -> {"off", "waiting", "copy", "open", "write", "done", "failed"}]
  BY <1>t DEF TypeOK, Statistics
<1>u. Cardinality(Uncounted) \in Nat
  BY UncountedFinite
<1>1. CASE Start
  <2>1. mem' \in Statistics /\ Consistent(mem') /\ mem'.total <= lines + unlogged
    BY <1>t, <1>n, <1>s, <1>1 DEF Start, TypeOK, CountsConsistent, LogCoversStats, Whole
  <2>2. Len(mem'.recent) <= MaxRecent
    BY <2>1 DEF Consistent, Statistics
  <2>3. /\ snap' \in [Savers -> Statistics] /\ \A s \in Savers : snap'[s] = NoStats
        /\ spc' \in [Savers -> {"waiting", "off"}]
        /\ main \in {"down", "exited"} /\ main' = "serving"
        /\ UNCHANGED <<lines, unlogged, file, handlerVars, over, due>>
    BY <1>n, <1>1 DEF Start
  <2>4. TypeOK'
    BY <1>t, <2>1, <2>2, <2>3 DEF TypeOK, handlerVars
  <2>5. Uncounted' = {} /\ Cardinality(Uncounted') = 0
    <3>1. Uncounted' = {}
      BY <1>t, <2>3 DEF HandlersOK, Uncounted, handlerVars
    <3> QED
      BY <3>1, FS_EmptySet
  <2>6. LogCoversStats'
    BY <1>t, <1>n, <1>s, <2>1, <2>3, <2>5 DEF LogCoversStats, Statistics, Whole
  <2>7. CountsConsistent' /\ CopyOK'
    BY <1>t, <2>1, <2>3 DEF CountsConsistent, CopyOK, Whole
  <2>8. HandlersOK' /\ FinalOK'
    BY <1>t, <2>3 DEF HandlersOK, FinalOK, handlerVars
  <2> QED
    BY <2>4, <2>6, <2>7, <2>8 DEF Inv
<1>2. CASE Exit \/ Crash
  <2>1. /\ mem' = NoStats /\ \A h \in Handlers : hpc'[h] = "idle"
        /\ main' \in {"exited", "down"}
        /\ main' = "exited" => main = "shutdown" /\ spc' = [spc EXCEPT !["periodic"] = "off"]
        /\ main' = "down" => spc' = [s \in Savers |-> "off"]
        /\ UNCHANGED <<lines, unlogged, file, clock>>
    BY <1>2 DEF Exit, Crash, Gone
  <2>2. /\ snap' \in [Savers -> Statistics]
        /\ \A s \in Savers : snap'[s] = snap[s] \/ snap'[s] = NoStats
    <3>1. CASE Exit
      BY <1>n, <1>s, <3>1 DEF Exit
    <3>2. CASE Crash
      BY <1>n, <1>s, <3>2 DEF Crash
    <3> QED
      BY <1>2, <3>1, <3>2
  <2>3. \A s \in Savers : spc'[s] \in {"off", "done", "failed"}
    BY <1>t, <1>s, <2>1 DEF FinalOK, Savers
  <2>4. TypeOK'
    <3>1. /\ hpc' \in [Handlers -> {"idle", "append", "stamp", "record", "delay"}]
          /\ hreq' \in [Handlers -> [ip : IPs, ua : UserAgents, ts : Nat] \cup {NoRequest}]
          /\ over' = {} /\ due' = FALSE
      BY <1>2 DEF Exit, Crash, Gone
    <3>2. spc' \in [Savers -> {"off", "waiting", "copy", "open", "write", "done", "failed"}]
      BY <1>s, <2>1
    <3>3. mem' \in Statistics /\ Len(mem'.recent) <= MaxRecent
      BY <1>n, <2>1
    <3> QED
      BY <1>t, <2>1, <2>2, <3>1, <3>2, <3>3 DEF TypeOK
  <2>5. LogCoversStats'
    <3>1. Uncounted' = {}
      BY <2>1 DEF Uncounted
    <3>2. Cardinality(Uncounted') = 0
      BY <3>1, FS_EmptySet
    <3>3. \A s \in Savers : snap'[s].total <= lines + unlogged
      BY <1>t, <1>n, <1>s, <2>2 DEF LogCoversStats
    <3> QED
      BY <1>t, <1>n, <1>s, <2>1, <3>2, <3>3 DEF LogCoversStats, Whole
  <2>6. CountsConsistent' /\ CopyOK'
    BY <1>t, <1>n, <2>1, <2>3 DEF CountsConsistent, CopyOK, Whole
  <2>7. HandlersOK' /\ FinalOK'
    BY <1>t, <1>s, <2>1 DEF HandlersOK, FinalOK, Savers
  <2> QED
    BY <2>4, <2>5, <2>6, <2>7 DEF Inv
<1>3. ASSUME NEW s \in Savers, BeginCopy(s),
             UNCHANGED <<mem, lines, unlogged, file, handlerVars, over, main>>,
             due' \in BOOLEAN, main = "cleanup" \/ s = "periodic"
      PROVE  Inv'
  <2>1. /\ snap' \in [Savers -> Statistics] /\ snap'[s].total = mem.total
        /\ \A x \in Savers \ {s} : snap'[x] = snap[x]
    <3>1. [NoStats EXCEPT !.total = mem.total] \in Statistics
      BY <1>n, <1>s DEF Statistics
    <3>2. [NoStats EXCEPT !.total = mem.total].total = mem.total
      BY DEF NoStats
    <3> QED
      BY <1>3, <1>s, <3>1, <3>2 DEF BeginCopy
  <2>2. spc' = [spc EXCEPT ![s] = "copy"]
    BY <1>3 DEF BeginCopy
  <2>3. TypeOK'
    BY <1>t, <1>3, <1>s, <2>1, <2>2 DEF TypeOK, handlerVars
  <2>4. LogCoversStats'
    <3>1. Uncounted' = Uncounted
      BY <1>3 DEF Uncounted, handlerVars
    <3>2. mem.total <= lines + unlogged
      BY <1>t, <1>s, <1>u DEF LogCoversStats
    <3> QED
      BY <1>t, <1>3, <2>1, <3>1, <3>2 DEF LogCoversStats, Whole
  <2>5. CountsConsistent' /\ CopyOK'
    BY <1>t, <1>3, <1>s, <2>1, <2>2 DEF CountsConsistent, CopyOK, Whole
  <2>6. HandlersOK' /\ FinalOK'
    BY <1>t, <1>3, <1>s, <2>2 DEF HandlersOK, FinalOK, handlerVars, Savers
  <2> QED
    BY <2>3, <2>4, <2>5, <2>6 DEF Inv
<1>4. CASE PeriodicSave
  BY <1>3, <1>4 DEF PeriodicSave, Savers
<1>5. CASE FinalSave
  BY <1>t, <1>3, <1>5 DEF FinalSave, Savers, TypeOK
<1>6. CASE Tick \/ PeriodicStop \/ Signal \/ CloseListener
  <2>1. /\ UNCHANGED <<mem, lines, unlogged, file, handlerVars, snap, over>>
        /\ due' \in BOOLEAN
        /\ \/ UNCHANGED spc
           \/ spc' = [spc EXCEPT !["periodic"] = "off"]
        /\ \/ UNCHANGED main
           \/ main = "serving" /\ main' = "cleanup"
           \/ main' = "shutdown" /\ spc["final"] \in {"done", "failed"} /\ UNCHANGED spc
    BY <1>t, <1>6 DEF Tick, PeriodicStop, Signal, CloseListener, TypeOK, saverVars
  <2>2. \A s \in Savers : spc'[s] = spc[s] \/ (s = "periodic" /\ spc'[s] = "off")
    BY <1>s, <2>1
  <2>3. TypeOK'
    BY <1>t, <2>1 DEF TypeOK, handlerVars
  <2>4. LogCoversStats'
    BY <1>t, <2>1 DEF LogCoversStats, Uncounted, Whole, handlerVars
  <2>5. CountsConsistent' /\ CopyOK'
    BY <1>t, <2>1, <2>2 DEF CountsConsistent, CopyOK, Whole
  <2>6. HandlersOK' /\ FinalOK'
    BY <1>t, <2>1, <2>2 DEF HandlersOK, FinalOK, handlerVars, Savers
  <2> QED
    BY <2>3, <2>4, <2>5, <2>6 DEF Inv
<1> QED
  BY <1>1, <1>2, <1>4, <1>5, <1>6

LEMMA AlwaysInv == Spec => []Inv
<1>1. Inv /\ UNCHANGED vars => Inv'
  BY DEF vars, handlerVars, saverVars, Inv, TypeOK, LogCoversStats, Uncounted, CountsConsistent,
     CopyOK, HandlersOK, FinalOK, Whole
<1>2. Inv /\ [Next]_vars => Inv'
  BY <1>1, StepHandler, StepSaver, StepMain DEF Next
<1> QED
  BY <1>2, InvInit, PTL DEF Spec

-----------------------------------------------------------------------------
(* The theorems *)

\* Types: in particular the list of recent requests is never longer than
\* MaxRecent, loaded from a file or not.
THEOREM TypeCorrect == Spec => []TypeOK
<1>1. Inv => TypeOK
  BY DEF Inv
<1> QED
  BY <1>1, AlwaysInv, PTL

\* Whatever fails or ends in between, nothing is counted that requests.ndjson
\* does not hold, or that was not reported as unwritten.
THEOREM LogComplete == Spec => []LogCoversStats
<1>1. Inv => LogCoversStats
  BY DEF Inv
<1> QED
  BY <1>1, AlwaysInv, PTL

\* In memory, in every finished copy and in every file a restart can load,
\* total, maps and list are of the same requests: a map with room has counted
\* all of them, a full one no more than there were, and the list is as long as
\* the total says.
THEOREM CountsAgree == Spec => []CountsConsistent
<1>1. Inv => CountsConsistent
  BY DEF Inv
<1> QED
  BY <1>1, AlwaysInv, PTL

=============================================================================
