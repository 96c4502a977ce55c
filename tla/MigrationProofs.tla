--------------------------- MODULE MigrationProofs ---------------------------
(***************************************************************************)
(* Theorems about Migration, for any set of requests and any number of     *)
(* starts.                                                                 *)
(***************************************************************************)
EXTENDS Migration, TLAPS

\* No two lines are of the same request, which has arrived in file mode; a
\* line that was written in part is not a logged one.
LinesOK ==
  log # Absent =>
    /\ \A i \in 1..Len(log) : log[i].req \in arrived
    /\ \A i \in 1..Len(log) : log[i].kind \in Partial => log[i].req \notin logged
    /\ \A i, j \in 1..Len(log) : log[i].req = log[j].req => i = j

Scanning == pc \in {"scan", "rename"}

\* The lines before the scanner have been dealt with.
ScanOK ==
  Scanning =>
    /\ \A i \in 1..(pos - 1) : imported[log[i].req] > 0 \/ log[i].req \in skipped
    /\ pc = "rename" => pos = Len(log) + 1

\* The current migration has not imported the lines the scanner will read.
TurnsOK ==
  /\ \A r \in Requests \ arrived : imported[r] = 0
  /\ \A r \in Requests : imported[r] <= cut + 1
  /\ log # Absent => \A i \in 1..Len(log) : imported[log[i].req] <= cut
  /\ Scanning =>
       /\ cut >= 1
       /\ \A r \in Requests : imported[r] <= cut
       /\ \A i \in pos..Len(log) : imported[log[i].req] <= cut - 1

\* The files a step works on are there.
FilesThere ==
  /\ pc = "files" => log # Absent
  /\ pc = "open" => log # Absent
  /\ pc = "stats" => stats # Absent

Inv == TypeOK /\ LinesOK /\ ScanOK /\ TurnsOK /\ FilesThere /\ NothingLost

-----------------------------------------------------------------------------
LEMMA InitInv == Init => Inv
BY StartsAssumption, ZonesAssumption DEF Init, Inv, Times, TypeOK, LinesOK, ScanOK, TurnsOK, FilesThere,
     NothingLost, Scanning, On

\* Writing the line of a request that has not been written yet.
LEMMA WriteLine ==
  ASSUME Inv, pc = "files", NEW r \in Requests, r \notin arrived, NEW kind \in Kinds,
         log # Absent
  PROVE  /\ Written(r, kind) \in Seq(Lines)
         /\ \A i \in 1..Len(Written(r, kind)) :
              \/ Written(r, kind)[i].req = r
              \/ i \in 1..Len(log) /\ Written(r, kind)[i] = log[i]
         /\ \A i, j \in 1..Len(Written(r, kind)) :
              Written(r, kind)[i].req = Written(r, kind)[j].req => i = j
<1>1. log \in Seq(Lines)
  BY DEF Inv, TypeOK
<1>2. CASE EndsTorn
  <2>1. Len(log) \in 1..Len(log)
    BY <1>1, <1>2 DEF EndsTorn
  <2>2. Written(r, kind) = [log EXCEPT ![Len(log)] = [req |-> r, kind |-> Joined(kind)]]
    BY <1>2 DEF Written
  <2>3. [req |-> r, kind |-> Joined(kind)] \in Lines
    BY DEF Lines, Kinds, Joined
  <2> QED
    BY <1>1, <2>1, <2>2, <2>3 DEF Inv, LinesOK
<1>3. CASE ~EndsTorn
  <2>1. Written(r, kind) = Append(log, [req |-> r, kind |-> kind])
    BY <1>3 DEF Written
  <2>2. [req |-> r, kind |-> kind] \in Lines
    BY DEF Lines
  <2> QED
    BY <1>1, <2>1, <2>2 DEF Inv, LinesOK
<1> QED
  BY <1>2, <1>3


\* Every step of Migration keeps the invariant, action by action.
LEMMA StepInv == Inv /\ [Next]_vars => Inv'
<1> SUFFICES ASSUME Inv, [Next]_vars PROVE Inv'
  OBVIOUS
<1> USE StartsAssumption, ZonesAssumption, NoTimesAssumption, NoFileAssumption
<1>t. TypeOK /\ LinesOK /\ ScanOK /\ TurnsOK /\ FilesThere /\ NothingLost
  BY DEF Inv
<1>1. CASE StartFiles
  <2>1. TypeOK'
    BY <1>t, <1>1 DEF StartFiles, TypeOK, Now, Times, fileVars, dbVars, history
  <2>2. LinesOK' /\ FilesThere'
    <3>1. CASE log = Absent
      <4>1. log' = <<>> /\ log' \in Seq(Lines) /\ pc' = "files"
        BY <1>1, <3>1 DEF StartFiles
      <4>2. log' # Absent
        BY <4>1
      <4>3. Len(log') = 0
        BY <4>1
      <4>4. 1..Len(log') = {}
        BY <4>3
      <4> QED
        BY <4>1, <4>2, <4>4 DEF LinesOK, FilesThere
    <3>2. CASE log # Absent
      <4>1. UNCHANGED <<log, arrived, logged>> /\ pc' = "files"
        BY <1>1, <3>2 DEF StartFiles, history
      <4> QED
        BY <1>t, <3>2, <4>1 DEF LinesOK, FilesThere
    <3> QED
      BY <3>1, <3>2
  <2>3. ScanOK' /\ TurnsOK'
    BY <1>t, <1>1 DEF StartFiles, TypeOK, ScanOK, TurnsOK, Scanning, fileVars, dbVars, history
  <2>4. NothingLost'
    BY <1>t, <1>1 DEF StartFiles, TypeOK, NothingLost, On, fileVars, dbVars, history
  <2> QED
    BY <2>1, <2>2, <2>3, <2>4 DEF Inv
<1>2. ASSUME NEW r \in Requests, AppendLine(r) PROVE Inv'
  <2>1. /\ pc = "files" /\ log # Absent /\ r \notin arrived
        /\ arrived' = arrived \cup {r}
        /\ \E kind \in Kinds :
             /\ log' = Written(r, kind)
             /\ \/ logged' = logged \cup {r} /\ kind \notin Partial
                \/ logged' = logged /\ kind \in Partial /\ ~EndsTorn
        /\ UNCHANGED <<backup, stats, dbVars, pc, pos, startVars, skipped, cut>>
    BY <1>t, <1>2 DEF AppendLine, FilesThere, Kinds, Partial
  <2>2. PICK kind \in Kinds :
             /\ log' = Written(r, kind)
             /\ \/ logged' = logged \cup {r} /\ kind \notin Partial
                \/ logged' = logged /\ kind \in Partial /\ ~EndsTorn
    BY <2>1
  <2>3. /\ log' \in Seq(Lines)
        /\ \A i \in 1..Len(log') : \/ log'[i].req = r
                                   \/ i \in 1..Len(log) /\ log'[i] = log[i]
        /\ \A i, j \in 1..Len(log') : log'[i].req = log'[j].req => i = j
    BY <2>1, <2>2, WriteLine
  <2>4. \A i \in 1..Len(log') : log'[i].kind \in Partial => log'[i].req \notin logged'
    <3>1. CASE EndsTorn
      <4>1. /\ log \in Seq(Lines) /\ Len(log) \in 1..Len(log)
            /\ log' = [log EXCEPT ![Len(log)] = [req |-> r, kind |-> Joined(kind)]]
            /\ logged' = logged \cup {r}
        <5>1. log \in Seq(Lines) /\ log # <<>>
          BY <1>t, <2>1, <3>1 DEF TypeOK, EndsTorn
        <5>2. Len(log) \in 1..Len(log)
          BY <5>1
        <5>3. log' = [log EXCEPT ![Len(log)] = [req |-> r, kind |-> Joined(kind)]]
          BY <2>2, <3>1 DEF Written
        <5>4. logged' = logged \cup {r}
          BY <2>2, <3>1
        <5> QED
          BY <5>1, <5>2, <5>3, <5>4
      <4>2. \A i \in 1..Len(log') : log'[i].kind \in Partial =>
               i \in 1..Len(log) /\ i # Len(log) /\ log'[i] = log[i]
        <5>1. Joined(kind) \notin Partial
          BY DEF Joined, Partial
        <5> QED
          BY <4>1, <5>1
      <4> QED
        BY <1>t, <2>1, <4>1, <4>2 DEF LinesOK
    <3>2. CASE ~EndsTorn
      <4>1. /\ log \in Seq(Lines)
            /\ log' = Append(log, [req |-> r, kind |-> kind])
        BY <1>t, <2>1, <2>2, <3>2 DEF TypeOK, Written
      <4>2. \A i \in 1..Len(log) : log'[i] = log[i] /\ log[i].req # r
        BY <1>t, <2>1, <4>1 DEF LinesOK
      <4>3. /\ Len(log') = Len(log) + 1 /\ Len(log) \in Nat
            /\ log'[Len(log) + 1] = [req |-> r, kind |-> kind]
        BY <4>1
      <4>4. kind \in Partial => r \notin logged'
        BY <1>t, <2>1, <2>2 DEF TypeOK
      <4>5. \A i \in 1..Len(log) : log'[i].kind \in Partial => log'[i].req \notin logged'
        BY <1>t, <2>1, <2>2, <4>2 DEF LinesOK
      <4> QED
        BY <4>3, <4>4, <4>5
    <3> QED
      BY <3>1, <3>2
  <2>5. TypeOK'
    BY <1>t, <2>1, <2>2, <2>3 DEF TypeOK, dbVars, startVars
  <2>6. LinesOK'
    BY <1>t, <2>1, <2>3, <2>4 DEF LinesOK
  <2>7. ScanOK' /\ FilesThere'
    BY <1>t, <2>1, <2>3 DEF ScanOK, FilesThere, Scanning
  <2>8. TurnsOK'
    <3>1. \A i \in 1..Len(log') : imported[log'[i].req] <= cut
      BY <1>t, <2>1, <2>3 DEF TypeOK, TurnsOK
    <3> QED
      BY <1>t, <2>1, <3>1 DEF TypeOK, TurnsOK, Scanning, dbVars
  <2>9. NothingLost'
    <3>1. On(log', r)
      <4>1. CASE EndsTorn
        BY <1>t, <2>1, <2>2, <2>3, <4>1, SMTT(30) DEF TypeOK, EndsTorn, Written, On
      <4>2. CASE ~EndsTorn
        <5>1. log \in Seq(Lines) /\ log' = Append(log, [req |-> r, kind |-> kind])
          BY <1>t, <2>1, <2>2, <4>2 DEF TypeOK, Written
        <5>2. Len(log) + 1 \in DOMAIN log' /\ log'[Len(log) + 1].req = r
          BY <5>1
        <5> QED
          BY <2>3, <5>2 DEF On
      <4> QED
        BY <4>1, <4>2
    <3>2. ASSUME NEW q \in logged, On(log, q) PROVE On(log', q)
      <4>1. PICK i \in DOMAIN log : log[i].req = q
        BY <3>2 DEF On
      <4>2. log \in Seq(Lines) /\ i \in 1..Len(log) /\ log[i].kind \notin Partial
        BY <1>t, <2>1, <4>1 DEF TypeOK, LinesOK
      <4>3. i \in DOMAIN log' /\ log'[i] = log[i]
        <5>1. CASE EndsTorn
          BY <2>2, <4>2, <5>1 DEF EndsTorn, Written
        <5>2. CASE ~EndsTorn
          BY <2>2, <4>2, <5>2 DEF Written
        <5> QED
          BY <5>1, <5>2
      <4> QED
        BY <2>3, <4>1, <4>3 DEF On
    <3>3. logged' \subseteq logged \cup {r}
      BY <2>2
    <3> QED
      BY <1>t, <2>1, <3>1, <3>2, <3>3 DEF NothingLost, dbVars
  <2> QED
    BY <2>5, <2>6, <2>7, <2>8, <2>9 DEF Inv
<1>3. CASE SaveStats
  BY <1>t, <1>3 DEF SaveStats, Inv, TypeOK, LinesOK, ScanOK, TurnsOK, FilesThere,
       NothingLost, Scanning, On, dbVars, startVars, history
<1>4. CASE StartDatabase
  <2>1. TypeOK'
    BY <1>t, <1>4 DEF StartDatabase, TypeOK, Now, Times, startVars, fileVars, history
  <2>2. LinesOK' /\ ScanOK' /\ TurnsOK' /\ FilesThere' /\ NothingLost'
    BY <1>t, <1>4 DEF StartDatabase, TypeOK, LinesOK, ScanOK, TurnsOK, FilesThere,
       NothingLost, Scanning, On, fileVars, history
  <2> QED
    BY <2>1, <2>2 DEF Inv
<1>5. CASE OpenLog
  <2>1. TypeOK' /\ FilesThere'
    BY <1>t, <1>5 DEF OpenLog, TypeOK, FilesThere, fileVars, dbVars, startVars
  <2>2. LinesOK' /\ NothingLost'
    BY <1>t, <1>5 DEF OpenLog, LinesOK, NothingLost, On, fileVars, dbVars
  <2>3. ScanOK' /\ TurnsOK'
    <3>1. /\ log \in Seq(Lines) /\ imported \in [Requests -> Nat] /\ cut \in Nat
          /\ UNCHANGED <<log, imported, arrived, skipped>>
      BY <1>t, <1>5 DEF OpenLog, TypeOK, FilesThere, fileVars, dbVars
    <3>2. \A i \in 1..Len(log) : imported[log[i].req] <= cut /\ log[i].req \in Requests
      <4>1. log # Absent
        BY <3>1
      <4>2. \A i \in 1..Len(log) : log[i] \in Lines
        BY <3>1
      <4> QED
        BY <1>t, <4>1, <4>2 DEF TurnsOK, Lines
    <3>3. CASE pc' = "scan" /\ pos' = 1 /\ cut' = cut + 1
      BY <1>t, <3>1, <3>2, <3>3 DEF ScanOK, TurnsOK, Scanning
    <3>4. CASE pc' = "serving" /\ UNCHANGED <<pos, cut>>
      BY <1>t, <3>1, <3>4 DEF ScanOK, TurnsOK, Scanning
    <3> QED
      BY <1>5, <3>3, <3>4 DEF OpenLog
  <2> QED
    BY <2>1, <2>2, <2>3 DEF Inv
<1>6. CASE SkipLine
  <2>1. log \in Seq(Lines) /\ pos \in 1..Len(log) /\ log[pos].req \in Requests
    <3>1. log \in Seq(Lines) /\ pos \in 1..(Len(log) + 1) /\ pos <= Len(log)
      BY <1>t, <1>6 DEF SkipLine, AtLine, TypeOK
    <3>2. pos \in 1..Len(log) /\ log[pos] \in Lines
      BY <3>1
    <3> QED
      BY <3>1, <3>2 DEF Lines
  <2>2. TypeOK' /\ FilesThere'
    BY <1>t, <1>6, <2>1 DEF SkipLine, AtLine, TypeOK, FilesThere, fileVars, dbVars, startVars
  <2>3. LinesOK' /\ NothingLost'
    BY <1>t, <1>6 DEF SkipLine, AtLine, LinesOK, NothingLost, On, fileVars, dbVars
  <2>4. ScanOK' /\ TurnsOK'
    <3>1. /\ Scanning /\ pc = "scan" /\ pc' = pc /\ pos' = pos + 1
          /\ skipped' = skipped \cup {log[pos].req}
          /\ UNCHANGED <<log, imported, arrived, cut>>
      BY <1>6 DEF SkipLine, AtLine, Scanning, fileVars, dbVars
    <3>2. ScanOK'
      BY <1>t, <2>1, <3>1 DEF ScanOK, Scanning
    <3>3. TurnsOK'
      BY <1>t, <2>1, <3>1 DEF TurnsOK, Scanning
    <3> QED
      BY <3>2, <3>3
  <2> QED
    BY <2>2, <2>3, <2>4 DEF Inv
<1>7. CASE ImportLine
  <2> DEFINE q == log[pos].req
  <2>1. log \in Seq(Lines) /\ pos \in 1..Len(log) /\ q \in Requests
    <3>1. log \in Seq(Lines) /\ pos \in 1..(Len(log) + 1) /\ pos <= Len(log)
      BY <1>t, <1>7 DEF ImportLine, AtLine, TypeOK
    <3>2. pos \in 1..Len(log) /\ log[pos] \in Lines
      BY <3>1
    <3> QED
      BY <3>1, <3>2 DEF Lines
  <2>2. /\ imported' = [imported EXCEPT ![q] = @ + 1] /\ pos' = pos + 1 /\ Scanning
        /\ pc = "scan"
        /\ UNCHANGED <<fileVars, dbStart, pc, startVars, history>>
    BY <1>7 DEF ImportLine, AtLine, Scanning
  <2>3. /\ imported' \in [Requests -> Nat]
        /\ imported'[q] = imported[q] + 1
        /\ \A r \in Requests \ {q} : imported'[r] = imported[r]
    BY <1>t, <2>1, <2>2 DEF TypeOK
  <2>4. TypeOK' /\ FilesThere'
    BY <1>t, <2>1, <2>2, <2>3 DEF TypeOK, FilesThere, fileVars, startVars, history
  <2>5. LinesOK'
    BY <1>t, <2>2 DEF LinesOK, fileVars, history
  <2>6. NothingLost'
    BY <1>t, <2>1, <2>2, <2>3 DEF TypeOK, NothingLost, On, fileVars, history
  <2>7. \A i \in 1..Len(log) : log[i].req \in Requests /\ (log[i].req = q => i = pos)
    BY <1>t, <2>1 DEF TypeOK, LinesOK, Lines
  <2>8. ScanOK'
    BY <1>t, <2>1, <2>2, <2>3, <2>7 DEF TypeOK, ScanOK, Scanning, fileVars, history
  <2>9. TurnsOK'
    <3>1. q \in arrived /\ imported[q] <= cut - 1 /\ cut >= 1
      BY <1>t, <2>1, <2>2 DEF LinesOK, TurnsOK
    <3>2. \A r \in Requests \ arrived' : imported'[r] = 0
      BY <1>t, <2>2, <2>3, <3>1 DEF TurnsOK, history
    <3>3. imported'[q] <= cut' /\ cut' = cut
      BY <1>t, <2>1, <2>2, <2>3, <3>1 DEF TypeOK, history
    <3>4. \A r \in Requests : imported'[r] <= cut' + 1
      BY <1>t, <2>2, <2>3, <3>3 DEF TypeOK, TurnsOK, history
    <3>5. \A i \in 1..Len(log) : imported'[log[i].req] <= cut
      BY <1>t, <2>1, <2>2, <2>3, <2>7, <3>3 DEF TurnsOK
    <3>6. \A r \in Requests : imported'[r] <= cut'
      BY <1>t, <2>2, <2>3, <3>3 DEF TypeOK, TurnsOK
    <3>7. \A i \in pos'..Len(log) : imported'[log[i].req] <= cut - 1
      BY <1>t, <2>1, <2>2, <2>3, <2>7 DEF TypeOK, TurnsOK
    <3> QED
      BY <2>2, <3>1, <3>2, <3>3, <3>4, <3>5, <3>6, <3>7 DEF TurnsOK, Scanning, fileVars, history
  <2> QED
    BY <2>4, <2>5, <2>6, <2>8, <2>9 DEF Inv
<1>8. CASE LongLine
  BY <1>t, <1>8 DEF LongLine, AtLine, Inv, TypeOK, LinesOK, ScanOK, TurnsOK, FilesThere,
       NothingLost, Scanning, On, fileVars, dbVars, startVars, history
<1>9. CASE EndScan
  <2>1. TypeOK' /\ FilesThere' /\ LinesOK' /\ NothingLost'
    BY <1>t, <1>9 DEF EndScan, TypeOK, FilesThere, LinesOK, NothingLost, On, fileVars,
         dbVars, startVars, history
  <2>2. ScanOK' /\ TurnsOK'
    BY <1>t, <1>9 DEF EndScan, TypeOK, ScanOK, TurnsOK, Scanning, fileVars, dbVars, history
  <2> QED
    BY <2>1, <2>2 DEF Inv
<1>10. CASE RenameLog
  <2>1. /\ pc = "rename" /\ Scanning /\ log \in Seq(Lines) /\ pos = Len(log) + 1 /\ cut >= 1
        /\ pc' = AfterLog
        /\ UNCHANGED <<stats, dbVars, pos, startVars, arrived, logged, skipped>>
    BY <1>t, <1>10 DEF RenameLog, TypeOK, ScanOK, TurnsOK, Scanning
  <2>2. CASE backup' = log /\ log' = Absent /\ cut' = cut - 1
    <3>1. TypeOK' /\ FilesThere'
      BY <1>t, <2>1, <2>2 DEF TypeOK, FilesThere, AfterLog, dbVars, startVars
    <3>2. LinesOK' /\ ScanOK' /\ TurnsOK'
      <4>1. \A r \in Requests : imported[r] <= cut
        BY <1>t, <2>1, <2>2 DEF TurnsOK
      <4> QED
        BY <1>t, <2>1, <2>2, <4>1 DEF TypeOK, LinesOK, ScanOK, TurnsOK, Scanning, AfterLog, dbVars
    <3>3. NothingLost'
      BY <1>t, <2>1, <2>2 DEF NothingLost, ScanOK, On, dbVars
    <3> QED
      BY <3>1, <3>2, <3>3 DEF Inv
  <2>3. CASE UNCHANGED <<backup, log, cut>>
    BY <1>t, <2>1, <2>3 DEF Inv, TypeOK, LinesOK, ScanOK, TurnsOK, FilesThere, NothingLost,
         Scanning, On, AfterLog, dbVars, startVars
  <2> QED
    BY <1>10, <2>2, <2>3 DEF RenameLog
<1>11. CASE MigrateStats
  <2>1. TypeOK' /\ FilesThere'
    BY <1>t, <1>11 DEF MigrateStats, TypeOK, FilesThere, fileVars, startVars, history
  <2>2. LinesOK' /\ ScanOK' /\ TurnsOK' /\ NothingLost'
    BY <1>t, <1>11 DEF MigrateStats, LinesOK, ScanOK, TurnsOK, NothingLost, Scanning, On,
         fileVars, history
  <2> QED
    BY <2>1, <2>2 DEF Inv
<1>12. CASE RenameStats
  BY <1>t, <1>12 DEF RenameStats, Inv, TypeOK, LinesOK, ScanOK, TurnsOK, FilesThere,
       NothingLost, Scanning, On, dbVars, startVars, history
<1>13. CASE Stop
  BY <1>t, <1>13 DEF Stop, Inv, TypeOK, LinesOK, ScanOK, TurnsOK, FilesThere,
       NothingLost, Scanning, On, fileVars, dbVars, startVars, history
<1>14. CASE UNCHANGED vars
  BY <1>t, <1>14 DEF vars, Inv, TypeOK, LinesOK, ScanOK, TurnsOK, FilesThere,
       NothingLost, Scanning, On, fileVars, dbVars, startVars, history
<1> QED
  BY <1>1, <1>2, <1>3, <1>4, <1>5, <1>6, <1>7, <1>8, <1>9, <1>10, <1>11, <1>12, <1>13, <1>14
     DEF Next, Migrate

LEMMA AlwaysInv == Spec => []Inv
<1> QED
  BY InitInv, StepInv, PTL DEF Spec

\* Types.
THEOREM TypeCorrect == Spec => []TypeOK
<1>1. Inv => TypeOK
  BY DEF Inv
<1> QED
  BY <1>1, AlwaysInv, PTL

\* Whatever ends a migration, and however often one is repeated, a request
\* that was logged is in the log, in the database, or reported and backed up.
THEOREM NoRequestLost == Spec => []NothingLost
<1>1. Inv => NothingLost
  BY DEF Inv
<1> QED
  BY <1>1, AlwaysInv, PTL

\* A request is imported twice only on account of a migration that was cut
\* short: with none, each request of a renamed log is counted once.
THEOREM ImportsAccounted == Spec => []ImportsBounded
<1>1. Inv => ImportsBounded
  <2> SUFFICES ASSUME Inv, NEW r \in Requests
               PROVE  imported[r] <= cut + IF On(log, r) THEN 0 ELSE 1
    BY DEF ImportsBounded
  <2>1. CASE On(log, r)
    <3>1. log \in Seq(Lines) /\ imported[r] \in Nat /\ cut \in Nat
      BY <2>1 DEF Inv, TypeOK, On
    <3>2. PICK i \in 1..Len(log) : log[i].req = r
      BY <2>1, <3>1 DEF On
    <3> QED
      BY <2>1, <3>1, <3>2 DEF Inv, TurnsOK, On
  <2>2. CASE ~On(log, r)
    BY <2>2 DEF Inv, TypeOK, TurnsOK
  <2> QED
    BY <2>1, <2>2
<1> QED
  BY <1>1, AlwaysInv, PTL

=============================================================================
