---------------------------- MODULE ServerProofs ----------------------------
(***************************************************************************)
(* Theorems about Server, for any handlers, addresses and page sizes.      *)
(***************************************************************************)
EXTENDS Server, FiniteSetTheorems, TLAPS

-----------------------------------------------------------------------------
(* The inductive invariant *)

\* A handler at work has a request; none is at work without a process, and none
\* can begin once the listener is closed.
ServingOK ==
  /\ \A h \in Handlers : hpc[h] # "idle" => req[h] \in Requests
  /\ Ended => \A h \in Handlers : hpc[h] = "idle"
  /\ main \in {"shutdown", "closing", "exited", "failed"} => listener = "closed"

\* What a page has at each step of its making.
PageOf(h) ==
  /\ links[h] = 0 => made[h] = 0
  /\ links[h] # 0 => links[h] \in LinksPerPageMin .. LinksPerPageMax /\ made[h] <= links[h]
  /\ hpc[h] \notin {"page", "draw", "write", "panic"} => links[h] = 0
  /\ hpc[h] \in {"page", "draw"} /\ links[h] # 0 => made[h] < links[h]
  /\ hpc[h] = "write" => links[h] # 0 /\ made[h] = links[h]

PagesOK == \A h \in Handlers : PageOf(h)

Inv == TypeOK /\ ServingOK /\ PagesOK /\ ClosedAfterLastUse /\ RecordedWereAdmitted

-----------------------------------------------------------------------------
(* Who is recording *)

LEMMA RecordingFinite ==
  ASSUME NEW i \in IPs
  PROVE  /\ Recording(i) \subseteq Handlers /\ IsFiniteSet(Recording(i))
         /\ Cardinality(Recording(i)) \in Nat
<1>1. Recording(i) \subseteq Handlers
  BY DEF Recording
<1> QED
  BY <1>1, ServerAssumption, FS_Subset, FS_CardinalityType

LEMMA ClientIPTyped == ASSUME NEW q \in Requests PROVE GetClientIP(q) \in IPs
BY ServerAssumption DEF Requests, GetClientIP

\* Steps that nobody who records takes, and that lead nobody there.
LEMMA RecordingSame ==
  ASSUME RecordedWereAdmitted, UNCHANGED <<admitted, recorded>>,
         \A h \in Handlers : (hpc'[h] = "record") <=> (hpc[h] = "record"),
         \A h \in Handlers : hpc[h] = "record" => req'[h] = req[h]
  PROVE  RecordedWereAdmitted'
<1>1. ASSUME NEW i \in IPs PROVE Recording(i)' = Recording(i)
  BY DEF Recording, GetClientIP
<1> QED
  BY <1>1 DEF RecordedWereAdmitted

-----------------------------------------------------------------------------
(* Every step keeps the invariant *)

LEMMA InitInv == Init => Inv
<1> SUFFICES ASSUME Init PROVE Inv
  OBVIOUS
<1> USE DEF Init
<1>1. TypeOK
  <2>1. 0 \in 0 .. LinksPerPageMax
    BY ServerAssumption
  <2>2. /\ hpc \in [Handlers -> {"idle"}] /\ req \in [Handlers -> {Nothing}]
        /\ links \in [Handlers -> {0}] /\ made \in [Handlers -> {0}]
        /\ admitted \in [IPs -> {0}] /\ recorded \in [IPs -> {0}]
    OBVIOUS
  <2> QED
    BY <2>1, <2>2 DEF TypeOK
<1>2. ServingOK /\ PagesOK /\ ClosedAfterLastUse
  BY DEF ServingOK, PagesOK, PageOf, ClosedAfterLastUse, Ended
<1>3. RecordedWereAdmitted
  <2>1. \A i \in IPs : Recording(i) = {}
    BY DEF Recording
  <2> QED
    BY <2>1, FS_EmptySet DEF RecordedWereAdmitted
<1> QED
  BY <1>1, <1>2, <1>3 DEF Inv

\* A handler step that neither begins nor ends a recording.
LEMMA HandlerStep ==
  ASSUME Inv, NEW h \in Handlers, hpc[h] # "idle",
         NEW step \in {"idle", "limit", "admin", "delay", "page", "draw", "panic", "write"},
         hpc' = [hpc EXCEPT ![h] = step], hpc[h] # "record",
         req' \in {req, [req EXCEPT ![h] = Nothing]}, step # "idle" => req' = req,
         gone' \subseteq Handlers, mu' \in Handlers \cup {NoThread},
         links' \in [Handlers -> 0 .. LinksPerPageMax],
         made' \in [Handlers -> 0 .. LinksPerPageMax],
         \A x \in Handlers \ {h} : links'[x] = links[x] /\ made'[x] = made[x],
         PageOf(h)',
         UNCHANGED <<main, signal, listener, db, stuck, arrived, admitted, recorded>>
  PROVE  Inv'
<1> USE DEF Inv
<1>1. hpc \in [Handlers -> {"idle", "limit", "admin", "record", "delay", "page", "draw",
                             "panic", "write"}]
  BY DEF TypeOK
<1>2. req' \in [Handlers -> Requests \cup {Nothing}]
  <2>1. req \in [Handlers -> Requests \cup {Nothing}]
    BY DEF TypeOK
  <2>2. [req EXCEPT ![h] = Nothing] \in [Handlers -> Requests \cup {Nothing}]
    BY <2>1
  <2> QED
    BY <2>1, <2>2
<1>3. TypeOK'
  BY <1>1, <1>2 DEF TypeOK
<1>4. \A x \in Handlers \ {h} : hpc'[x] = hpc[x] /\ req'[x] = req[x]
  <2>1. req \in [Handlers -> Requests \cup {Nothing}]
    BY DEF TypeOK
  <2>2. \A x \in Handlers \ {h} : [req EXCEPT ![h] = Nothing][x] = req[x]
    BY <2>1
  <2> QED
    BY <1>1, <2>2
<1>5. hpc'[h] = step
  BY <1>1
<1>6. ~Ended /\ main \notin {"closing", "exited"}
  BY DEF ServingOK, ClosedAfterLastUse
<1>7. ServingOK'
  BY <1>4, <1>5, <1>6 DEF ServingOK, Ended
<1>8. PagesOK'
  BY <1>4 DEF PagesOK, PageOf
<1>9. ClosedAfterLastUse'
  BY <1>6 DEF ClosedAfterLastUse
<1>10. RecordedWereAdmitted'
  BY <1>4, <1>5, RecordingSame
<1> QED
  BY <1>3, <1>7, <1>8, <1>9, <1>10

\* The handler returns.
LEMMA ReturnInv ==
  ASSUME Inv, NEW h \in Handlers, hpc[h] \notin {"idle", "record"}, Return(h),
         mu' = mu, UNCHANGED <<mainVars, stuck, countVars>>
  PROVE  Inv'
<1>1. /\ links \in [Handlers -> 0 .. LinksPerPageMax] /\ gone \subseteq Handlers
      /\ made \in [Handlers -> 0 .. LinksPerPageMax] /\ mu \in Handlers \cup {NoThread}
      /\ hpc' = [hpc EXCEPT ![h] = "idle"] /\ DOMAIN hpc = Handlers
      /\ 0 \in 0 .. LinksPerPageMax
  BY ServerAssumption DEF Inv, TypeOK, Return, Goto
<1>2. /\ links' = [links EXCEPT ![h] = 0] /\ made' = [made EXCEPT ![h] = 0]
      /\ req' = [req EXCEPT ![h] = Nothing] /\ gone' = gone \ {h}
  BY DEF Return
<1>3. PageOf(h)'
  BY <1>1, <1>2 DEF PageOf
<1> QED
  BY <1>1, <1>2, <1>3, HandlerStep DEF mainVars, countVars

LEMMA AcceptInv == ASSUME Inv, NEW h \in Handlers, Accept(h) PROVE Inv'
<1> USE DEF Inv, Accept, Goto, mainVars, pageVars
<1>1. TypeOK'
  BY DEF TypeOK
<1>2. main \notin {"shutdown", "closing", "exited", "failed"}
  BY DEF ServingOK
<1>3. ServingOK'
  BY <1>2 DEF ServingOK, Ended, TypeOK
<1>4. PagesOK'
  BY DEF PagesOK, PageOf, TypeOK
<1>5. ClosedAfterLastUse'
  BY <1>2 DEF ClosedAfterLastUse
<1>6. RecordedWereAdmitted'
  <2>1. \A x \in Handlers :
          /\ (hpc'[x] = "record") <=> (hpc[x] = "record")
          /\ hpc[x] = "record" => req'[x] = req[x]
    BY DEF TypeOK
  <2> QED
    BY <2>1, RecordingSame
<1> QED
  BY <1>1, <1>3, <1>4, <1>5, <1>6

LEMMA DisconnectInv == ASSUME Inv, NEW h \in Handlers, Disconnect(h) PROVE Inv'
<1> USE DEF Inv, Disconnect, mainVars, pageVars, countVars
<1>1. TypeOK'
  BY DEF TypeOK
<1>2. ServingOK' /\ PagesOK' /\ ClosedAfterLastUse'
  BY DEF ServingOK, PagesOK, PageOf, ClosedAfterLastUse, Ended
<1>3. RecordedWereAdmitted'
  BY RecordingSame
<1> QED
  BY <1>1, <1>2, <1>3

\* The limiter counts the request before the statistics can.
LEMMA AllowInv == ASSUME Inv, NEW h \in Handlers, Allow(h) PROVE Inv'
<1> USE DEF Inv
<1> DEFINE ip == GetClientIP(req[h])
           step == IF req[h].route = "trap" THEN "record" ELSE "admin"
<1>1. /\ hpc[h] = "limit" /\ hpc' = [hpc EXCEPT ![h] = step]
      /\ admitted' = [admitted EXCEPT ![ip] = @ + 1]
      /\ UNCHANGED <<main, signal, listener, db, stuck, req, gone, links, made, mu, arrived,
                     recorded>>
  BY DEF Allow, Goto, mainVars, pageVars
<1>2. ip \in IPs
  BY <1>1, ClientIPTyped DEF ServingOK
<1>3. step \in {"record", "admin"}
  OBVIOUS
<1> HIDE DEF ip, step
<1>4. TypeOK'
  BY <1>1, <1>2, <1>3 DEF TypeOK
<1>5. ~Ended /\ main \notin {"closing", "exited"}
  BY <1>1 DEF ServingOK, ClosedAfterLastUse
<1>6. hpc'[h] = step /\ \A x \in Handlers \ {h} : hpc'[x] = hpc[x]
  BY <1>1 DEF TypeOK
<1>7. ServingOK'
  BY <1>1, <1>5, <1>6 DEF ServingOK, Ended
<1>8. PagesOK'
  BY <1>1, <1>3, <1>6 DEF PagesOK, PageOf
<1>9. ClosedAfterLastUse'
  BY <1>1, <1>5 DEF ClosedAfterLastUse
<1>10. RecordedWereAdmitted'
  <2> SUFFICES ASSUME NEW i \in IPs
               PROVE  recorded[i] + Cardinality(Recording(i)') <= admitted'[i]
    BY <1>1 DEF RecordedWereAdmitted
  <2>1. /\ recorded[i] \in Nat /\ admitted[i] \in Nat /\ Cardinality(Recording(i)) \in Nat
        /\ IsFiniteSet(Recording(i))
        /\ recorded[i] + Cardinality(Recording(i)) <= admitted[i]
    BY RecordingFinite DEF TypeOK, RecordedWereAdmitted
  <2>2. CASE i = ip
    <3>1. admitted'[i] = admitted[i] + 1
      BY <1>1, <2>2 DEF TypeOK
    <3>2. Recording(i)' \in {Recording(i), Recording(i) \cup {h}}
      BY <1>1, <1>3, <1>6 DEF Recording, GetClientIP
    <3>3. Cardinality(Recording(i) \cup {h}) <= Cardinality(Recording(i)) + 1
          /\ Cardinality(Recording(i) \cup {h}) \in Nat
      BY <2>1, FS_AddElement, SMTT(30)
    <3>4. Cardinality(Recording(i)') <= Cardinality(Recording(i)) + 1
          /\ Cardinality(Recording(i)') \in Nat
      <4>1. CASE Recording(i)' = Recording(i)
        BY <2>1, <4>1
      <4>2. CASE Recording(i)' = Recording(i) \cup {h}
        BY <3>3, <4>2
      <4> QED
        BY <3>2, <4>1, <4>2
    <3> QED
      BY <2>1, <3>1, <3>4
  <2>3. CASE i # ip
    <3>1. admitted'[i] = admitted[i]
      BY <1>1, <2>3 DEF TypeOK
    <3>2. Recording(i)' = Recording(i)
      BY <1>1, <1>6, <2>3 DEF Recording, GetClientIP, ip
    <3> QED
      BY <2>1, <3>1, <3>2
  <2> QED
    BY <2>2, <2>3
<1> QED
  BY <1>4, <1>7, <1>8, <1>9, <1>10

\* A request is recorded at most once, for the address it was admitted for.
LEMMA RecordRequestInv == ASSUME Inv, NEW h \in Handlers, RecordRequest(h) PROVE Inv'
<1> USE DEF Inv
<1> DEFINE ip == GetClientIP(req[h])
<1>1. /\ hpc[h] = "record" /\ hpc' = [hpc EXCEPT ![h] = "delay"]
      /\ recorded' = [recorded EXCEPT ![ip] = @ + 1] \/ recorded' = recorded
      /\ UNCHANGED <<main, signal, listener, db, stuck, req, gone, links, made, mu, arrived,
                     admitted>>
  BY DEF RecordRequest, Goto, mainVars, pageVars
<1>2. ip \in IPs
  BY <1>1, ClientIPTyped DEF ServingOK
<1> HIDE DEF ip
<1>3. TypeOK'
  <2>1. recorded' \in [IPs -> Nat]
    BY <1>1, <1>2 DEF TypeOK
  <2> QED
    BY <1>1, <2>1 DEF TypeOK
<1>4. ~Ended /\ main \notin {"closing", "exited"}
  BY <1>1 DEF ServingOK, ClosedAfterLastUse
<1>5. hpc'[h] = "delay" /\ \A x \in Handlers \ {h} : hpc'[x] = hpc[x]
  BY <1>1 DEF TypeOK
<1>6. ServingOK'
  BY <1>1, <1>4, <1>5 DEF ServingOK, Ended
<1>7. PagesOK'
  BY <1>1, <1>5 DEF PagesOK, PageOf
<1>8. ClosedAfterLastUse'
  BY <1>1, <1>4 DEF ClosedAfterLastUse
<1>9. RecordedWereAdmitted'
  <2> SUFFICES ASSUME NEW i \in IPs
               PROVE  recorded'[i] + Cardinality(Recording(i)') <= admitted[i]
    BY <1>1 DEF RecordedWereAdmitted
  <2>1. /\ recorded[i] \in Nat /\ admitted[i] \in Nat /\ Cardinality(Recording(i)) \in Nat
        /\ IsFiniteSet(Recording(i))
        /\ recorded[i] + Cardinality(Recording(i)) <= admitted[i]
    BY RecordingFinite DEF TypeOK, RecordedWereAdmitted
  <2>2. CASE i = ip
    <3>1. recorded'[i] \in {recorded[i], recorded[i] + 1}
      BY <1>1, <2>2 DEF TypeOK
    <3>2. h \in Recording(i) /\ Recording(i)' = Recording(i) \ {h}
      BY <1>1, <1>5, <2>2 DEF Recording, GetClientIP, ip
    <3>3. Cardinality(Recording(i)') = Cardinality(Recording(i)) - 1
      BY <2>1, <3>2, FS_RemoveElement
    <3> QED
      BY <2>1, <3>1, <3>3
  <2>3. CASE i # ip
    <3>1. recorded'[i] = recorded[i]
      BY <1>1, <2>3 DEF TypeOK
    <3>2. Recording(i)' = Recording(i)
      BY <1>1, <1>5, <2>3 DEF Recording, GetClientIP, ip
    <3> QED
      BY <2>1, <3>1, <3>2
  <2> QED
    BY <2>2, <2>3
<1> QED
  BY <1>3, <1>6, <1>7, <1>8, <1>9

LEMMA LockSourceInv == ASSUME Inv, NEW h \in Handlers, LockSource(h) PROVE Inv'
<1>1. /\ hpc[h] = "page" /\ hpc' = [hpc EXCEPT ![h] = "draw"] /\ mu' = h
      /\ UNCHANGED <<main, signal, listener, db, stuck, req, gone, links, made, arrived,
                     admitted, recorded>>
  BY DEF LockSource, Goto, mainVars, countVars
<1>2. PageOf(h)'
  BY <1>1 DEF Inv, PagesOK, PageOf, TypeOK
<1> QED
  BY <1>1, <1>2, HandlerStep DEF Inv, TypeOK

LEMMA PanicInv == ASSUME Inv, NEW h \in Handlers, Panic(h) PROVE Inv'
<1>1. /\ hpc[h] = "draw" /\ hpc' = [hpc EXCEPT ![h] = "panic"] /\ mu' = NoThread
      /\ UNCHANGED <<main, signal, listener, db, stuck, req, gone, links, made, arrived,
                     admitted, recorded>>
  BY DEF Panic, Goto, mainVars, countVars
<1>2. PageOf(h)'
  BY <1>1 DEF Inv, PagesOK, PageOf, TypeOK
<1> QED
  BY <1>1, <1>2, HandlerStep DEF Inv, TypeOK

LEMMA DelayInv == ASSUME Inv, NEW h \in Handlers, Delay(h) PROVE Inv'
<1>1. /\ hpc[h] = "delay" /\ hpc' = [hpc EXCEPT ![h] = "page"]
      /\ UNCHANGED <<main, signal, listener, db, stuck, req, gone, links, made, mu, arrived,
                     admitted, recorded>>
  BY DEF Delay, Goto, mainVars, pageVars, countVars
<1>2. PageOf(h)'
  BY <1>1 DEF Inv, PagesOK, PageOf, TypeOK
<1> QED
  BY <1>1, <1>2, HandlerStep DEF Inv, TypeOK

\* The drawn number of links is in range, and the page is written when it has
\* that many.
LEMMA DrawnInv == ASSUME Inv, NEW h \in Handlers, Drawn(h) PROVE Inv'
<1>1. /\ hpc[h] = "draw" /\ mu' = NoThread
      /\ UNCHANGED <<main, signal, listener, db, stuck, req, gone, arrived, admitted, recorded>>
  BY DEF Drawn, mainVars, countVars
<1>2. /\ links \in [Handlers -> 0 .. LinksPerPageMax] /\ made \in [Handlers -> 0 .. LinksPerPageMax]
      /\ DOMAIN hpc = Handlers /\ gone \subseteq Handlers /\ PageOf(h)
      /\ LinksPerPageMin \in Nat \ {0} /\ LinksPerPageMax \in Nat
      /\ LinksPerPageMin <= LinksPerPageMax
  BY ServerAssumption DEF Inv, TypeOK, PagesOK
<1>3. CASE links[h] = 0
  <2>1. PICK n \in RandomInt(LinksPerPageMin, LinksPerPageMax) :
          /\ links' = [links EXCEPT ![h] = n] /\ made' = made
          /\ hpc' = [hpc EXCEPT ![h] = "page"]
    BY <1>3 DEF Drawn, Goto
  <2>2. n \in LinksPerPageMin .. LinksPerPageMax /\ n \in 0 .. LinksPerPageMax /\ n > 0
    BY <1>2 DEF RandomInt, Intn
  <2>3. PageOf(h)'
    BY <1>1, <1>2, <1>3, <2>1, <2>2 DEF PageOf
  <2> QED
    BY <1>1, <1>2, <2>1, <2>2, <2>3, HandlerStep
<1>4. CASE links[h] > 0
  <2> DEFINE step == IF made[h] + 1 < links[h] THEN "page" ELSE "write"
  <2>1. /\ made' = [made EXCEPT ![h] = @ + 1] /\ links' = links
        /\ hpc' = [hpc EXCEPT ![h] = step]
    BY <1>4 DEF Drawn, Goto
  <2>2. made[h] + 1 \in 0 .. LinksPerPageMax /\ made[h] < links[h]
    BY <1>1, <1>2, <1>4 DEF PageOf
  <2>3. PageOf(h)'
    BY <1>1, <1>2, <1>4, <2>1, <2>2 DEF PageOf
  <2>4. step \in {"page", "write"}
    OBVIOUS
  <2> HIDE DEF step
  <2> QED
    BY <1>1, <1>2, <2>1, <2>2, <2>3, <2>4, HandlerStep
<1> QED
  BY <1>2, <1>3, <1>4

LEMMA ServeInv == ASSUME Inv, NEW h \in Handlers, Serve(h) PROVE Inv'
<1>1. CASE Refuse(h) \/ Admin(h) \/ GiveUp(h) \/ RecoverPanic(h) \/ WritePage(h)
  <2>1. /\ hpc[h] \notin {"idle", "record"} /\ Return(h) /\ mu' = mu
        /\ UNCHANGED <<mainVars, stuck, countVars>>
    BY <1>1 DEF Refuse, Admin, GiveUp, RecoverPanic, WritePage
  <2> QED
    BY <2>1, ReturnInv
<1> QED
  BY <1>1, AllowInv, RecordRequestInv, DelayInv, DrawnInv, PanicInv DEF Serve

\* The process ends: no handler is left.
LEMMA EndInv ==
  ASSUME Inv, NEW how \in {"exited", "failed"}, End(how), db' = db,
         db = "closed" => how = "exited"
  PROVE  Inv'
<1> USE DEF Inv, End, countVars
<1>1. TypeOK'
  <2>1. 0 \in 0 .. LinksPerPageMax
    BY ServerAssumption
  <2>2. /\ hpc' \in [Handlers -> {"idle"}] /\ req' \in [Handlers -> {Nothing}]
        /\ links' \in [Handlers -> {0}] /\ made' \in [Handlers -> {0}]
    OBVIOUS
  <2> QED
    BY <2>1, <2>2 DEF TypeOK
<1>2. ServingOK' /\ PagesOK' /\ ClosedAfterLastUse'
  BY DEF ServingOK, PagesOK, PageOf, ClosedAfterLastUse, Ended
<1>3. RecordedWereAdmitted'
  <2>1. \A i \in IPs : Recording(i)' = {}
    BY DEF Recording
  <2>2. \A i \in IPs : /\ recorded[i] \in Nat /\ admitted[i] \in Nat
                       /\ recorded[i] + Cardinality(Recording(i)) <= admitted[i]
    BY DEF TypeOK, RecordedWereAdmitted
  <2>3. \A i \in IPs : recorded[i] + 0 <= admitted[i]
    BY <2>2, RecordingFinite
  <2> QED
    BY <2>1, <2>3, FS_EmptySet DEF RecordedWereAdmitted
<1> QED
  BY <1>1, <1>2, <1>3

\* The steps of start and shutdown that leave the handlers alone.
LEMMA MainStep ==
  ASSUME Inv, UNCHANGED <<handlerVars, countVars>>,
         main' \in {"waiting", "cleanup", "shutdown", "closing"}, main # "failed",
         signal' \in BOOLEAN, stuck' \in BOOLEAN,
         listener' \in {"starting", "open", "closed"}, db' \in {"open", "closed"},
         main' \in {"shutdown", "closing"} => listener' = "closed",
         main' = "closing" => \A h \in Handlers : hpc[h] = "idle",
         db' = "closed" => main' = "closing"
  PROVE  Inv'
<1> USE DEF Inv, handlerVars, pageVars, countVars
<1>1. TypeOK'
  BY DEF TypeOK
<1>2. ServingOK' /\ PagesOK' /\ ClosedAfterLastUse'
  BY DEF ServingOK, PagesOK, PageOf, ClosedAfterLastUse, Ended
<1>3. RecordedWereAdmitted'
  BY RecordingSame
<1> QED
  BY <1>1, <1>2, <1>3

LEMMA NextInv == Inv /\ [Next]_vars => Inv'
<1> SUFFICES ASSUME Inv, [Next]_vars PROVE Inv'
  OBVIOUS
<1>1. ASSUME NEW h \in Handlers, Accept(h) \/ Disconnect(h) \/ Serve(h) \/ LockSource(h)
      PROVE  Inv'
  BY <1>1, AcceptInv, DisconnectInv, ServeInv, LockSourceInv
<1>2. TypeOK /\ ServingOK /\ ClosedAfterLastUse
  BY DEF Inv
<1>3. CASE Gridlock \/ Listen \/ Signal
  <2>1. main' = main /\ main \in {"waiting", "cleanup", "shutdown", "closing"}
    BY <1>2, <1>3 DEF Gridlock, Listen, Signal, Ended, TypeOK, mainVars
  <2>2. UNCHANGED <<handlerVars, countVars, db>>
    BY <1>3 DEF Gridlock, Listen, Signal, mainVars
  <2>3. /\ signal' \in BOOLEAN /\ stuck' \in BOOLEAN
        /\ listener' \in {"starting", "open", "closed"}
        /\ listener = "closed" => listener' = "closed"
    BY <1>2, <1>3 DEF Gridlock, Listen, Signal, TypeOK, mainVars
  <2>4. /\ db' \in {"open", "closed"} /\ (db' = "closed" => main' = "closing")
        /\ main' \in {"shutdown", "closing"} => listener' = "closed"
        /\ main' = "closing" => \A h \in Handlers : hpc[h] = "idle"
    BY <1>2, <2>1, <2>2, <2>3 DEF TypeOK, ServingOK, ClosedAfterLastUse
  <2> QED
    BY <2>1, <2>2, <2>3, <2>4, MainStep
<1>4. CASE Cleanup \/ Shutdown \/ Drained \/ CloseDatabase
  <2>1. /\ main' \in {"cleanup", "shutdown", "closing"} /\ main # "failed"
        /\ UNCHANGED <<handlerVars, countVars, stuck>>
        /\ signal' \in {signal, FALSE}
    BY <1>4 DEF Cleanup, Shutdown, Drained, CloseDatabase
  <2>2. /\ db' \in {"open", "closed"} /\ (db' = "closed" => main' = "closing")
        /\ listener' \in {"starting", "open", "closed"}
        /\ main' \in {"shutdown", "closing"} => listener' = "closed"
        /\ main' = "closing" => \A h \in Handlers : hpc[h] = "idle"
    BY <1>2, <1>4 DEF Cleanup, Shutdown, Drained, CloseDatabase, TypeOK, ServingOK,
       ClosedAfterLastUse
  <2>3. /\ signal' \in BOOLEAN /\ stuck' \in BOOLEAN
        /\ main' \in {"waiting", "cleanup", "shutdown", "closing"}
    BY <1>2, <2>1 DEF TypeOK
  <2> QED
    BY <2>1, <2>2, <2>3, MainStep
<1>5. CASE ListenFails \/ Timeout
  <2>1. End("failed") /\ db' = db /\ db # "closed"
    BY <1>2, <1>5 DEF ListenFails, Timeout, Ended, ServingOK, ClosedAfterLastUse
  <2> QED
    BY <2>1, EndInv
<1>6. CASE Exit
  BY <1>6, EndInv DEF Exit
<1>7. CASE UNCHANGED vars
  <2> USE DEF Inv, vars, mainVars, handlerVars, pageVars, countVars
  <2>1. TypeOK'
    BY <1>7 DEF TypeOK
  <2>2. ServingOK' /\ PagesOK' /\ ClosedAfterLastUse'
    BY <1>7 DEF ServingOK, PagesOK, PageOf, ClosedAfterLastUse, Ended
  <2>3. RecordedWereAdmitted'
    BY <1>7, RecordingSame
  <2> QED
    BY <2>1, <2>2, <2>3
<1> QED
  BY <1>1, <1>3, <1>4, <1>5, <1>6, <1>7 DEF Next, Main

LEMMA SpecInv == Spec => []Inv
BY InitInv, NextInv, PTL DEF Spec

-----------------------------------------------------------------------------
(* The theorems *)

\* Every variable keeps its type.
THEOREM TypeCorrect == Spec => []TypeOK
<1>1. Inv => TypeOK
  BY DEF Inv
<1> QED
  BY <1>1, SpecInv, PTL

\* The database is closed only when nobody is being served.
THEOREM DatabaseOutlivesHandlers == Spec => []ClosedAfterLastUse
<1>1. Inv => ClosedAfterLastUse
  BY DEF Inv
<1> QED
  BY <1>1, SpecInv, PTL

\* What is recorded for an address was admitted for it.
THEOREM RecordedAreAdmitted == Spec => []RecordedWereAdmitted
<1>1. Inv => RecordedWereAdmitted
  BY DEF Inv
<1> QED
  BY <1>1, SpecInv, PTL

\* Every page that is written has a number of links in the range.
THEOREM PagesComplete == Spec => []PagesHaveLinks
<1>1. Inv => PagesHaveLinks
  BY DEF Inv, PagesOK, PageOf, PagesHaveLinks
<1> QED
  BY <1>1, SpecInv, PTL

=============================================================================
