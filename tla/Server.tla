------------------------------- MODULE Server -------------------------------
(***************************************************************************)
(* The whole server in database mode: the handler chain (recovery, rate    *)
(* limit, routes: main.go:580-597), the trap handler                       *)
(* (internal/handler/request.go) with its page of random links             *)
(* (internal/content, internal/random), and GracefulShutdown               *)
(* (internal/server/server.go) with the deferred calls of main.            *)
(* The limiter and the database are their answers: Allow admits or not, a  *)
(* call of the database records, fails, or hangs for ever (Gridlock, see   *)
(* StatsDatabase).                                                         *)
(***************************************************************************)
EXTENDS Integers, FiniteSets

CONSTANTS
  Handlers,        \* goroutines that serve requests
  NoThread,        \* no goroutine
  IPs,             \* addresses
  Peers,           \* those that connections come from, the proxy's among them
  NoIP,            \* a forwarding header that is missing or no address
  TrustProxy,      \* flag -trust-proxy
  LinksPerPageMin, LinksPerPageMax,
  MaxRequests      \* bound of the model: requests that ever arrive

ASSUME ServerAssumption ==
  /\ NoThread \notin Handlers /\ IsFiniteSet(Handlers) /\ NoIP \notin IPs
  /\ Peers \subseteq IPs
  /\ LinksPerPageMin \in Nat \ {0} /\ LinksPerPageMax \in Nat
  /\ LinksPerPageMin <= LinksPerPageMax
  /\ TrustProxy \in BOOLEAN /\ MaxRequests \in Nat

VARIABLES
  main,       \* where the main goroutine is in GracefulShutdown and after it
  signal,     \* sigChan, a channel with one place, holds a signal
  listener,   \* "starting", "open" or "closed"
  db,         \* the handle of the database
  stuck,      \* the database's lock will never be free again
  hpc,        \* the step each handler is about to take
  req,        \* the request of each handler
  gone,       \* handlers whose request context is cancelled
  links,      \* the number of links its page is to have, 0 before it is drawn
  made,       \* the links its page has
  mu,         \* who holds the mutex of random.Source
  arrived,    \* requests that have arrived
  admitted,   \* requests of each address that the limiter admitted
  recorded    \* requests of each address in the statistics

mainVars    == <<main, signal, listener, db>>
pageVars    == <<links, made, mu>>
handlerVars == <<hpc, req, gone, pageVars>>
countVars   == <<arrived, admitted, recorded>>
vars        == <<mainVars, stuck, handlerVars, countVars>>

\* Of the headers X-Forwarded-For and X-Real-IP, in this order, the first that
\* begins with a valid address.
Requests == [remote : Peers, header : IPs \cup {NoIP}, route : {"trap", "admin"}]

Nothing == [remote |-> NoIP, header |-> NoIP, route |-> "none"]

Ended == main \in {"exited", "failed"}

Init ==
  /\ main = "waiting" /\ signal = FALSE /\ listener = "starting"
  /\ db = "open" /\ stuck = FALSE
  /\ hpc = [h \in Handlers |-> "idle"]
  /\ req = [h \in Handlers |-> Nothing]
  /\ gone = {}
  /\ links = [h \in Handlers |-> 0] /\ made = [h \in Handlers |-> 0]
  /\ mu = NoThread
  /\ arrived = 0
  /\ admitted = [i \in IPs |-> 0] /\ recorded = [i \in IPs |-> 0]

-----------------------------------------------------------------------------
(* A request on its way through the chain *)

GetClientIP(q) == IF TrustProxy /\ q.header # NoIP THEN q.header ELSE q.remote

Goto(h, step) == hpc' = [hpc EXCEPT ![h] = step]

\* The handler returns: what it wrote, if anything, is sent.
Return(h) ==
  /\ Goto(h, "idle")
  /\ req' = [req EXCEPT ![h] = Nothing]
  /\ gone' = gone \ {h}
  /\ links' = [links EXCEPT ![h] = 0] /\ made' = [made EXCEPT ![h] = 0]

\* net/http accepts a connection and serves its request.
Accept(h) ==
  /\ ~Ended /\ listener = "open" /\ hpc[h] = "idle" /\ arrived < MaxRequests
  /\ arrived' = arrived + 1
  /\ \E q \in Requests : req' = [req EXCEPT ![h] = q]
  /\ Goto(h, "limit")
  /\ UNCHANGED <<mainVars, stuck, gone, pageVars, admitted, recorded>>

\* The client hangs up: the request's context is cancelled.
Disconnect(h) ==
  /\ hpc[h] # "idle" /\ h \notin gone
  /\ gone' = gone \cup {h}
  /\ UNCHANGED <<mainVars, stuck, hpc, req, pageVars, countVars>>

\* Mutation: the limiter counts connections' addresses, whatever the flag says.
AllowRemote(h) ==
  /\ hpc[h] = "limit"
  /\ admitted' = [admitted EXCEPT ![req[h].remote] = @ + 1]
  /\ Goto(h, IF req[h].route = "trap" THEN "record" ELSE "admin")
  /\ UNCHANGED <<mainVars, stuck, req, gone, pageVars, arrived, recorded>>

\* RateLimit: an admitted request goes to its route.
Allow(h) ==
  /\ hpc[h] = "limit"
  /\ admitted' = [admitted EXCEPT ![GetClientIP(req[h])] = @ + 1]
  /\ Goto(h, IF req[h].route = "trap" THEN "record" ELSE "admin")
  /\ UNCHANGED <<mainVars, stuck, req, gone, pageVars, arrived, recorded>>

\* 429 Too Many Requests.
Refuse(h) ==
  /\ hpc[h] = "limit"
  /\ Return(h)
  /\ UNCHANGED <<mainVars, stuck, mu, countVars>>

\* An admin handler reads the statistics and answers.
Admin(h) ==
  /\ hpc[h] = "admin" /\ ~stuck
  /\ Return(h)
  /\ UNCHANGED <<mainVars, stuck, mu, countVars>>

\* A recording and a page wait for each other (StatsDatabase!Gridlocked).
Gridlock ==
  /\ ~Ended /\ ~stuck
  /\ \E h, g \in Handlers : hpc[h] = "record" /\ hpc[g] = "admin"
  /\ stuck' = TRUE
  /\ UNCHANGED <<mainVars, handlerVars, countVars>>

\* RecordRequest returns; its error is logged and the request goes on.
RecordRequest(h) ==
  /\ hpc[h] = "record" /\ ~stuck
  /\ \/ recorded' = [recorded EXCEPT ![GetClientIP(req[h])] = @ + 1]
     \/ UNCHANGED recorded
  /\ Goto(h, "delay")
  /\ UNCHANGED <<mainVars, stuck, req, gone, pageVars, arrived, admitted>>

\* The delay is over and the client still there.
Delay(h) ==
  /\ hpc[h] = "delay" /\ h \notin gone
  /\ Goto(h, "page")
  /\ UNCHANGED <<mainVars, stuck, req, gone, pageVars, countVars>>

\* Either end of the select leads here when the context is cancelled.
GiveUp(h) ==
  /\ hpc[h] = "delay" /\ h \in gone
  /\ Return(h)
  /\ UNCHANGED <<mainVars, stuck, mu, countVars>>

-----------------------------------------------------------------------------
(* The page: every random number is drawn under the mutex of the source *)

Intn(n) == 0 .. n - 1

\* Mutation: the width of the interval is forgotten.
UpToMax(min, max) == {min + k : k \in Intn(max + 1)}

RandomInt(min, max) == {min + k : k \in Intn(max - min + 1)}

LockSource(h) ==
  /\ hpc[h] = "page"
  /\ mu = NoThread
  /\ mu' = h
  /\ Goto(h, "draw")
  /\ UNCHANGED <<mainVars, stuck, req, gone, links, made, countVars>>

\* Mutation: the loop runs once too often.
DrawnOneMore(h) ==
  /\ hpc[h] = "draw"
  /\ mu' = NoThread
  /\ \/ /\ links[h] = 0
        /\ \E n \in RandomInt(LinksPerPageMin, LinksPerPageMax) :
             links' = [links EXCEPT ![h] = n]
        /\ Goto(h, "page")
        /\ UNCHANGED made
     \/ /\ links[h] > 0
        /\ made' = [made EXCEPT ![h] = @ + 1]
        /\ Goto(h, IF made[h] < links[h] THEN "page" ELSE "write")
        /\ UNCHANGED links
  /\ UNCHANGED <<mainVars, stuck, req, gone, countVars>>

\* Mutation: the mutex is unlocked by hand, and not after the last link.
DrawnKeepsLock(h) ==
  /\ hpc[h] = "draw"
  /\ \/ /\ links[h] = 0
        /\ \E n \in RandomInt(LinksPerPageMin, LinksPerPageMax) :
             links' = [links EXCEPT ![h] = n]
        /\ Goto(h, "page")
        /\ mu' = NoThread
        /\ UNCHANGED made
     \/ /\ links[h] > 0
        /\ made' = [made EXCEPT ![h] = @ + 1]
        /\ Goto(h, IF made[h] + 1 < links[h] THEN "page" ELSE "write")
        /\ mu' = IF made[h] + 1 < links[h] THEN NoThread ELSE mu
        /\ UNCHANGED links
  /\ UNCHANGED <<mainVars, stuck, req, gone, countVars>>

\* The number of links is drawn first, then one link after the other.
Drawn(h) ==
  /\ hpc[h] = "draw"
  /\ mu' = NoThread
  /\ \/ /\ links[h] = 0
        /\ \E n \in RandomInt(LinksPerPageMin, LinksPerPageMax) :
             links' = [links EXCEPT ![h] = n]
        /\ Goto(h, "page")
        /\ UNCHANGED made
     \/ /\ links[h] > 0
        /\ made' = [made EXCEPT ![h] = @ + 1]
        /\ Goto(h, IF made[h] + 1 < links[h] THEN "page" ELSE "write")
        /\ UNCHANGED links
  /\ UNCHANGED <<mainVars, stuck, req, gone, countVars>>

\* crypto/rand fails: Intn panics, and its deferred Unlock runs.  (From Go 1.24
\* on, which go.mod asks for, rand.Read returns no error and this branch is never
\* taken: the step only adds behaviours to those of the program.)
Panic(h) ==
  /\ hpc[h] = "draw"
  /\ mu' = NoThread
  /\ Goto(h, "panic")
  /\ UNCHANGED <<mainVars, stuck, req, gone, links, made, countVars>>

\* RecoverPanic answers 500.
RecoverPanic(h) ==
  /\ hpc[h] = "panic"
  /\ Return(h)
  /\ UNCHANGED <<mainVars, stuck, mu, countVars>>

WritePage(h) ==
  /\ hpc[h] = "write"
  /\ Return(h)
  /\ UNCHANGED <<mainVars, stuck, mu, countVars>>

-----------------------------------------------------------------------------
(* Start and shutdown *)

Listen ==
  /\ ~Ended /\ listener = "starting"
  /\ listener' = "open"
  /\ UNCHANGED <<main, signal, db, stuck, handlerVars, countVars>>

\* os.Exit, or the return of main: the other goroutines end where they are.
End(how) ==
  /\ main' = how
  /\ hpc' = [h \in Handlers |-> "idle"]
  /\ req' = [h \in Handlers |-> Nothing]
  /\ gone' = {}
  /\ links' = [h \in Handlers |-> 0] /\ made' = [h \in Handlers |-> 0]
  /\ mu' = NoThread
  /\ listener' = "closed"
  /\ UNCHANGED <<signal, stuck, countVars>>

\* ListenAndServe fails: the port is taken, or Accept breaks.
ListenFails ==
  /\ ~Ended /\ listener # "closed"
  /\ End("failed")
  /\ UNCHANGED db

\* A signal for which the channel has no place is dropped.
Signal ==
  /\ ~Ended /\ ~signal
  /\ signal' = TRUE
  /\ UNCHANGED <<main, listener, db, stuck, handlerVars, countVars>>

Cleanup ==
  /\ main = "waiting" /\ signal
  /\ main' = "cleanup" /\ signal' = FALSE
  /\ UNCHANGED <<listener, db, stuck, handlerVars, countVars>>

\* http.Server.Shutdown closes the listener, also one that is not open yet.
Shutdown ==
  /\ main = "cleanup"
  /\ main' = "shutdown" /\ listener' = "closed"
  /\ UNCHANGED <<signal, db, stuck, handlerVars, countVars>>

\* It returns once every connection is idle.
Drained ==
  /\ main = "shutdown"
  /\ \A h \in Handlers : hpc[h] = "idle"
  /\ main' = "closing"
  /\ UNCHANGED <<signal, listener, db, stuck, handlerVars, countVars>>

\* Mutation: the error of Shutdown is ignored.
TimeoutIgnored ==
  /\ main = "shutdown"
  /\ main' = "closing"
  /\ UNCHANGED <<signal, listener, db, stuck, handlerVars, countVars>>

\* Mutation: Shutdown is given a context without a deadline.
NoTimeout ==
  /\ main = "shutdown"
  /\ \A h \in Handlers : hpc[h] = "idle"
  /\ End("failed")
  /\ UNCHANGED db

\* Or its context expires, and the process exits without the deferred calls.
Timeout ==
  /\ main = "shutdown"
  /\ End("failed")
  /\ UNCHANGED db

\* The deferred calls of main.
CloseDatabase ==
  /\ main = "closing" /\ db = "open"
  /\ db' = "closed"
  /\ UNCHANGED <<main, signal, listener, stuck, handlerVars, countVars>>

Exit ==
  /\ main = "closing" /\ db = "closed"
  /\ End("exited")
  /\ UNCHANGED db

-----------------------------------------------------------------------------
Serve(h) ==
  \/ Allow(h) \/ Refuse(h) \/ Admin(h) \/ RecordRequest(h) \/ Delay(h) \/ GiveUp(h)
  \/ Drawn(h) \/ Panic(h) \/ RecoverPanic(h) \/ WritePage(h)

Main == Cleanup \/ Shutdown \/ Drained \/ Timeout \/ CloseDatabase \/ Exit

Next ==
  \/ \E h \in Handlers : Accept(h) \/ Disconnect(h) \/ Serve(h) \/ LockSource(h)
  \/ Gridlock \/ Listen \/ ListenFails \/ Signal \/ Main

Spec == Init /\ [][Next]_vars

\* The scheduler runs the goroutines that can run, the mutex serves in the end
\* whoever waits for it, and the deadline of Shutdown passes.
Fairness ==
  /\ \A h \in Handlers : WF_vars(Serve(h)) /\ SF_vars(LockSource(h))
  /\ WF_vars(Main)

FairSpec == Spec /\ Fairness

-----------------------------------------------------------------------------
(* Properties *)

\* Types of the variables.
TypeOK ==
  /\ main \in {"waiting", "cleanup", "shutdown", "closing", "exited", "failed"}
  /\ signal \in BOOLEAN /\ stuck \in BOOLEAN
  /\ listener \in {"starting", "open", "closed"} /\ db \in {"open", "closed"}
  /\ hpc \in [Handlers -> {"idle", "limit", "admin", "record", "delay", "page", "draw",
                            "panic", "write"}]
  /\ req \in [Handlers -> Requests \cup {Nothing}]
  /\ gone \subseteq Handlers
  /\ links \in [Handlers -> 0 .. LinksPerPageMax] /\ made \in [Handlers -> 0 .. LinksPerPageMax]
  /\ mu \in Handlers \cup {NoThread}
  /\ arrived \in Nat
  /\ admitted \in [IPs -> Nat] /\ recorded \in [IPs -> Nat]

\* The deferred db.Close runs only when nobody is being served: main gets there
\* when Shutdown has seen every connection idle, and otherwise calls os.Exit,
\* which runs no deferred call (server.go:125-127).  No handler that began before
\* the signal meets a closed database.
ClosedAfterLastUse ==
  /\ main \in {"closing", "exited"} => \A h \in Handlers : hpc[h] = "idle"
  /\ db = "closed" => main \in {"closing", "exited"}

\* Limiter and statistics agree on who asked: the requests recorded for an
\* address, and those about to be, are among those the limiter admitted for it,
\* whatever headers they carry.  What was refused is never recorded.
Recording(i) == {h \in Handlers : hpc[h] = "record" /\ GetClientIP(req[h]) = i}

RecordedWereAdmitted ==
  \A i \in IPs : recorded[i] + Cardinality(Recording(i)) <= admitted[i]

\* A page is sent with as many links as were drawn for it, five to ten, also when
\* another handler draws in between.
PagesHaveLinks ==
  \A h \in Handlers : hpc[h] = "write" =>
    made[h] = links[h] /\ links[h] \in LinksPerPageMin .. LinksPerPageMax

\* A request that was accepted leaves its handler, however many other pages draw
\* from the one source of random numbers: only the database can keep it.
RequestsEnd == \A h \in Handlers : hpc[h] # "idle" ~> (hpc[h] = "idle" \/ stuck)

\* After a signal the process ends, even when handlers are stuck in the database
\* and whatever further signals come (server.go:121-127).
ShutdownEnds == (signal /\ main = "waiting") ~> Ended

=============================================================================
