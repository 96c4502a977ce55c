---------------------------- MODULE AdminSession ----------------------------
(***************************************************************************)
(* Signing in to the admin pages (internal/admin/auth.go and handler.go).  *)
(* Every run of the program draws a new token and a new path and knows     *)
(* nothing of the earlier ones; what outlives a run is in the browser of   *)
(* the operator: the cookie, the addresses in its history, the pages in    *)
(* its tabs, and answers that are still on their way.  The tabs share one  *)
(* cookie jar and load pages at the same time.                             *)
(*                                                                         *)
(* Run n has the number n; its token and its path are told apart by it.    *)
(***************************************************************************)
EXTENDS Integers

CONSTANTS
  Tabs,      \* the tabs of the browser
  MaxRuns    \* bound of the model: how often the program is started

ASSUME RunsAssumption == MaxRuns \in Nat

VARIABLES
  run,       \* the latest run
  up,        \* whether it is running
  known,     \* the tokens the operator has read off the console
  jar,       \* the token in the browser's cookie, None without one
  net,       \* what each tab is waiting for, or was answered
  page,      \* the run whose admin page each tab shows, None for any other page
  charts,    \* the run whose data fills the charts of that page
  calm       \* history: the tabs for which nothing outside the handlers has
             \* happened since their address was opened

vars == <<run, up, known, jar, net, page, charts, calm>>

Runs == 1 .. MaxRuns
None == 0
Token(n) == n

\* Mutation: the path is the same in every run.
PathForEver(n) == 1

\* generateAdminPath
Path(n) == n

Paths == {Path(n) : n \in Runs}

-----------------------------------------------------------------------------
(* Requests: kind and path from the address, query from its ?token=, the   *)
(* cookie as it was sent.  opened and link are the kind and the token of   *)
(* the address the operator opened, which a redirect no longer shows;      *)
(* elsewhere tells that the address was followed from another site.        *)

Blank == [stage |-> "blank", kind |-> "ui", path |-> None, query |-> None,
          cookie |-> None, opened |-> "ui", link |-> None, elsewhere |-> FALSE,
          status |-> "none", setCookie |-> None, from |-> None]

\* SetCookie says SameSite=Strict: a navigation that began on another site,
\* its redirects included, is sent without the cookie.
CookieSent(elsewhere, cookie) == IF elsewhere THEN None ELSE cookie

Asking(kind, path, query, cookie, opened, link, elsewhere) ==
  [stage |-> "asking", kind |-> kind, path |-> path, query |-> query,
   cookie |-> cookie, opened |-> opened, link |-> link,
   elsewhere |-> elsewhere, status |-> "none", setCookie |-> None, from |-> None]

\* A tab that has got its last answer.
Shows(a) ==
  [stage |-> "shows", kind |-> a.kind, path |-> None, query |-> None, cookie |-> None,
   opened |-> a.opened, link |-> a.link, elsewhere |-> a.elsewhere,
   status |-> a.status, setCookie |-> None, from |-> None]

Init ==
  /\ run = 0 /\ up = FALSE
  /\ known = {}
  /\ jar = None
  /\ net = [t \in Tabs |-> Blank]
  /\ page = [t \in Tabs |-> None]
  /\ charts = [t \in Tabs |-> None]
  /\ calm = {}

-----------------------------------------------------------------------------
(* The program starts and ends; the operator may read what it prints.      *)

Start ==
  /\ ~up /\ run < MaxRuns
  /\ run' = run + 1 /\ up' = TRUE
  /\ \/ known' = known \cup {Token(run')}
     \/ UNCHANGED known
  /\ calm' = {}
  /\ UNCHANGED <<jar, net, page, charts>>

\* Mutation: requests are left waiting for the next run.
StopKeepsRequests ==
  /\ up
  /\ up' = FALSE
  /\ calm' = {}
  /\ UNCHANGED <<run, known, jar, net, page, charts>>

\* Connections break, answers that have left the program may still arrive.
Stop ==
  /\ up
  /\ up' = FALSE
  /\ net' = [t \in Tabs |-> IF net[t].stage = "asking" THEN Blank ELSE net[t]]
  /\ calm' = {}
  /\ UNCHANGED <<run, known, jar, page, charts>>

-----------------------------------------------------------------------------
(* The browser *)

\* The operator opens an address of this run or of an earlier one, with a
\* token or without.  The tab gives up what it was waiting for.
Navigate(t, kind, n, token, elsewhere) ==
  /\ n <= run /\ token \in known \cup {None}
  /\ net' = [net EXCEPT ![t] =
       IF up
       THEN Asking(kind, Path(n), token, CookieSent(elsewhere, jar), kind, token, elsewhere)
       ELSE Blank]
  /\ page' = [page EXCEPT ![t] = None]
  /\ charts' = [charts EXCEPT ![t] = None]
  /\ calm' = calm \cup {t}
  /\ UNCHANGED <<run, up, known, jar>>

\* MaxAge has passed, or the operator deletes the cookie.
Expire ==
  /\ jar # None
  /\ jar' = None
  /\ calm' = {}
  /\ UNCHANGED <<run, up, known, net, page, charts>>

\* The answer arrives.  A redirect is followed, and the script of an admin
\* page fetches its charts, with the cookie, from the path of its run.
NextRequest(t, cookie) ==
  LET a == net[t] IN
  CASE a.status = "seeOther" ->
         Asking("ui", Path(a.from), None, CookieSent(a.elsewhere, cookie),
                a.opened, a.link, a.elsewhere)
    [] a.status = "page" ->
         Asking("data", Path(a.from), None, cookie, a.opened, a.link, a.elsewhere)
    [] OTHER -> Shows(a)

Receive(t) ==
  /\ net[t].stage = "answered"
  /\ jar' = IF net[t].setCookie # None THEN net[t].setCookie ELSE jar
  /\ net' = [net EXCEPT ![t] = IF up \/ net[t].status \notin {"seeOther", "page"}
                               THEN NextRequest(t, jar') ELSE Blank]
  /\ page' = IF net[t].status = "page" THEN [page EXCEPT ![t] = net[t].from] ELSE page
  /\ charts' = IF net[t].status = "data" THEN [charts EXCEPT ![t] = net[t].from] ELSE charts
  /\ calm' = IF jar' \in {jar, run} THEN calm ELSE {}
  /\ UNCHANGED <<run, up, known>>

-----------------------------------------------------------------------------
(* The handlers.  A request for the path of an earlier run is one more     *)
(* visit to the trap.                                                      *)

Answer(t, status, cookie) ==
  /\ net' = [net EXCEPT ![t] = [@ EXCEPT !.stage = "answered", !.status = status,
                                         !.setCookie = cookie, !.from = run]]
  /\ UNCHANGED <<run, up, known, jar, page, charts, calm>>

Asked(t, kind) ==
  /\ up
  /\ net[t].stage = "asking" /\ net[t].kind = kind
  /\ net[t].path = Path(run)

Valid(token) == token = Token(run)

TokenFromRequest(t) == IF net[t].cookie # None THEN net[t].cookie ELSE net[t].query

IsAuthenticated(t) == Valid(TokenFromRequest(t))

\* Mutation: a refused login sets the cookie to what was tried.
LoginEchoes(t) ==
  /\ Asked(t, "login")
  /\ \/ Valid(net[t].query) /\ Answer(t, "seeOther", Token(run))
     \/ ~Valid(net[t].query) /\ Answer(t, "forbidden", net[t].query)

HandleLogin(t) ==
  /\ Asked(t, "login")
  /\ \/ Valid(net[t].query) /\ Answer(t, "seeOther", Token(run))
     \/ ~Valid(net[t].query) /\ Answer(t, "forbidden", None)

\* Mutation: whoever is refused gets a cookie to try again with.
UIHandsOut(t) ==
  /\ Asked(t, "ui")
  /\ \/ IsAuthenticated(t) /\ Answer(t, "page", None)
     \/ ~IsAuthenticated(t) /\ Answer(t, "forbidden", Token(run))

\* Mutation: with a cookie, the query is not looked at.
UICookieOnly(t) ==
  /\ Asked(t, "ui")
  /\ \/ IsAuthenticated(t) /\ Answer(t, "page", None)
     \/ ~IsAuthenticated(t) /\ Answer(t, "forbidden", None)

HandleUI(t) ==
  /\ Asked(t, "ui")
  /\ \/ IsAuthenticated(t) /\ Answer(t, "page", None)
     \/ ~IsAuthenticated(t) /\ Valid(net[t].query) /\ Answer(t, "page", Token(run))
     \/ ~IsAuthenticated(t) /\ ~Valid(net[t].query) /\ Answer(t, "forbidden", None)

HandleChartData(t) ==
  /\ Asked(t, "data")
  /\ \/ IsAuthenticated(t) /\ Answer(t, "data", None)
     \/ ~IsAuthenticated(t) /\ Answer(t, "forbidden", None)

\* The "/" of the mux: no admin path of this run.
Trap(t) ==
  /\ up
  /\ net[t].stage = "asking" /\ net[t].path # Path(run)
  /\ Answer(t, "trap", None)

\* The rate limiter is in front of every route.
TooMany(t) ==
  /\ up
  /\ net[t].stage = "asking"
  /\ Answer(t, "tooMany", None)

Serve(t) == HandleLogin(t) \/ HandleUI(t) \/ HandleChartData(t) \/ Trap(t) \/ TooMany(t)

Next ==
  \/ Start \/ Stop \/ Expire
  \/ \E t \in Tabs : Receive(t) \/ Serve(t)
  \/ \E t \in Tabs, kind \in {"login", "ui"}, n \in Runs, token \in Runs \cup {None},
        elsewhere \in BOOLEAN :
       Navigate(t, kind, n, token, elsewhere)

Spec == Init /\ [][Next]_vars

-----------------------------------------------------------------------------
(* Properties *)

Messages ==
  [stage : {"blank", "asking", "answered", "shows"}, kind : {"login", "ui", "data"},
   path : Paths \cup {None}, query : Runs \cup {None}, cookie : Runs \cup {None},
   opened : {"login", "ui"}, link : Runs \cup {None}, elsewhere : BOOLEAN,
   status : {"none", "seeOther", "page", "data", "forbidden", "trap", "tooMany"},
   setCookie : Runs \cup {None}, from : Runs \cup {None}]

\* Types; no request waits for a program that is not running.
TypeOK ==
  /\ run \in 0 .. MaxRuns /\ up \in BOOLEAN /\ (up => run > 0)
  /\ known \subseteq 1 .. run
  /\ jar \in Runs \cup {None}
  /\ net \in [Tabs -> Messages]
  /\ \A t \in Tabs : net[t].stage = "asking" => up
  /\ page \in [Tabs -> Runs \cup {None}]
  /\ charts \in [Tabs -> Runs \cup {None}]
  /\ calm \subseteq Tabs

\* An admin page or its charts are only shown to a browser whose operator has
\* read the token of the run they are from: no refusal, redirect, cookie or
\* query of another run, and no order of their answers, amounts to it.
AdmittedKnows ==
  \A t \in Tabs : page[t] \in known \cup {None} /\ charts[t] \in known \cup {None}

\* Charts are from the run their page is from, also when the program was
\* restarted between the page and the fetch of its script.
ChartsOfSameRun == \A t \in Tabs : charts[t] \in {None, page[t]}

\* While a run lasts, its session ends by expiry or by a late answer of an
\* earlier run, whose cookie replaces the newer one: nothing the handlers of
\* the run answer takes it away.
SessionKept ==
  [][ (up /\ up' /\ jar = Token(run) /\ jar' # jar)
        => \/ jar' = None
           \/ \E t \in Tabs : /\ net[t].stage = "answered"
                              /\ net[t].from < run /\ net[t].setCookie = jar' ]_vars

\* The token of this run opens a page, the second time as well as the first: an
\* address with it is never answered by "Access Denied", be the cookie outdated,
\* expired or replaced by an answer of an earlier run while the page loads.  The
\* fetch of the page's script may be refused, with the page on show; after the
\* login, only when the program restarted or the cookie expired or was replaced
\* since.  The exception is a login link followed from another site, as its
\* redirect comes without the cookie.
TokenAdmits ==
  \A t \in Tabs :
    LET a == net[t] IN
    a.stage = "shows" /\ a.status = "forbidden" /\ a.link = Token(run)
      => \/ a.elsewhere /\ a.opened = "login"
         \/ /\ a.kind = "data" /\ page[t] = run
            /\ a.opened = "login" => t \notin calm

\* handler.go:139: "If token is in query param but not in cookie, set cookie for
\* future requests": the page is not left without its cookie.
QueryTokenSetsCookie ==
  \A t \in Tabs :
    net[t].stage = "answered" /\ net[t].status = "page"
      => Token(net[t].from) \in {net[t].cookie, net[t].setCookie}

\* The login link this tab opened has been accepted.
LoggedIn(t) ==
  net[t].opened = "login" /\ (net[t].kind # "login" \/ net[t].status = "seeOther")

\* "One-time login link to access the admin panel" (README.md:93): what one tab has
\* used, another one is not admitted by.
OneTimeLink ==
  \A t, u \in Tabs : LoggedIn(t) /\ LoggedIn(u) /\ net[t].link = net[u].link => t = u

=============================================================================
