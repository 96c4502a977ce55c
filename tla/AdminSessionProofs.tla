------------------------- MODULE AdminSessionProofs -------------------------
(***************************************************************************)
(* The safety properties of AdminSession, for any number of tabs and runs. *)
(***************************************************************************)
EXTENDS AdminSession, TLAPS

\* What follows from the constants.
LEMMA RunFacts == MaxRuns \in Nat /\ Runs \subseteq Nat \ {None} /\ None = 0
  BY RunsAssumption DEF Runs, None

\* A message is built from typed parts.
LEMMA AskingType ==
  ASSUME NEW kind \in {"login", "ui", "data"}, NEW n \in Runs \cup {None},
         NEW query \in Runs \cup {None}, NEW cookie \in Runs \cup {None},
         NEW opened \in {"login", "ui"}, NEW link \in Runs \cup {None},
         NEW elsewhere \in BOOLEAN
  PROVE  Asking(kind, Path(n), query, cookie, opened, link, elsewhere) \in Messages
  BY DEF Asking, Messages, Path, Paths, None

LEMMA BlankType == Blank \in Messages
  BY DEF Blank, Messages

\* What a tab does with an answer is typed.
LEMMA NextRequestType ==
  ASSUME TypeOK, NEW t \in Tabs, NEW cookie \in Runs \cup {None}
  PROVE  NextRequest(t, cookie) \in Messages
<1>1. PICK a : a = net[t] /\ a \in Messages
  BY DEF TypeOK
<1>2. /\ a.from \in Runs \cup {None} /\ a.link \in Runs \cup {None}
      /\ a.opened \in {"login", "ui"} /\ a.elsewhere \in BOOLEAN
      /\ a.kind \in {"login", "ui", "data"}
      /\ a.status \in {"none", "seeOther", "page", "data", "forbidden", "trap", "tooMany"}
  BY <1>1 DEF Messages
<1>3. None \in Runs \cup {None} /\ CookieSent(a.elsewhere, cookie) \in Runs \cup {None}
  BY DEF CookieSent
<1>4. Asking("ui", Path(a.from), None, CookieSent(a.elsewhere, cookie),
             a.opened, a.link, a.elsewhere) \in Messages
  <2>1. PICK n \in Runs \cup {None}, c \in Runs \cup {None} :
          n = a.from /\ c = CookieSent(a.elsewhere, cookie)
    BY <1>2, <1>3
  <2>2. Asking("ui", Path(n), None, c, a.opened, a.link, a.elsewhere) \in Messages
    BY <1>2, <1>3, SMTT(30) DEF Asking, Messages, Path, Paths
  <2> QED
    BY <2>1, <2>2
<1>5. Asking("data", Path(a.from), None, cookie, a.opened, a.link, a.elsewhere) \in Messages
  BY <1>2, <1>3, SMTT(30) DEF Asking, Messages, Path, Paths
<1>6. Shows(a) \in Messages
  BY <1>2 DEF Shows, Messages, None
<1>7. NextRequest(t, cookie) \in
        {Asking("ui", Path(a.from), None, CookieSent(a.elsewhere, cookie),
                a.opened, a.link, a.elsewhere),
         Asking("data", Path(a.from), None, cookie, a.opened, a.link, a.elsewhere), Shows(a)}
  BY <1>1 DEF NextRequest
<1> QED
  BY <1>4, <1>5, <1>6, <1>7

-----------------------------------------------------------------------------
(* Type correctness *)

\* An answer of a handler keeps the types.
LEMMA AnswerType ==
  ASSUME TypeOK, up, NEW t \in Tabs,
         NEW status \in {"seeOther", "page", "data", "forbidden", "trap", "tooMany"},
         NEW cookie \in Runs \cup {None}, Answer(t, status, cookie)
  PROVE  TypeOK'
<1>0. run \in Runs
  BY DEF TypeOK, Runs
<1>1. net' \in [Tabs -> Messages]
  <2> DEFINE answer == [net[t] EXCEPT !.stage = "answered", !.status = status,
                                      !.setCookie = cookie, !.from = run]
  <2>1. net[t] \in Messages
    BY DEF TypeOK
  <2>2. ASSUME NEW m \in Messages
        PROVE  [m EXCEPT !.stage = "answered", !.status = status,
                         !.setCookie = cookie, !.from = run] \in Messages
    BY <1>0, ZenonT(60) DEF Messages
  <2>3. net' = [net EXCEPT ![t] = answer]
    BY DEF Answer
  <2>4. answer \in Messages
    BY ONLY <2>1, <2>2
  <2> HIDE DEF answer
  <2> QED
    BY <2>3, <2>4 DEF TypeOK
<1>2. \A u \in Tabs : net'[u].stage = "asking" => up'
  BY DEF Answer, TypeOK
<1> QED
  BY <1>1, <1>2 DEF Answer, TypeOK

\* The token of the run that is up is the token of a run.
LEMMA TokenType == ASSUME TypeOK, up PROVE Token(run) \in Runs
  BY DEF TypeOK, Token, Runs

LEMMA InitType == Init => TypeOK
<1> SUFFICES ASSUME Init PROVE TypeOK
  OBVIOUS
<1>1. net \in [Tabs -> Messages] /\ \A t \in Tabs : net[t].stage = "blank"
  BY BlankType DEF Init, Blank
<1>2. run \in 0 .. MaxRuns
  BY RunsAssumption DEF Init
<1>3. up \in BOOLEAN /\ ~up
  BY DEF Init
<1>4. known \subseteq 1 .. run
  BY DEF Init
<1> QED
  BY <1>1, <1>2, <1>3, <1>4 DEF Init, TypeOK

LEMMA StepType == TypeOK /\ [Next]_vars => TypeOK'
<1> SUFFICES ASSUME TypeOK, [Next]_vars PROVE TypeOK'
  OBVIOUS
<1> USE RunFacts
<1>1. CASE Start
  <2>1. run' \in 0 .. MaxRuns /\ run' > 0
    BY <1>1 DEF Start, TypeOK
  <2>2. run \in Nat /\ run' = run + 1 /\ known \subseteq 1 .. run
    BY <1>1 DEF Start, TypeOK
  <2>3. known' \in {known, known \cup {run'}}
    BY <1>1 DEF Start, Token
  <2>4. (\A k \in 1 .. run : k \in 1 .. run') /\ run' \in 1 .. run'
    BY <2>2
  <2>5. known' \subseteq 1 .. run'
    BY <2>2, <2>3, <2>4
  <2>6. up' \in BOOLEAN /\ up'
    BY <1>1 DEF Start
  <2> QED
    BY <1>1, <2>1, <2>5, <2>6 DEF Start, TypeOK
<1>2. CASE Stop
  <2>1. net' \in [Tabs -> Messages] /\ \A t \in Tabs : net'[t].stage # "asking"
    BY <1>2, BlankType DEF Stop, TypeOK, Blank
  <2> QED
    BY <1>2, <2>1 DEF Stop, TypeOK
<1>3. CASE Expire
  BY <1>3 DEF Expire, TypeOK
<1>4. ASSUME NEW t \in Tabs, Receive(t) PROVE TypeOK'
  <2>1. jar' \in Runs \cup {None}
    BY <1>4 DEF Receive, TypeOK, Messages
  <2>2. NextRequest(t, jar') \in Messages
    BY <2>1, NextRequestType
  <2>3. net' \in [Tabs -> Messages]
    BY <1>4, <2>2, BlankType DEF Receive, TypeOK
  <2>4. ASSUME NEW u \in Tabs, net'[u].stage = "asking" PROVE up'
    <3>1. CASE u # t
      BY <1>4, <2>4, <3>1 DEF Receive, TypeOK
    <3>2. CASE u = t
      <4>1. CASE ~up /\ net[t].status \notin {"seeOther", "page"}
        BY <1>4, <2>4, <3>2, <4>1 DEF Receive, TypeOK, NextRequest, Shows
      <4>2. CASE ~up /\ net[t].status \in {"seeOther", "page"}
        BY <1>4, <2>4, <3>2, <4>2 DEF Receive, TypeOK, Blank
      <4> QED
        BY <1>4, <4>1, <4>2 DEF Receive, TypeOK
    <3> QED
      BY <3>1, <3>2
  <2>5. page' \in [Tabs -> Runs \cup {None}] /\ charts' \in [Tabs -> Runs \cup {None}]
    BY <1>4 DEF Receive, TypeOK, Messages
  <2>6. calm' \subseteq Tabs /\ UNCHANGED <<run, up, known>>
    BY <1>4 DEF Receive, TypeOK
  <2> QED
    BY <2>1, <2>3, <2>4, <2>5, <2>6 DEF TypeOK
<1>5. ASSUME NEW t \in Tabs, Serve(t) PROVE TypeOK'
  <2>1. CASE HandleLogin(t)
    BY <2>1, AnswerType, TokenType DEF HandleLogin, Asked
  <2>2. CASE HandleUI(t)
    BY <2>2, AnswerType, TokenType DEF HandleUI, Asked
  <2>3. CASE HandleChartData(t)
    BY <2>3, AnswerType DEF HandleChartData, Asked
  <2>4. CASE Trap(t)
    BY <2>4, AnswerType DEF Trap
  <2>5. CASE TooMany(t)
    BY <2>5, AnswerType DEF TooMany
  <2> QED
    BY <1>5, <2>1, <2>2, <2>3, <2>4, <2>5 DEF Serve
<1>6. ASSUME NEW t \in Tabs, NEW kind \in {"login", "ui"}, NEW n \in Runs,
             NEW token \in Runs \cup {None}, NEW elsewhere \in BOOLEAN,
             Navigate(t, kind, n, token, elsewhere)
      PROVE  TypeOK'
  <2>1. CookieSent(elsewhere, jar) \in Runs \cup {None}
    BY DEF TypeOK, CookieSent
  <2>2. Asking(kind, Path(n), token, CookieSent(elsewhere, jar), kind, token, elsewhere)
          \in Messages
    <3>1. PICK c \in Runs \cup {None} : c = CookieSent(elsewhere, jar)
      BY <2>1
    <3>2. Asking(kind, Path(n), token, c, kind, token, elsewhere) \in Messages
      BY SMTT(30) DEF Asking, Messages, Path, Paths
    <3> QED
      BY <3>1, <3>2
  <2>3. net' \in [Tabs -> Messages] /\ \A u \in Tabs : net'[u].stage = "asking" => up'
    BY <1>6, <2>2, BlankType DEF Navigate, TypeOK, Blank
  <2> QED
    BY <1>6, <2>3 DEF Navigate, TypeOK
<1>7. CASE UNCHANGED vars
  BY <1>7 DEF vars, TypeOK
<1> QED
  BY <1>1, <1>2, <1>3, <1>4, <1>5, <1>6, <1>7 DEF Next

\* Type correctness of the sessions: in particular no request waits for a
\* program that has ended.
THEOREM TypeCorrect == Spec => []TypeOK
  BY InitType, StepType, PTL DEF Spec

-----------------------------------------------------------------------------
(* Nobody is admitted who has not read the token *)

\* Every token the browser holds or sends was read by the operator, and what is
\* granted was asked for with such a token.
TokensRead ==
  /\ jar \in known \cup {None}
  /\ \A t \in Tabs :
       /\ net[t].query \in known \cup {None}
       /\ net[t].cookie \in known \cup {None}
       /\ net[t].setCookie \in known \cup {None}
       /\ (net[t].stage = "answered" /\ net[t].status \in {"page", "data"})
            => net[t].from \in known
       /\ page[t] \in known \cup {None} /\ charts[t] \in known \cup {None}

\* A valid token is one that was read.
LEMMA ValidRead ==
  ASSUME TypeOK, TokensRead, up, NEW t \in Tabs
  PROVE  /\ IsAuthenticated(t) => run \in known
         /\ Valid(net[t].query) => run \in known
<1>1. run # None
  BY DEF TypeOK, None
<1> QED
  BY <1>1 DEF TokensRead, IsAuthenticated, Valid, Token, TokenFromRequest

LEMMA AnswerRead ==
  ASSUME TypeOK, TokensRead, NEW t \in Tabs, NEW status, NEW cookie \in known \cup {None},
         Answer(t, status, cookie), status \in {"page", "data"} => run \in known
  PROVE  TokensRead'
<1>1. \A u \in Tabs :
        /\ net'[u].query = net[u].query /\ net'[u].cookie = net[u].cookie
        /\ u # t => net'[u] = net[u]
  BY DEF Answer, TypeOK, Messages
<1>2. net'[t].status = status /\ net'[t].setCookie = cookie /\ net'[t].from = run
  BY DEF Answer, TypeOK, Messages
<1> QED
  BY <1>1, <1>2 DEF TokensRead, Answer

LEMMA StepRead == TypeOK /\ TokensRead /\ [Next]_vars => TokensRead'
<1> SUFFICES ASSUME TypeOK, TokensRead, [Next]_vars PROVE TokensRead'
  OBVIOUS
<1>1. CASE Start
  <2>1. known \subseteq known'
    BY <1>1 DEF Start
  <2> QED
    BY <1>1, <2>1 DEF Start, TokensRead
<1>2. CASE Stop
  BY <1>2 DEF Stop, TokensRead, TypeOK, Blank
<1>3. CASE Expire
  BY <1>3 DEF Expire, TokensRead
<1>4. ASSUME NEW t \in Tabs, Receive(t) PROVE TokensRead'
  <2>1. jar' \in known \cup {None}
    BY <1>4 DEF Receive, TokensRead
  <2>2. /\ NextRequest(t, jar').query = None
        /\ NextRequest(t, jar').cookie \in {None, jar'}
        /\ NextRequest(t, jar').setCookie = None
        /\ NextRequest(t, jar').stage # "answered"
    BY DEF NextRequest, Asking, Shows, CookieSent
  <2> QED
    BY <1>4, <2>1, <2>2 DEF Receive, TokensRead, TypeOK, Blank
<1>5. ASSUME NEW t \in Tabs, Serve(t) PROVE TokensRead'
  <2>1. CASE HandleLogin(t)
    BY <2>1, AnswerRead, ValidRead DEF HandleLogin, Asked, Token
  <2>2. CASE HandleUI(t)
    BY <2>2, AnswerRead, ValidRead DEF HandleUI, Asked, Token
  <2>3. CASE HandleChartData(t)
    BY <2>3, AnswerRead, ValidRead DEF HandleChartData, Asked
  <2>4. CASE Trap(t)
    BY <2>4, AnswerRead DEF Trap
  <2>5. CASE TooMany(t)
    BY <2>5, AnswerRead DEF TooMany
  <2> QED
    BY <1>5, <2>1, <2>2, <2>3, <2>4, <2>5 DEF Serve
<1>6. ASSUME NEW t \in Tabs, NEW kind \in {"login", "ui"}, NEW n \in Runs,
             NEW token \in Runs \cup {None}, NEW elsewhere \in BOOLEAN,
             Navigate(t, kind, n, token, elsewhere)
      PROVE  TokensRead'
  BY <1>6 DEF Navigate, TokensRead, TypeOK, Asking, CookieSent, Blank
<1>7. CASE UNCHANGED vars
  BY <1>7 DEF vars, TokensRead
<1> QED
  BY <1>1, <1>2, <1>3, <1>4, <1>5, <1>6, <1>7 DEF Next

\* Admin pages and charts only appear in the browser of somebody who has read
\* the token of the run they are from.
THEOREM AdmittedHaveRead == Spec => []AdmittedKnows
<1>1. Init => TokensRead
  BY DEF Init, TokensRead, Blank
<1>2. TokensRead => AdmittedKnows
  BY DEF TokensRead, AdmittedKnows
<1> QED
  BY <1>1, <1>2, InitType, StepType, StepRead, PTL DEF Spec

-----------------------------------------------------------------------------
(* Charts belong to their page *)

\* The script of a page asks on the path the page came from, and only the run
\* of that path answers it with data.
FetchesOwnPath ==
  \A t \in Tabs :
    /\ charts[t] \in {None, page[t]}
    /\ (net[t].stage \in {"asking", "answered"} /\ net[t].kind = "data")
         => net[t].path = Path(page[t])
    /\ (net[t].stage \in {"asking", "answered"} /\ net[t].kind # "data")
         => page[t] = None /\ charts[t] = None
    /\ (net[t].stage = "answered" /\ net[t].status = "data")
         => net[t].kind = "data" /\ net[t].path = Path(net[t].from)
    /\ (net[t].stage = "answered" /\ net[t].status \in {"page", "seeOther"})
         => net[t].kind # "data"

\* What a handler's answer is.
LEMMA ServeAnswers ==
  ASSUME TypeOK, NEW t \in Tabs, Serve(t)
  PROVE  /\ net[t].stage = "asking"
         /\ UNCHANGED <<run, up, known, jar, page, charts, calm>>
         /\ \A u \in Tabs \ {t} : net'[u] = net[u]
         /\ net'[t].stage = "answered" /\ net'[t].from = run /\ up
         /\ net'[t].kind = net[t].kind /\ net'[t].path = net[t].path
         /\ net'[t].opened = net[t].opened /\ net'[t].link = net[t].link
         /\ net'[t].elsewhere = net[t].elsewhere
         /\ net'[t].setCookie \in {None, Token(run)}
         /\ net'[t].status = "data" => net[t].kind = "data" /\ net[t].path = Path(run)
         /\ net'[t].status = "page" => net[t].kind = "ui"
         /\ net'[t].status = "page" /\ net[t].cookie # Token(run) => net[t].query = Token(run)
         /\ net'[t].status = "seeOther" =>
              net[t].kind = "login" /\ net'[t].setCookie = Token(run)
         /\ net'[t].status = "forbidden" =>
              \/ net[t].kind = "login" /\ net[t].query # Token(run)
              \/ net[t].kind = "ui" /\ net[t].query # Token(run) /\ net[t].cookie # Token(run)
              \/ net[t].kind = "data" /\ net[t].cookie # Token(run)
<1> DEFINE Possible(status, cookie) ==
      /\ cookie \in {None, Token(run)}
      /\ status = "data" => net[t].kind = "data" /\ net[t].path = Path(run)
      /\ status = "page" => net[t].kind = "ui"
      /\ status = "page" /\ net[t].cookie # Token(run) => net[t].query = Token(run)
      /\ status = "seeOther" => net[t].kind = "login" /\ cookie = Token(run)
      /\ status = "forbidden" =>
           \/ net[t].kind = "login" /\ net[t].query # Token(run)
           \/ net[t].kind = "ui" /\ net[t].query # Token(run) /\ net[t].cookie # Token(run)
           \/ net[t].kind = "data" /\ net[t].cookie # Token(run)
<1>0. up /\ net[t].stage = "asking"
  BY DEF Serve, HandleLogin, HandleUI, HandleChartData, Trap, TooMany, Asked
<1>1. Token(run) # None
  BY <1>0 DEF TypeOK, Token, None
<1>2. \E status, cookie : Answer(t, status, cookie) /\ Possible(status, cookie)
  <2>1. CASE HandleLogin(t)
    BY <2>1, <1>1 DEF HandleLogin, Asked, Valid
  <2>2. CASE HandleUI(t)
    BY <2>2, <1>1 DEF HandleUI, Asked, Valid, IsAuthenticated, TokenFromRequest
  <2>3. CASE HandleChartData(t)
    BY <2>3, <1>1 DEF HandleChartData, Asked, Valid, IsAuthenticated, TokenFromRequest
  <2>4. CASE Trap(t)
    BY <2>4 DEF Trap
  <2>5. CASE TooMany(t)
    BY <2>5 DEF TooMany
  <2> QED
    BY <2>1, <2>2, <2>3, <2>4, <2>5 DEF Serve
<1>3. PICK status, cookie : Answer(t, status, cookie) /\ Possible(status, cookie)
  BY <1>2
<1>4. /\ net'[t].stage = "answered" /\ net'[t].from = run
      /\ net'[t].status = status /\ net'[t].setCookie = cookie
      /\ net'[t].kind = net[t].kind /\ net'[t].path = net[t].path
      /\ net'[t].opened = net[t].opened /\ net'[t].link = net[t].link
      /\ net'[t].elsewhere = net[t].elsewhere
      /\ \A u \in Tabs \ {t} : net'[u] = net[u]
      /\ UNCHANGED <<run, up, known, jar, page, charts, calm>>
  BY <1>3 DEF Answer, TypeOK, Messages
<1> QED
  BY <1>0, <1>3, <1>4

LEMMA StepFetches == TypeOK /\ FetchesOwnPath /\ [Next]_vars => FetchesOwnPath'
<1> SUFFICES ASSUME TypeOK, FetchesOwnPath, [Next]_vars PROVE FetchesOwnPath'
  OBVIOUS
<1>1. CASE Start
  BY <1>1 DEF Start, FetchesOwnPath
<1>2. CASE Stop
  BY <1>2 DEF Stop, FetchesOwnPath, TypeOK, Blank
<1>3. CASE Expire
  BY <1>3 DEF Expire, FetchesOwnPath
<1>4. ASSUME NEW t \in Tabs, Receive(t) PROVE FetchesOwnPath'
  <2>1. NextRequest(t, jar').stage # "answered"
    BY DEF NextRequest, Asking, Shows
  <2>2. NextRequest(t, jar').stage = "asking" =>
          \/ /\ net[t].status = "page" /\ NextRequest(t, jar').kind = "data"
             /\ NextRequest(t, jar').path = Path(net[t].from)
          \/ net[t].status = "seeOther" /\ NextRequest(t, jar').kind = "ui"
    BY DEF NextRequest, Asking, Shows
  <2>3. /\ net[t].status = "data" => net[t].from = page[t]
        /\ net[t].status \in {"page", "seeOther"} => page[t] = None /\ charts[t] = None
    BY <1>4 DEF Receive, FetchesOwnPath, Path
  <2>4. \A u \in Tabs \ {t} :
          net'[u] = net[u] /\ page'[u] = page[u] /\ charts'[u] = charts[u]
    BY <1>4 DEF Receive, TypeOK
  <2>5. /\ net'[t] \in {NextRequest(t, jar'), Blank}
        /\ page'[t] = IF net[t].status = "page" THEN net[t].from ELSE page[t]
        /\ charts'[t] = IF net[t].status = "data" THEN net[t].from ELSE charts[t]
    BY <1>4 DEF Receive, TypeOK
  <2> QED
    BY <2>1, <2>2, <2>3, <2>4, <2>5 DEF FetchesOwnPath, Blank
<1>5. ASSUME NEW t \in Tabs, Serve(t) PROVE FetchesOwnPath'
  BY <1>5, ServeAnswers DEF FetchesOwnPath
<1>6. ASSUME NEW t \in Tabs, NEW kind \in {"login", "ui"}, NEW n \in Runs,
             NEW token \in Runs \cup {None}, NEW elsewhere \in BOOLEAN,
             Navigate(t, kind, n, token, elsewhere)
      PROVE  FetchesOwnPath'
  BY <1>6 DEF Navigate, FetchesOwnPath, TypeOK, Asking, Blank
<1>7. CASE UNCHANGED vars
  BY <1>7 DEF vars, FetchesOwnPath
<1> QED
  BY <1>1, <1>2, <1>3, <1>4, <1>5, <1>6, <1>7 DEF Next

\* The charts beside a page are those of the run that served the page.
THEOREM ChartsMatchPage == Spec => []ChartsOfSameRun
<1>1. Init => FetchesOwnPath
  <2> SUFFICES ASSUME Init PROVE FetchesOwnPath
    OBVIOUS
  <2>1. \A t \in Tabs : charts[t] = None /\ net[t].stage = "blank"
    BY DEF Init, Blank
  <2> QED
    BY <2>1 DEF FetchesOwnPath
<1>2. FetchesOwnPath => ChartsOfSameRun
  BY DEF FetchesOwnPath, ChartsOfSameRun
<1> QED
  BY <1>1, <1>2, InitType, StepType, StepFetches, PTL DEF Spec

-----------------------------------------------------------------------------
(* The session of a run *)

\* A handler gives out the token of its own run or none.
OwnCookies ==
  \A t \in Tabs :
    net[t].stage = "answered" =>
      net[t].from \in 1 .. run /\ net[t].setCookie \in {None, Token(net[t].from)}

LEMMA StepCookies == TypeOK /\ OwnCookies /\ [Next]_vars => OwnCookies'
<1> SUFFICES ASSUME TypeOK, OwnCookies, [Next]_vars PROVE OwnCookies'
  OBVIOUS
<1>0. run \in Nat
  BY RunsAssumption DEF TypeOK
<1>1. CASE Start
  BY <1>0, <1>1 DEF Start, OwnCookies
<1>2. CASE Stop
  BY <1>2 DEF Stop, OwnCookies, TypeOK, Blank
<1>3. CASE Expire
  BY <1>3 DEF Expire, OwnCookies
<1>4. ASSUME NEW t \in Tabs, Receive(t) PROVE OwnCookies'
  <2>1. NextRequest(t, jar').stage # "answered"
    BY DEF NextRequest, Asking, Shows
  <2> QED
    BY <1>4, <2>1 DEF Receive, OwnCookies, TypeOK, Blank
<1>5. ASSUME NEW t \in Tabs, Serve(t) PROVE OwnCookies'
  <2>1. run \in 1 .. run /\ UNCHANGED run
    BY <1>0, <1>5, ServeAnswers DEF TypeOK
  <2> QED
    BY <1>5, <2>1, ServeAnswers DEF OwnCookies
<1>6. ASSUME NEW t \in Tabs, NEW kind \in {"login", "ui"}, NEW n \in Runs,
             NEW token \in Runs \cup {None}, NEW elsewhere \in BOOLEAN,
             Navigate(t, kind, n, token, elsewhere)
      PROVE  OwnCookies'
  BY <1>6 DEF Navigate, OwnCookies, TypeOK, Asking, Blank
<1>7. CASE UNCHANGED vars
  BY <1>7 DEF vars, OwnCookies
<1> QED
  BY <1>1, <1>2, <1>3, <1>4, <1>5, <1>6, <1>7 DEF Next

LEMMA InitCookies == Init => OwnCookies
<1> SUFFICES ASSUME Init PROVE OwnCookies
  OBVIOUS
<1>1. \A t \in Tabs : net[t].stage = "blank"
  BY DEF Init, Blank
<1> QED
  BY <1>1 DEF OwnCookies

\* While a run lasts, only expiry or a late answer of an earlier run ends the
\* session that the browser has with it.
THEOREM SessionStays == Spec => SessionKept
<1> DEFINE Kept ==
      (up /\ up' /\ jar = Token(run) /\ jar' # jar)
        => \/ jar' = None
           \/ \E t \in Tabs : /\ net[t].stage = "answered"
                              /\ net[t].from < run /\ net[t].setCookie = jar'
<1>1. ASSUME TypeOK, OwnCookies, [Next]_vars PROVE [Kept]_vars
  <2> SUFFICES ASSUME up, up', jar = Token(run), jar' # jar PROVE Kept
    BY DEF vars
  <2>1. CASE Expire
    BY <2>1 DEF Expire
  <2>2. ASSUME NEW t \in Tabs, Receive(t) PROVE Kept
    <3>1. net[t].stage = "answered" /\ net[t].setCookie = jar' /\ jar' # None
      BY <2>2 DEF Receive
    <3>2. net[t].from < run
      BY <1>1, <3>1, RunsAssumption DEF OwnCookies, Token, TypeOK, None
    <3> QED
      BY <3>1, <3>2
  <2>3. ASSUME NEW t \in Tabs, Serve(t) PROVE FALSE
    BY <1>1, <2>3, ServeAnswers
  <2> QED
    BY <1>1, <2>1, <2>2, <2>3 DEF Next, vars, Start, Stop, Navigate
<1> QED
  BY <1>1, InitType, StepType, InitCookies, StepCookies, PTL DEF Spec, SessionKept

-----------------------------------------------------------------------------
(* A valid token admits *)

\* A tab whose address has the token of this run, opened in the browser itself
\* and not disturbed since, sends that token with every request, and the one
\* that was opened at the login has the browser's cookie behind it.
FollowsLink(t) ==
  /\ run # None
  /\ net[t].stage = "asking" /\ net[t].kind = "login" => net[t].query = Token(run)
  /\ net[t].stage = "asking" /\ net[t].kind = "ui" =>
       \/ net[t].opened = "ui" /\ (net[t].query = Token(run) \/ net[t].cookie = Token(run))
       \/ net[t].cookie = Token(run) /\ jar = Token(run)
  /\ net[t].stage = "asking" /\ net[t].kind = "data" /\ net[t].opened = "login" =>
       net[t].cookie = Token(run)
  /\ net[t].stage = "answered" /\ net[t].status = "seeOther" =>
       net[t].setCookie = Token(run)
  /\ net[t].stage = "answered" /\ net[t].status = "page" /\ net[t].opened = "login" =>
       jar = Token(run) /\ net[t].setCookie \in {None, Token(run)}
  /\ net[t].stage \in {"answered", "shows"} /\ net[t].status = "forbidden" =>
       net[t].opened = "ui" /\ net[t].kind = "data"

LinksFollowed ==
  \A t \in calm : net[t].link = Token(run) /\ ~net[t].elsewhere => FollowsLink(t)

LEMMA StepLinks ==
  TypeOK /\ OwnCookies /\ LinksFollowed /\ [Next]_vars => LinksFollowed'
<1> SUFFICES ASSUME TypeOK, OwnCookies, LinksFollowed, [Next]_vars PROVE LinksFollowed'
  OBVIOUS
<1>1. CASE Start \/ Stop \/ Expire
  BY <1>1 DEF Start, Stop, Expire, LinksFollowed
<1>2. ASSUME NEW t \in Tabs, Receive(t) PROVE LinksFollowed'
  <2> SUFFICES ASSUME NEW u \in calm', net'[u].link = Token(run)', ~net'[u].elsewhere
               PROVE  FollowsLink(u)'
    BY DEF LinksFollowed
  <2>1. jar' \in {jar, run} /\ calm' = calm /\ UNCHANGED <<run, up>>
    BY <1>2 DEF Receive, TypeOK
  <2>2. CASE u # t
    <3>1. net'[u] = net[u]
      BY <1>2, <2>2 DEF Receive, TypeOK
    <3>2. FollowsLink(u)
      BY <2>1, <3>1 DEF LinksFollowed, Token
    <3> QED
      BY <2>1, <3>1, <3>2 DEF FollowsLink, Token
  <2>3. CASE u = t
    <3>1. net[t].stage = "answered" /\ t \in calm
      BY <1>2, <2>1, <2>3 DEF Receive
    <3>2. net'[t] \in {NextRequest(t, jar'), Blank}
      BY <1>2 DEF Receive, TypeOK
    <3>3. CASE net'[t] = Blank
      <4>1. Token(run) = None
        BY <2>1, <2>3, <3>3 DEF Blank, Token
      <4>2. run # None
        BY <3>1 DEF OwnCookies, None, TypeOK
      <4> QED
        BY <4>1, <4>2 DEF Token
    <3>4. CASE net'[t] = NextRequest(t, jar')
      <4>1. /\ NextRequest(t, jar').link = net[t].link
            /\ NextRequest(t, jar').elsewhere = net[t].elsewhere
            /\ NextRequest(t, jar').opened = net[t].opened
        BY DEF NextRequest, Asking, Shows
      <4>2. FollowsLink(t)
        BY <2>1, <2>3, <3>1, <3>4, <4>1 DEF LinksFollowed, Token
      <4>3. CASE net[t].status = "seeOther"
        <5>1. jar' = Token(run)
          BY <1>2, <3>1, <4>2, <4>3 DEF Receive, FollowsLink, Token
        <5>2. /\ NextRequest(t, jar').stage = "asking"
              /\ NextRequest(t, jar').kind = "ui"
              /\ NextRequest(t, jar').cookie = Token(run)
          BY <2>1, <2>3, <3>4, <4>1, <4>3, <5>1 DEF NextRequest, Asking, CookieSent
        <5> QED
          BY <2>1, <2>3, <3>4, <4>2, <5>1, <5>2 DEF FollowsLink, Token
      <4>4. CASE net[t].status = "page"
        <5>1. net[t].opened = "login" => jar' = Token(run)
          BY <1>2, <3>1, <4>2, <4>4 DEF Receive, FollowsLink, Token
        <5>2. /\ NextRequest(t, jar').stage = "asking"
              /\ NextRequest(t, jar').kind = "data"
              /\ NextRequest(t, jar').cookie = jar'
          BY <4>4 DEF NextRequest, Asking
        <5> QED
          BY <2>1, <2>3, <3>4, <4>1, <4>2, <5>1, <5>2 DEF FollowsLink, Token
      <4>5. CASE net[t].status \notin {"seeOther", "page"}
        <5>1. /\ NextRequest(t, jar').stage = "shows"
              /\ NextRequest(t, jar').status = net[t].status
              /\ NextRequest(t, jar').kind = net[t].kind
          BY <4>5 DEF NextRequest, Shows
        <5> QED
          BY <2>1, <2>3, <3>1, <3>4, <4>1, <4>2, <5>1 DEF FollowsLink, Token
      <4> QED
        BY <4>3, <4>4, <4>5
    <3> QED
      BY <3>2, <3>3, <3>4
  <2> QED
    BY <2>2, <2>3
<1>3. ASSUME NEW t \in Tabs, Serve(t) PROVE LinksFollowed'
  <2> SUFFICES ASSUME NEW u \in calm', net'[u].link = Token(run)', ~net'[u].elsewhere
               PROVE  FollowsLink(u)'
    BY DEF LinksFollowed
  <2>1. UNCHANGED <<run, up, jar, calm>>
    BY <1>3, ServeAnswers
  <2>2. CASE u # t
    <3>1. net'[u] = net[u] /\ u \in Tabs
      BY <1>3, <2>1, <2>2, ServeAnswers DEF TypeOK
    <3>2. FollowsLink(u)
      BY <2>1, <3>1 DEF LinksFollowed, Token
    <3> QED
      BY <2>1, <3>1, <3>2 DEF FollowsLink, Token
  <2>3. CASE u = t
    <3>1. FollowsLink(t)
      BY <1>3, <2>1, <2>3, ServeAnswers DEF LinksFollowed, Token
    <3>2. net[t].opened \in {"login", "ui"}
      BY <1>3, <2>1, <2>3 DEF TypeOK, Messages
    <3> DEFINE a == net'[t]
    <3>3. a.stage = "answered" /\ a.opened = net[t].opened /\ a.kind = net[t].kind
      BY <1>3, ServeAnswers
    <3>4. a.status = "seeOther" => a.setCookie = Token(run)
      BY <1>3, ServeAnswers
    <3>5. a.status = "page" /\ a.opened = "login" =>
            jar = Token(run) /\ a.setCookie \in {None, Token(run)}
      BY <1>3, <3>1, ServeAnswers DEF FollowsLink
    <3>6. a.status = "forbidden" => a.opened = "ui" /\ a.kind = "data"
      BY <1>3, <3>1, <3>2, ServeAnswers DEF FollowsLink
    <3> QED
      BY <2>1, <2>3, <3>1, <3>3, <3>4, <3>5, <3>6 DEF FollowsLink, Token
  <2> QED
    BY <2>2, <2>3
<1>4. ASSUME NEW t \in Tabs, NEW kind \in {"login", "ui"}, NEW n \in Runs,
             NEW token \in Runs \cup {None}, NEW elsewhere \in BOOLEAN,
             Navigate(t, kind, n, token, elsewhere)
      PROVE  LinksFollowed'
  <2> SUFFICES ASSUME NEW u \in calm', net'[u].link = Token(run)', ~net'[u].elsewhere
               PROVE  FollowsLink(u)'
    BY DEF LinksFollowed
  <2>1. UNCHANGED <<run, jar>> /\ run # None
    BY <1>4, RunsAssumption DEF Navigate, TypeOK, Runs, None
  <2>2. CASE u # t
    <3>1. net'[u] = net[u] /\ u \in calm
      BY <1>4, <2>2 DEF Navigate, TypeOK
    <3> QED
      BY <2>1, <3>1 DEF LinksFollowed, FollowsLink, Token
  <2>3. CASE u = t
    <3>1. net'[t] \in {Blank, Asking(kind, Path(n), token, CookieSent(elsewhere, jar),
                                      kind, token, elsewhere)}
      BY <1>4 DEF Navigate, TypeOK
    <3> QED
      BY <2>1, <2>3, <3>1 DEF FollowsLink, Asking, Blank, Token
  <2> QED
    BY <2>2, <2>3
<1>5. CASE UNCHANGED vars
  BY <1>5 DEF vars, LinksFollowed, FollowsLink
<1> QED
  BY <1>1, <1>2, <1>3, <1>4, <1>5 DEF Next

\* A tab whose address has the token of this run asks the login and the page with
\* it, or the page with the cookie that the login has just set; what it asks for
\* after that are the charts of a page it shows.
ReachesPage(t) ==
  LET a == net[t] IN
  /\ a.stage = "asking" /\ a.kind = "login" => a.query = Token(run) /\ a.opened = "login"
  /\ a.stage = "asking" /\ a.kind = "ui" => Token(run) \in {a.query, a.cookie}
  /\ a.stage = "asking" /\ a.kind = "data" => page[t] = run
  /\ a.stage = "answered" /\ a.status = "seeOther" =>
       a.setCookie = Token(run) /\ a.opened = "login"
  /\ a.stage = "answered" /\ a.status = "page" => a.from = run
  /\ a.stage \in {"answered", "shows"} /\ a.status = "forbidden" =>
       a.kind = "data" /\ page[t] = run

\* No address has the token of a run to come.
PagesReached ==
  \A t \in Tabs :
    /\ net[t].link \in 0 .. run
    /\ net[t].link = Token(run) /\ ~(net[t].elsewhere /\ net[t].opened = "login")
         => ReachesPage(t)

LEMMA StepReach ==
  TypeOK /\ OwnCookies /\ PagesReached /\ [Next]_vars => PagesReached'
<1> SUFFICES ASSUME TypeOK, OwnCookies, PagesReached, [Next]_vars PROVE PagesReached'
  OBVIOUS
<1>0. run \in Nat /\ known \subseteq 1 .. run
  BY RunsAssumption DEF TypeOK
<1>1. CASE Start
  BY <1>0, <1>1 DEF Start, PagesReached, Token
<1>2. CASE Stop
  <2>1. \A t \in Tabs : net'[t] \in {net[t], Blank}
    BY <1>2 DEF Stop, TypeOK
  <2>2. UNCHANGED <<run, page>>
    BY <1>2 DEF Stop
  <2> QED
    BY <1>0, <2>1, <2>2 DEF PagesReached, ReachesPage, Blank, None, Token
<1>3. CASE Expire
  BY <1>3 DEF Expire, PagesReached, ReachesPage, Token
<1>4. ASSUME NEW t \in Tabs, Receive(t) PROVE PagesReached'
  <2>1. /\ net[t].stage = "answered" /\ UNCHANGED run
        /\ net'[t] \in {NextRequest(t, jar'), Blank}
        /\ page'[t] = IF net[t].status = "page" THEN net[t].from ELSE page[t]
        /\ net[t].setCookie # None => jar' = net[t].setCookie
    BY <1>4 DEF Receive, TypeOK
  <2>2. \A u \in Tabs \ {t} : net'[u] = net[u] /\ page'[u] = page[u]
    BY <1>4 DEF Receive, TypeOK
  <2>3. /\ NextRequest(t, jar').link = net[t].link
        /\ NextRequest(t, jar').elsewhere = net[t].elsewhere
        /\ NextRequest(t, jar').opened = net[t].opened
    BY DEF NextRequest, Asking, Shows
  <2>4. net'[t].link \in 0 .. run'
    BY <1>0, <2>1, <2>3 DEF PagesReached, Blank, None
  <2>5. ASSUME net'[t].link = Token(run), ~(net'[t].elsewhere /\ net'[t].opened = "login")
        PROVE  ReachesPage(t)'
    <3>1. CASE net'[t] = Blank
      BY <3>1 DEF ReachesPage, Blank
    <3>2. CASE net'[t] = NextRequest(t, jar')
      <4>1. ReachesPage(t) /\ ~(net[t].elsewhere /\ net[t].opened = "login")
        BY <2>3, <2>5, <3>2 DEF PagesReached
      <4>2. CASE net[t].status = "seeOther"
        <5>1. Token(run) # None /\ ~net[t].elsewhere
          <6>1. run # None
            BY <1>0, <2>1 DEF OwnCookies, None
          <6>2. net[t].opened = "login"
            BY <2>1, <4>1, <4>2 DEF ReachesPage
          <6> QED
            BY <4>1, <6>1, <6>2 DEF Token
        <5>2. jar' = Token(run)
          BY <2>1, <4>1, <4>2, <5>1 DEF ReachesPage
        <5>3. /\ net'[t].stage = "asking" /\ net'[t].kind = "ui"
              /\ net'[t].cookie = Token(run)
          BY <3>2, <4>2, <5>1, <5>2 DEF NextRequest, Asking, CookieSent
        <5> QED
          BY <2>1, <5>3 DEF ReachesPage, Token
      <4>3. CASE net[t].status = "page"
        <5>1. page'[t] = run
          BY <2>1, <4>1, <4>3 DEF ReachesPage
        <5>2. net'[t].stage = "asking" /\ net'[t].kind = "data"
          BY <3>2, <4>3 DEF NextRequest, Asking
        <5> QED
          BY <2>1, <5>1, <5>2 DEF ReachesPage, Token
      <4>4. CASE net[t].status \notin {"seeOther", "page"}
        <5>1. /\ net'[t].stage = "shows" /\ net'[t].status = net[t].status
              /\ net'[t].kind = net[t].kind /\ page'[t] = page[t]
          BY <2>1, <3>2, <4>4 DEF NextRequest, Shows
        <5> QED
          BY <2>1, <4>1, <5>1 DEF ReachesPage, Token
      <4> QED
        BY <4>2, <4>3, <4>4
    <3> QED
      BY <2>1, <3>1, <3>2
  <2>6. \A u \in Tabs \ {t} : ReachesPage(u) => ReachesPage(u)'
    BY <2>1, <2>2 DEF ReachesPage, Token
  <2> QED
    BY <2>1, <2>2, <2>4, <2>5, <2>6 DEF PagesReached, Token
<1>5. ASSUME NEW t \in Tabs, Serve(t) PROVE PagesReached'
  <2>1. UNCHANGED <<run, page>>
    BY <1>5, ServeAnswers
  <2>2. \A u \in Tabs \ {t} : net'[u] = net[u]
    BY <1>5, ServeAnswers
  <2>3. /\ net'[t].link = net[t].link /\ net'[t].elsewhere = net[t].elsewhere
        /\ net'[t].opened = net[t].opened
    BY <1>5, ServeAnswers
  <2>4. ReachesPage(t) => ReachesPage(t)'
    <3> SUFFICES ASSUME ReachesPage(t) PROVE ReachesPage(t)'
      OBVIOUS
    <3>1. /\ net[t].stage = "asking" /\ net'[t].stage = "answered"
          /\ net'[t].kind = net[t].kind /\ net'[t].from = run
      BY <1>5, ServeAnswers
    <3>2. net'[t].status = "seeOther" =>
            net'[t].setCookie = Token(run) /\ net[t].opened = "login"
      BY <1>5, <3>1, ServeAnswers DEF ReachesPage
    <3>3. net'[t].status = "forbidden" => net[t].kind = "data" /\ page[t] = run
      BY <1>5, <3>1, ServeAnswers DEF ReachesPage
    <3> QED
      BY <2>1, <2>3, <3>1, <3>2, <3>3 DEF ReachesPage, Token
  <2>5. \A u \in Tabs \ {t} : ReachesPage(u) => ReachesPage(u)'
    BY <2>1, <2>2 DEF ReachesPage, Token
  <2> QED
    BY <2>1, <2>2, <2>3, <2>4, <2>5 DEF PagesReached, Token
<1>6. ASSUME NEW t \in Tabs, NEW kind \in {"login", "ui"}, NEW n \in Runs,
             NEW token \in Runs \cup {None}, NEW elsewhere \in BOOLEAN,
             Navigate(t, kind, n, token, elsewhere)
      PROVE  PagesReached'
  <2>1. /\ net'[t] \in {Blank, Asking(kind, Path(n), token, CookieSent(elsewhere, jar),
                                       kind, token, elsewhere)}
        /\ token \in 0 .. run /\ UNCHANGED run
    BY <1>0, <1>6 DEF Navigate, TypeOK, None
  <2>2. \A u \in Tabs \ {t} : net'[u] = net[u] /\ page'[u] = page[u]
    BY <1>6 DEF Navigate, TypeOK
  <2>3. /\ net'[t].link \in 0 .. run'
        /\ net'[t].link = Token(run)' => ReachesPage(t)'
    BY <1>0, <2>1 DEF ReachesPage, Asking, Blank, None, Token
  <2>4. \A u \in Tabs \ {t} : ReachesPage(u) => ReachesPage(u)'
    BY <2>1, <2>2 DEF ReachesPage, Token
  <2> QED
    BY <2>1, <2>2, <2>3, <2>4 DEF PagesReached, Token
<1>7. CASE UNCHANGED vars
  BY <1>7 DEF vars, PagesReached, ReachesPage, Token
<1> QED
  BY <1>1, <1>2, <1>3, <1>4, <1>5, <1>6, <1>7 DEF Next

LEMMA InitReach == Init => PagesReached
<1> SUFFICES ASSUME Init PROVE PagesReached
  OBVIOUS
<1>1. run = 0 /\ \A t \in Tabs : net[t].stage = "blank" /\ net[t].link = 0
  BY DEF Init, Blank, None
<1>2. \A t \in Tabs : ReachesPage(t)
  BY <1>1 DEF ReachesPage
<1>3. \A t \in Tabs : net[t].link \in 0 .. run
  <2>1. 0 \in 0 .. 0
    OBVIOUS
  <2> QED
    BY <1>1, <2>1, Zenon
<1> QED
  BY <1>2, <1>3 DEF PagesReached

\* An address with the token of this run, unless it is a login link followed from
\* another site, is never answered by "Access Denied" instead of its page,
\* whatever the program, the cookie and the other tabs did meanwhile; after a
\* login that nothing disturbed, the charts are not refused either.
THEOREM ValidTokenAdmits == Spec => []TokenAdmits
<1>1. Init => LinksFollowed
  BY DEF Init, LinksFollowed
<1>2. LinksFollowed /\ PagesReached => TokenAdmits
  BY DEF LinksFollowed, FollowsLink, PagesReached, ReachesPage, TokenAdmits
<1> QED
  BY <1>1, <1>2, InitType, StepType, InitCookies, StepCookies, StepLinks, InitReach, StepReach,
     PTL DEF Spec

=============================================================================
