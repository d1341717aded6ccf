------------------------- MODULE BrowserShellProofs -------------------------
(* What holds of the shell and the browser for any number of tabs,         *)
(* sessions and authorizations, whatever order answers arrive in.          *)
EXTENDS BrowserShell, TLAPS

USE ShellNames

-----------------------------------------------------------------------------
(* Inductive invariant *)

(* An answer sets each cookie to what belongs into it.                     *)
Fits(sets) ==
  /\ sets \in UNION {[domain -> Sessions \cup Pendings \cup {None}] :
                       domain \in SUBSET Cookies}
  /\ "session" \in DOMAIN sets => sets["session"] \in Sessions \cup {None}
  /\ "pending" \in DOMAIN sets => sets["pending"] \in Pendings \cup {None}

(* The answer of a sign-in grants a session that exists, or has existed,   *)
(* and that was granted to the authorization the tab had begun.            *)
OwnSession(q, stages, origins) ==
  q.request = "callback" /\ q.redirect =>
    /\ q.sets["session"] \in Sessions
    /\ stages[q.sets["session"]] # "unborn"
    /\ origins[q.sets["session"]] = q.about

(* What is true of a tab at any time.                                      *)
Sound(q, stages, origins) ==
  /\ q \in Tab
  /\ Fits(q.sets)
  /\ q.acted # None => q.acted = q.about
  /\ OwnSession(q, stages, origins)

(* An authorization that signed a session in is no longer open, whether    *)
(* or not the session has ended since.                                     *)
UsedUp == \A s \in Sessions : origin[s] \notin open

Inv ==
  /\ TypeOK
  /\ UsedUp
  /\ \A t \in Tabs : Sound(tab[t], status, origin)

-----------------------------------------------------------------------------
(* Pages, cookies and answers *)

LEMMA PageTypes ==
  /\ Error \in Page
  /\ Public \in Page
  /\ \A s \in Sessions : Shell(s) \in Page
  /\ \A p \in Pendings : Authorize(p) \in Page
BY DEF Page, Error, Public, Shell, Authorize

LEMMA SubjectTypes ==
  ASSUME NEW page \in Page
  PROVE  /\ page.of \in Sessions \cup Pendings \cup {None}
         /\ \A request \in Requests(page) :
              request \in {"index", "login", "callback", "view", "mutate",
                           "switch", "logout"}
<1>1. page.of \in Sessions \cup Pendings \cup {None}
  BY DEF Page
<1>2. page.kind \in {"error", "public", "shell", "authorize"}
  BY DEF Page
<1> QED BY <1>1, <1>2 DEF Requests

LEMMA FitsIntro ==
  ASSUME NEW domain \in SUBSET Cookies,
         NEW sets \in [domain -> Sessions \cup Pendings \cup {None}],
         "session" \in domain => sets["session"] \in Sessions \cup {None},
         "pending" \in domain => sets["pending"] \in Pendings \cup {None}
  PROVE  Fits(sets)
BY DEF Fits

LEMMA AnswersFit ==
  /\ Fits(Nothing)
  /\ \A c \in Cookies : Fits(Cleared(c))
  /\ \A s \in Sessions : Fits(Granted(s)) /\ Granted(s)["session"] = s
  /\ \A p \in Pendings : Fits(Switched(p)) /\ Fits(Begun(p))
<1> DEFINE Values == Sessions \cup Pendings \cup {None}
<1>1. Fits(Nothing)
  <2>1. Nothing \in [{} -> Values]
    BY DEF Nothing
  <2> QED BY <2>1, FitsIntro
<1>2. ASSUME NEW c \in Cookies
      PROVE  Fits(Cleared(c))
  <2>1. {c} \subseteq Cookies /\ Cleared(c) \in [{c} -> Values]
    BY DEF Cleared
  <2>2. \A d \in {c} : Cleared(c)[d] = None
    BY DEF Cleared
  <2> QED BY <2>1, <2>2, FitsIntro
<1>3. ASSUME NEW s \in Sessions
      PROVE  Fits(Granted(s)) /\ Granted(s)["session"] = s
  <2>1. Granted(s) \in [Cookies -> Values]
    BY DEF Granted
  <2>2. Granted(s)["session"] = s /\ Granted(s)["pending"] = None
    BY DEF Granted, Cookies
  <2> QED BY <2>1, <2>2, FitsIntro
<1>4. ASSUME NEW p \in Pendings
      PROVE  Fits(Switched(p)) /\ Fits(Begun(p))
  <2>1. Switched(p) \in [Cookies -> Values]
    BY DEF Switched
  <2>2. Switched(p)["session"] = None /\ Switched(p)["pending"] = p
    BY DEF Switched, Cookies
  <2>3. /\ {"pending"} \subseteq Cookies
        /\ Begun(p) \in [{"pending"} -> Values]
        /\ Begun(p)["pending"] = p
    BY DEF Begun, Cookies
  <2> QED BY <2>1, <2>2, <2>3, FitsIntro
<1> QED BY <1>1, <1>2, <1>3, <1>4

(* The jar after an answer arrived is a jar.                               *)
LEMMA UpdatedTypes ==
  ASSUME NEW sets, Fits(sets), cookie \in Jar
  PROVE  Updated(sets) \in Jar
BY DEF Updated, Fits, Jar, Cookies

LEMMA QuietSound ==
  ASSUME NEW page \in Page, NEW stages, NEW origins
  PROVE  /\ Sound(Quiet(page), stages, origins)
         /\ Quiet(page).sets = Nothing
         /\ Quiet(page).acted = None
         /\ Quiet(page).redirect = FALSE
<1>1. Empty \in Jar
  BY DEF Empty, Jar, Cookies
<1>2. Fits(Nothing) /\ Error \in Page
  BY AnswersFit, PageTypes
<1>3. Quiet(page) \in Tab
  BY <1>1, <1>2 DEF Quiet, Tab, Fits
<1>4. /\ Quiet(page).sets = Nothing
      /\ Quiet(page).acted = None
      /\ Quiet(page).redirect = FALSE
  BY DEF Quiet
<1>5. Fits(Quiet(page).sets)
  BY <1>2, <1>4
<1>6. OwnSession(Quiet(page), stages, origins)
  BY <1>4 DEF OwnSession
<1>7. Sound(Quiet(page), stages, origins)
  BY <1>3, <1>4, <1>5, <1>6 DEF Sound
<1> QED BY <1>4, <1>7

LEMMA AskingSound ==
  ASSUME NEW page \in Page, NEW request \in Requests(page), NEW jar \in Jar,
         NEW stages, NEW origins
  PROVE  /\ Sound(Asking(page, request, jar), stages, origins)
         /\ Sound([Asking(page, request, jar) EXCEPT !.about = None],
                  stages, origins)
<1> DEFINE quiet == Quiet(page)
           q == Asking(page, request, jar)
           r == [q EXCEPT !.about = None]
<1>1. /\ quiet \in Tab
      /\ Fits(quiet.sets)
      /\ quiet.acted = None
      /\ quiet.redirect = FALSE
  <2>1. Sound(quiet, stages, origins)
    BY QuietSound
  <2> QED BY <2>1, QuietSound DEF Sound
<1>2. q = [quiet EXCEPT !.stage = "sent", !.request = request,
                        !.carried = Readable(request, jar), !.about = page.of]
  BY DEF Asking
<1> HIDE DEF quiet, q
<1>3. /\ q \in Tab
      /\ q.sets = quiet.sets
      /\ q.acted = None
      /\ q.redirect = FALSE
  <2>1. /\ page.of \in Sessions \cup Pendings \cup {None}
        /\ request \in {"index", "login", "callback", "view", "mutate",
                        "switch", "logout"}
    BY SubjectTypes
  <2>2. Readable(request, jar) \in Jar
    BY DEF Readable, Jar
  <2> QED BY <1>1, <1>2, <2>1, <2>2 DEF Tab
<1>4. /\ r \in Tab
      /\ r.sets = q.sets
      /\ r.acted = None
      /\ r.redirect = FALSE
  BY <1>3 DEF Tab
<1> HIDE DEF r
<1>5. Sound(q, stages, origins) /\ Sound(r, stages, origins)
  BY <1>1, <1>3, <1>4 DEF Sound, OwnSession
<1> QED BY <1>5 DEF q, r

(* The tab that a handler leaves behind.                                   *)
LEMMA RespondSound ==
  ASSUME NEW t \in Tabs, tab \in [Tabs -> Tab],
         NEW sets, Fits(sets), NEW next \in Page, NEW redirect \in BOOLEAN,
         NEW about \in Sessions \cup Pendings \cup {None},
         NEW acted \in Sessions \cup {None},
         NEW stages, NEW origins,
         Respond(t, sets, next, redirect, about, acted),
         acted # None => acted = about,
         tab[t].request = "callback" /\ redirect =>
           /\ sets["session"] \in Sessions
           /\ stages[sets["session"]] # "unborn"
           /\ origins[sets["session"]] = about
  PROVE  \E q : tab' = [tab EXCEPT ![t] = q] /\ Sound(q, stages, origins)
<1> DEFINE quiet == Quiet(tab[t].page)
           q == [quiet EXCEPT !.stage = "answered", !.request = tab[t].request,
                              !.about = about, !.acted = acted, !.sets = sets,
                              !.next = next, !.redirect = redirect]
<1>1. /\ tab[t].page \in Page
      /\ tab[t].request \in {"none", "index", "login", "callback", "view",
                             "mutate", "switch", "logout"}
  BY DEF Tab
<1>2. quiet \in Tab
  <2>1. Sound(quiet, stages, origins)
    BY <1>1, QuietSound
  <2> QED BY <2>1 DEF Sound
<1>3. tab' = [tab EXCEPT ![t] = q]
  BY DEF Respond
<1> HIDE DEF quiet
<1>4. /\ q \in Tab
      /\ q.request = tab[t].request
      /\ q.about = about
      /\ q.acted = acted
      /\ q.sets = sets
      /\ q.redirect = redirect
  BY <1>1, <1>2 DEF Tab, Fits
<1> HIDE DEF q
<1>5. Sound(q, stages, origins)
  BY <1>4 DEF Sound, OwnSession
<1> QED BY <1>3, <1>5

-----------------------------------------------------------------------------
(* Sessions and authorizations *)

(* All of the type invariant that is not about the tabs.                   *)
Registry ==
  /\ cookie \in Jar
  /\ status \in [Sessions -> Broker!Stages]
  /\ begun \subseteq Pendings
  /\ open \subseteq begun
  /\ origin \in [Sessions -> begun \cup {None}]
  /\ \A s \in Sessions : status[s] = "listed" => origin[s] \in begun
  /\ UsedUp

LEMMA RegistryTypes ==
  TypeOK /\ UsedUp <=> Registry /\ tab \in [Tabs -> Tab]
BY DEF TypeOK, Registry, UsedUp, Live, Broker!Listed

(* No session is forgotten, and none changes the authorization it was      *)
(* granted to.                                                             *)
Kept ==
  \A s \in Sessions :
    status[s] # "unborn" => status'[s] # "unborn" /\ origin'[s] = origin[s]

(* A step that grants nothing: sessions are withdrawn, authorizations are  *)
(* begun or go.                                                            *)
LEMMA NothingGranted ==
  ASSUME Registry,
         status' \in [Sessions -> Broker!Stages],
         \A s \in Sessions : status'[s] = "listed" => status[s] = "listed",
         \A s \in Sessions : status[s] # "unborn" => status'[s] # "unborn",
         cookie' \in Jar, origin' = origin,
         begun \subseteq begun', begun' \subseteq Pendings,
         open' \subseteq open \cup (begun' \ begun)
  PROVE  Registry' /\ Kept
<1>1. open' \subseteq begun'
  BY DEF Registry
<1>2. origin' \in [Sessions -> begun' \cup {None}]
  BY DEF Registry
<1>3. \A s \in Sessions : status'[s] = "listed" => origin'[s] \in begun'
  BY DEF Registry
<1>4. UsedUp'
  BY DEF Registry, UsedUp
<1> QED BY <1>1, <1>2, <1>3, <1>4 DEF Registry, Kept

LEMMA CondemnStages ==
  ASSUME Registry, NEW s \in Sessions, Broker!Condemn(s)
  PROVE  /\ status' \in [Sessions -> Broker!Stages]
         /\ \A r \in Sessions : status'[r] = "listed" => status[r] = "listed"
         /\ \A r \in Sessions : status[r] # "unborn" => status'[r] # "unborn"
BY DEF Registry, Broker!Condemn, Broker!Stages

LEMMA LiveSession ==
  ASSUME NEW s, Live(s)
  PROVE  s \in Sessions /\ status[s] = "listed"
BY DEF Live, Broker!Listed

(* A sign-in: the session is new, and the authorization is used up.        *)
LEMMA GrantKeeps ==
  ASSUME Registry, NEW p \in open, NEW s \in Sessions,
         NEW out \in SUBSET Broker!Listed, Broker!Grant(s, out),
         origin' = [origin EXCEPT ![s] = p], open' = Consumed(p),
         UNCHANGED <<cookie, begun>>
  PROVE  /\ Registry' /\ Kept
         /\ status'[s] # "unborn" /\ origin'[s] = p
<1>1. /\ status[s] = "unborn"
      /\ status' = [r \in Sessions |-> IF r \in out THEN "condemned"
                                       ELSE [status EXCEPT ![s] = "listed"][r]]
  BY DEF Broker!Grant, Broker!Withdraw
<1>2. out \subseteq {r \in Sessions : status[r] = "listed"}
  BY DEF Broker!Listed
<1>3. status' \in [Sessions -> Broker!Stages]
  BY <1>1 DEF Registry, Broker!Stages
<1>4. /\ status'[s] = "listed"
      /\ \A r \in Sessions \ {s} :
           /\ status'[r] = "listed" => status[r] = "listed"
           /\ status[r] # "unborn" => status'[r] # "unborn"
  BY <1>1, <1>2 DEF Registry
<1>5. p \in begun /\ open' = open \ {p} /\ begun' = begun /\ cookie' = cookie
  BY DEF Consumed, Registry
<1>6. /\ origin' \in [Sessions -> begun' \cup {None}]
      /\ origin'[s] = p
      /\ \A r \in Sessions \ {s} : origin'[r] = origin[r]
  BY <1>5 DEF Registry
<1>7. \A r \in Sessions : status'[r] = "listed" => origin'[r] \in begun'
  BY <1>4, <1>5, <1>6 DEF Registry
<1>10. UsedUp'
  <2>1. \A r \in Sessions \ {s} : origin[r] # p /\ origin[r] \notin open
    BY DEF Registry, UsedUp
  <2>2. \A r \in Sessions : origin'[r] \notin open'
    BY <1>5, <1>6, <2>1
  <2> QED BY <2>2 DEF UsedUp
<1>8. Registry'
  BY <1>3, <1>5, <1>6, <1>7, <1>10 DEF Registry
<1>9. Kept
  BY <1>1, <1>4, <1>6 DEF Kept
<1> QED BY <1>4, <1>6, <1>8, <1>9

-----------------------------------------------------------------------------
(* Steps *)

(* The step of one tab: it is left in a sound state.                       *)
TabStep(t) ==
  \E q : tab' = [tab EXCEPT ![t] = q] /\ Sound(q, status', origin')

LEMMA AnswerStep ==
  ASSUME Inv, NEW t \in Tabs, NEW sets, Fits(sets), NEW next \in Page,
         Answer(t, sets, next)
  PROVE  TabStep(t)
<1>1. Respond(t, sets, next, FALSE, None, None) /\ tab \in [Tabs -> Tab]
  BY DEF Answer, Inv, TypeOK
<1> QED BY <1>1, RespondSound DEF TabStep

LEMMA ActedStep ==
  ASSUME Inv, NEW t \in Tabs, NEW s \in Sessions, NEW sets, Fits(sets),
         NEW next \in Page, NEW redirect \in BOOLEAN,
         tab[t].about = s, tab[t].request # "callback",
         Acted(t, s, sets, next, redirect)
  PROVE  TabStep(t)
<1>1. Respond(t, sets, next, redirect, s, s) /\ tab \in [Tabs -> Tab]
  BY DEF Acted, Inv, TypeOK
<1> QED BY <1>1, RespondSound DEF TabStep

LEMMA TabTypes ==
  ASSUME Inv, NEW t \in Tabs
  PROVE  /\ tab \in [Tabs -> Tab] /\ tab[t] \in Tab /\ Fits(tab[t].sets)
         /\ tab[t].page \in Page /\ tab[t].next \in Page
         /\ tab[t].about \in Sessions \cup Pendings \cup {None}
         /\ Carried(t, "session") \in Sessions \cup {None}
         /\ Carried(t, "pending") \in Pendings \cup {None}
<1>1. tab \in [Tabs -> Tab] /\ tab[t] \in Tab /\ Fits(tab[t].sets)
  BY DEF Inv, TypeOK, Sound
<1>2. tab[t].carried \in Jar
  BY <1>1 DEF Tab
<1> QED BY <1>1, <1>2 DEF Tab, Carried, Jar

LEMMA AcceptedForm ==
  ASSUME NEW t \in Tabs, Accepted(t)
  PROVE  /\ Carried(t, "session") \in Sessions
         /\ status[Carried(t, "session")] = "listed"
         /\ tab[t].about = Carried(t, "session")
BY LiveSession DEF Accepted, TokenMatches

(* The steps of one tab, of its browser's or of a handler's.               *)
TabAction(t) ==
  \/ \E request \in Requests(tab[t].page) : Send(t, request)
  \/ Serve(t)
  \/ Deliver(t)
  \/ Drop(t)

LEMMA UnchangedRegistry ==
  ASSUME Registry, UNCHANGED <<cookie, status, begun, open, origin>>
  PROVE  Registry' /\ Kept
BY DEF Registry, UsedUp, Kept

LEMMA TabActionStep ==
  ASSUME Inv, NEW t \in Tabs, TabAction(t)
  PROVE  Registry' /\ Kept /\ TabStep(t)
<1> DEFINE session == Carried(t, "session")
           pending == Carried(t, "pending")
<1>0. Registry
  BY RegistryTypes DEF Inv
<1>1. ASSUME NEW request \in Requests(tab[t].page), Send(t, request)
      PROVE  Registry' /\ Kept /\ TabStep(t)
  <2>1. cookie \in Jar /\ tab[t].page \in Page
    BY <1>0, TabTypes DEF Registry
  <2>2. Sound(Asking(tab[t].page, request, cookie), status', origin')
    BY <2>1, AskingSound
  <2>3. tab' = [tab EXCEPT ![t] = Asking(tab[t].page, request, cookie)]
    BY <1>1 DEF Send
  <2> QED BY <1>0, <1>1, <2>2, <2>3, UnchangedRegistry DEF Send, TabStep
<1>2. CASE Index(t)
  <2>1. CASE Live(session)
    <3>1. Answer(t, Nothing, Shell(session))
      BY <1>2, <2>1, LiveSession DEF Index
    <3>2. Shell(session) \in Page
      BY <2>1, LiveSession, PageTypes
    <3> QED BY <1>0, <1>2, <3>1, <3>2, AnswersFit, AnswerStep, UnchangedRegistry
            DEF Index
  <2>2. CASE ~Live(session)
    <3>1. \/ Answer(t, Nothing, Public)
          \/ Answer(t, Cleared("session"), Public)
      <4>1. session = None => Answer(t, Nothing, Public)
        BY <1>2, <2>2 DEF Index
      <4>2. session # None => Answer(t, Cleared("session"), Public)
        BY <1>2, <2>2 DEF Index
      <4> QED BY <4>1, <4>2
    <3>2. Fits(Nothing) /\ Fits(Cleared("session"))
      BY AnswersFit DEF Cookies
    <3> QED BY <1>0, <1>2, <3>1, <3>2, PageTypes, AnswerStep, UnchangedRegistry
            DEF Index
  <2> QED BY <2>1, <2>2
<1>3. CASE Login(t)
  <2>1. CASE \E p \in Pendings : Begin(p) /\ Answer(t, Begun(p), Authorize(p))
    <3>1. PICK p \in Pendings : Begin(p) /\ Answer(t, Begun(p), Authorize(p))
      BY <2>1
    <3>2. Fits(Begun(p)) /\ Authorize(p) \in Page
      BY AnswersFit, PageTypes
    <3>3. TabStep(t)
      BY <3>1, <3>2, AnswerStep
    <3>4. Registry' /\ Kept
      BY <1>0, <1>3, <3>1, NothingGranted DEF Login, Begin, Registry
    <3> QED BY <3>3, <3>4
  <2>2. CASE BeginFails /\ Answer(t, Nothing, Error)
    BY <1>0, <1>3, <2>2, AnswersFit, PageTypes, AnswerStep, UnchangedRegistry
    DEF Login, BeginFails
  <2> QED BY <1>3, <2>1, <2>2 DEF Login
<1>4. CASE Callback(t)
  <2>1. pending \in open /\ tab[t].about = pending
    BY <1>4 DEF Callback, StateMatches
  <2>2. PICK s \in Sessions, out \in SUBSET Broker!Listed :
          /\ Broker!Grant(s, out)
          /\ origin' = [origin EXCEPT ![s] = pending]
          /\ Respond(t, Granted(s), Error, TRUE, tab[t].about, None)
    BY <1>4 DEF Callback
  <2>3. /\ Registry' /\ Kept
        /\ status'[s] # "unborn" /\ origin'[s] = pending
    BY <1>0, <1>4, <2>1, <2>2, GrantKeeps DEF Callback
  <2>4. Fits(Granted(s)) /\ Granted(s)["session"] = s
    BY AnswersFit
  <2> DEFINE sets == Granted(s)
  <2> HIDE DEF sets
  <2>5. TabStep(t)
    <3>1. /\ Respond(t, sets, Error, TRUE, pending, None)
          /\ tab \in [Tabs -> Tab] /\ Fits(sets)
      BY <2>1, <2>2, <2>4, TabTypes DEF sets
    <3>2. /\ sets["session"] \in Sessions
          /\ status'[sets["session"]] # "unborn"
          /\ origin'[sets["session"]] = pending
      BY <2>3, <2>4 DEF sets
    <3> QED BY <3>1, <3>2, TabTypes, PageTypes, RespondSound DEF TabStep
  <2> QED BY <2>3, <2>5
<1>5. CASE CallbackFails(t)
  <2>1. Fits(Cleared("pending"))
    BY AnswersFit DEF Cookies
  <2>2. TabStep(t)
    BY <1>5, <2>1, PageTypes, AnswerStep DEF CallbackFails
  <2>3. open' \subseteq open /\ UNCHANGED <<cookie, status, begun, origin>>
    BY <1>5 DEF CallbackFails, Consumed
  <2>4. Registry' /\ Kept
    BY <1>0, <2>3, NothingGranted DEF Registry
  <2> QED BY <2>2, <2>4
<1>6. CASE SwitchTenant(t)
  <2>0. tab[t].request # "callback"
    BY <1>6 DEF SwitchTenant, Asked
  <2>1. CASE ~Accepted(t)
    BY <1>0, <1>6, <2>1, AnswersFit, PageTypes, AnswerStep, UnchangedRegistry
    DEF SwitchTenant
  <2>2. CASE Accepted(t)
    <3>1. /\ Broker!Condemn(session)
          /\ \/ \E p \in Pendings :
                  /\ Begin(p)
                  /\ Acted(t, session, Switched(p), Authorize(p), FALSE)
             \/ BeginFails /\ Acted(t, session, Nothing, Error, FALSE)
          /\ UNCHANGED <<cookie, origin>>
      BY <1>6, <2>2 DEF SwitchTenant
    <3>2. /\ status' \in [Sessions -> Broker!Stages]
          /\ \A r \in Sessions : status'[r] = "listed" => status[r] = "listed"
          /\ \A r \in Sessions : status[r] # "unborn" => status'[r] # "unborn"
      BY <1>0, <2>2, <3>1, AcceptedForm, CondemnStages
    <3>3. ASSUME NEW p \in Pendings, Begin(p),
                 Acted(t, session, Switched(p), Authorize(p), FALSE)
          PROVE  Registry' /\ Kept /\ TabStep(t)
      <4>1. Registry' /\ Kept
        BY <1>0, <3>1, <3>2, <3>3, NothingGranted DEF Begin, Registry
      <4>2. Fits(Switched(p)) /\ Authorize(p) \in Page
        BY AnswersFit, PageTypes
      <4>3. TabStep(t)
        BY <2>0, <2>2, <3>3, <4>2, AcceptedForm, ActedStep
      <4> QED BY <4>1, <4>3
    <3>4. ASSUME BeginFails, Acted(t, session, Nothing, Error, FALSE)
          PROVE  Registry' /\ Kept /\ TabStep(t)
      <4>1. Registry' /\ Kept
        BY <1>0, <3>1, <3>2, <3>4, NothingGranted DEF BeginFails, Registry
      <4>2. TabStep(t)
        BY <2>0, <2>2, <3>4, AnswersFit, PageTypes, AcceptedForm, ActedStep
      <4> QED BY <4>1, <4>2
    <3> QED BY <3>1, <3>3, <3>4
  <2> QED BY <2>1, <2>2
<1>7. CASE Logout(t)
  <2>0. tab[t].request # "callback"
    BY <1>7 DEF Logout, Asked
  <2>1. CASE ~Accepted(t)
    BY <1>0, <1>7, <2>1, AnswersFit, PageTypes, AnswerStep, UnchangedRegistry
    DEF Logout
  <2>2. CASE Accepted(t)
    <3>1. /\ Broker!Condemn(session)
          /\ Acted(t, session, Cleared("session"), Error, TRUE)
          /\ UNCHANGED <<cookie, begun, open, origin>>
      BY <1>7, <2>2 DEF Logout
    <3>2. /\ status' \in [Sessions -> Broker!Stages]
          /\ \A r \in Sessions : status'[r] = "listed" => status[r] = "listed"
          /\ \A r \in Sessions : status[r] # "unborn" => status'[r] # "unborn"
      BY <1>0, <2>2, <3>1, AcceptedForm, CondemnStages
    <3>3. Registry' /\ Kept
      BY <1>0, <3>1, <3>2, NothingGranted DEF Registry
    <3>4. Fits(Cleared("session"))
      BY AnswersFit DEF Cookies
    <3>5. TabStep(t)
      BY <2>0, <2>2, <3>1, <3>4, PageTypes, AcceptedForm, ActedStep
    <3> QED BY <3>3, <3>5
  <2> QED BY <2>1, <2>2
<1>8. CASE TurnAway(t)
  <2>1. Fits(Nothing) /\ Fits(Cleared("session"))
    BY AnswersFit DEF Cookies
  <2>2. TabStep(t)
    BY <1>8, <2>1, PageTypes, AnswerStep DEF TurnAway
  <2> QED BY <1>0, <1>8, <2>2, UnchangedRegistry DEF TurnAway
<1>9. CASE View(t)
  <2>1. PICK next \in {Shell(session), Error} : Answer(t, Nothing, next)
    BY <1>9 DEF View
  <2>2. next \in Page
    BY <1>9, LiveSession, PageTypes DEF View
  <2>3. TabStep(t)
    BY <2>1, <2>2, AnswersFit, AnswerStep
  <2> QED BY <1>0, <1>9, <2>3, UnchangedRegistry DEF View
<1>10. CASE Mutate(t)
  <2>1. CASE Answer(t, Nothing, Error)
    BY <1>0, <1>10, <2>1, AnswersFit, PageTypes, AnswerStep, UnchangedRegistry
    DEF Mutate
  <2>2. ASSUME Accepted(t), NEW next \in {Shell(session), Error},
               Acted(t, session, Nothing, next, FALSE)
        PROVE  Registry' /\ Kept /\ TabStep(t)
    <3>1. tab[t].request # "callback"
      BY <1>10 DEF Mutate, Asked
    <3>2. next \in Page
      BY <2>2, AcceptedForm, PageTypes
    <3>3. TabStep(t)
      BY <2>2, <3>1, <3>2, AnswersFit, AcceptedForm, ActedStep
    <3> QED BY <1>0, <1>10, <3>3, UnchangedRegistry DEF Mutate
  <2> QED BY <1>10, <2>1, <2>2 DEF Mutate
<1>11. CASE Deliver(t)
  <2> DEFINE jar == Updated(tab[t].sets)
  <2>1. jar \in Jar
    BY <1>0, TabTypes, UpdatedTypes DEF Registry
  <2>2. PICK sent \in {jar} \cup {j \in {[jar EXCEPT !.session = None]} :
                                    tab[t].request = "callback"} :
          tab' = [tab EXCEPT ![t] =
                    IF tab[t].redirect
                    THEN [Asking(tab[t].next, "index", sent) EXCEPT !.about = None]
                    ELSE Quiet(tab[t].next)]
    BY <1>11 DEF Deliver
  <2>3. sent \in Jar
    BY <2>1 DEF Jar
  <2>4. tab[t].next \in Page /\ "index" \in Requests(tab[t].next)
    BY TabTypes DEF Requests
  <2>5. TabStep(t)
    <3>1. CASE tab[t].redirect
      BY <2>2, <2>3, <2>4, <3>1, AskingSound DEF TabStep
    <3>2. CASE ~tab[t].redirect
      BY <2>2, <2>4, <3>2, QuietSound DEF TabStep
    <3> QED BY <3>1, <3>2
  <2>6. cookie' \in Jar /\ UNCHANGED <<status, begun, open, origin>>
    BY <1>11, <2>1 DEF Deliver
  <2>7. Registry' /\ Kept
    BY <1>0, <2>6 DEF Registry, UsedUp, Kept
  <2> QED BY <2>5, <2>7
<1>12. CASE Drop(t)
  <2>1. TabStep(t)
    BY <1>12, TabTypes, QuietSound DEF Drop, TabStep
  <2> QED BY <1>0, <1>12, <2>1, UnchangedRegistry DEF Drop
<1> QED BY <1>1, <1>2, <1>3, <1>4, <1>5, <1>6, <1>7, <1>8, <1>9, <1>10, <1>11,
           <1>12 DEF TabAction, Serve

-----------------------------------------------------------------------------
(* The invariant *)

LEMMA InvInit == Init => Inv
<1> SUFFICES ASSUME Init PROVE Inv
  OBVIOUS
<1>1. cookie \in Jar
  BY DEF Init, Empty, Jar, Cookies
<1>2. status = [s \in Sessions |-> "unborn"]
  BY DEF Init, Broker!Init
<1>3. Registry
  BY <1>1, <1>2 DEF Init, Registry, UsedUp, Broker!Stages
<1>4. \A t \in Tabs : tab[t] = Quiet(Error)
  BY DEF Init
<1>5. \A t \in Tabs : Sound(tab[t], status, origin)
  BY <1>4, PageTypes, QuietSound
<1>6. tab \in [Tabs -> Tab]
  BY <1>5 DEF Init, Sound
<1> QED BY <1>3, <1>5, <1>6, RegistryTypes DEF Inv

(* What is true of a tab stays true while others act.                      *)
LEMMA SoundStays ==
  ASSUME NEW q, Sound(q, status, origin), Kept
  PROVE  Sound(q, status', origin')
BY DEF Sound, OwnSession, Kept

LEMMA TabsSound ==
  ASSUME Inv, Registry', Kept,
         tab' = tab \/ \E t \in Tabs : TabStep(t)
  PROVE  Inv'
<1>1. /\ tab \in [Tabs -> Tab]
      /\ \A t \in Tabs : Sound(tab[t], status', origin')
  BY SoundStays DEF Inv, TypeOK
<1>2. /\ tab' \in [Tabs -> Tab]
      /\ \A t \in Tabs : Sound(tab'[t], status', origin')
  <2>1. CASE tab' = tab
    BY <1>1, <2>1
  <2>2. ASSUME NEW t \in Tabs, TabStep(t)
        PROVE  /\ tab' \in [Tabs -> Tab]
               /\ \A u \in Tabs : Sound(tab'[u], status', origin')
    <3>1. PICK q : tab' = [tab EXCEPT ![t] = q] /\ Sound(q, status', origin')
      BY <2>2 DEF TabStep
    <3>2. q \in Tab
      BY <3>1 DEF Sound
    <3> QED BY <1>1, <3>1, <3>2
  <2> QED BY <2>1, <2>2
<1>3. TypeOK'
  BY <1>2 DEF TypeOK, Registry, UsedUp, Live, Broker!Listed
<1> QED BY <1>2, <1>3 DEF Inv, Registry

LEMMA InvStep == Inv /\ [Next]_vars => Inv'
<1> SUFFICES ASSUME Inv, [Next]_vars PROVE Inv'
  OBVIOUS
<1>0. Registry
  BY RegistryTypes DEF Inv
<1>1. ASSUME NEW t \in Tabs, TabAction(t)
      PROVE  Inv'
  BY <1>1, TabActionStep, TabsSound
<1>2. ASSUME NEW s \in Sessions, Expire(s)
      PROVE  Inv'
  <2>1. Registry' /\ Kept
    BY <1>0, <1>2, CondemnStages, NothingGranted DEF Expire, Registry
  <2> QED BY <1>2, <2>1, TabsSound DEF Expire
<1>3. ASSUME NEW s \in Sessions, Destroy(s)
      PROVE  Inv'
  <2>1. status[s] = "condemned" /\ status' = [status EXCEPT ![s] = "dead"]
    BY <1>3 DEF Destroy, Broker!Destroy
  <2>2. /\ status' \in [Sessions -> Broker!Stages]
        /\ \A r \in Sessions : status'[r] = "listed" => status[r] = "listed"
        /\ \A r \in Sessions : status[r] # "unborn" => status'[r] # "unborn"
    BY <1>0, <2>1 DEF Registry, Broker!Stages
  <2>3. Registry' /\ Kept
    BY <1>0, <1>3, <2>2, NothingGranted DEF Destroy, Registry
  <2> QED BY <1>3, <2>3, TabsSound DEF Destroy
<1>4. ASSUME NEW p \in Pendings, Forget(p)
      PROVE  Inv'
  <2>1. Registry' /\ Kept
    BY <1>0, <1>4, NothingGranted DEF Forget, Registry
  <2> QED BY <1>4, <2>1, TabsSound DEF Forget
<1>5. CASE Restart
  <2>1. /\ status' \in [Sessions -> Broker!Stages]
        /\ \A r \in Sessions : status'[r] = "listed" => status[r] = "listed"
        /\ \A r \in Sessions : status[r] # "unborn" => status'[r] # "unborn"
    BY <1>5 DEF Restart, Broker!Stages
  <2>2. Registry' /\ Kept
    BY <1>0, <1>5, <2>1, NothingGranted DEF Restart, Registry
  <2> QED BY <1>5, <2>2, TabsSound DEF Restart
<1>6. CASE UNCHANGED vars
  <2>1. Registry' /\ Kept
    BY <1>0, <1>6, UnchangedRegistry DEF vars
  <2> QED BY <1>6, <2>1, TabsSound DEF vars
<1> QED BY <1>1, <1>2, <1>3, <1>4, <1>5, <1>6 DEF Next, TabAction

(* The inductive invariant: besides being well formed, cookies receive     *)
(* what belongs into them, and an authorization that signed a session in   *)
(* is closed for good (authenticated.go).                                  *)
THEOREM AlwaysInv == Spec => []Inv
BY InvInit, InvStep, PTL DEF Spec

-----------------------------------------------------------------------------
(* What the shell promises *)

(* Every jar, tab and session is well formed, and a session that is alive  *)
(* was granted to an authorization that was begun and that no callback can *)
(* use again (authenticated.go callback, broker Complete).                 *)
THEOREM AlwaysTypeOK == Spec => []TypeOK
<1>1. Inv => TypeOK
  BY DEF Inv
<1> QED BY <1>1, AlwaysInv, PTL

(* A form acts only in the session of the page it was submitted from,      *)
(* however many tabs share the cookie (ValidateCSRF, Switch, Logout).      *)
THEOREM AlwaysFormsActWhereShown == Spec => []FormsActWhereShown
<1>1. Inv => FormsActWhereShown
  BY DEF Inv, Sound, FormsActWhereShown
<1> QED BY <1>1, AlwaysInv, PTL

(* A sign-in that a tab completes is the one this tab began, and it stays  *)
(* so for as long as the answer is on its way (authenticated.go callback). *)
THEOREM AlwaysSessionFromOwnChoice == Spec => []SessionFromOwnChoice
<1>1. Inv => SessionFromOwnChoice
  BY DEF Inv, Sound, OwnSession, SessionFromOwnChoice
<1> QED BY <1>1, AlwaysInv, PTL

=============================================================================
