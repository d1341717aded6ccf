---------------------------- MODULE BrowserShell ----------------------------
(***************************************************************************)
(* Studio's shell (internal/server/authenticated.go) and the browser in    *)
(* front of it.  Several tabs share one cookie jar.  A request carries the *)
(* cookies of the moment it is sent and the form of the page it was sent   *)
(* from; its answer sets or clears cookies when it arrives, in whatever    *)
(* order answers arrive, and it may be lost although the handler has run.  *)
(* Sessions end on the server at any time, and a restart forgets them all. *)
(*                                                                         *)
(* What the broker promises about sessions is SessionLifecycle, which      *)
(* SessionBroker implements.                                               *)
(***************************************************************************)
EXTENDS Naturals, FiniteSets

CONSTANTS
  Tabs,         \* the tabs of one browser
  Sessions,     \* the sessions that can ever be granted
  Pendings,     \* the authorizations that can ever be begun
  MaxSessions,  \* the capacity of the broker
  None          \* absent

ASSUME ShellNames ==
  /\ None \notin Tabs \cup Sessions \cup Pendings
  /\ MaxSessions \in Nat \ {0}

VARIABLES
  cookie,  \* the cookie jar
  tab,     \* the page of a tab, its request and the answer on its way
  status,  \* the stage of each session, as in SessionLifecycle
  begun,   \* authorizations that were ever begun
  open,    \* those that the broker still waits for
  origin   \* the authorization that a session was granted to

vars == <<cookie, tab, status, begun, open, origin>>

Broker == INSTANCE SessionLifecycle

Live(s) == s \in Broker!Listed

-----------------------------------------------------------------------------

Cookies == {"session", "pending"}

Jar == [session : Sessions \cup {None}, pending : Pendings \cup {None}]

(* What an answer does to the jar: it sets the cookies of its domain.      *)
Nothing == [c \in {} |-> None]
Cleared(c) == [d \in {c} |-> None]
Granted(s) == [c \in Cookies |-> IF c = "session" THEN s ELSE None]
Switched(p) == [c \in Cookies |-> IF c = "pending" THEN p ELSE None]
Begun(p) == [c \in {"pending"} |-> p]

(* Pages: an error text, the list of tenants with its login forms, a page  *)
(* of a session with the session's CSRF token in its forms, and the link   *)
(* to the identity provider.                                               *)
Page == [kind : {"error", "public"}, of : {None}]
          \cup [kind : {"shell"}, of : Sessions]
          \cup [kind : {"authorize"}, of : Pendings]

Error == [kind |-> "error", of |-> None]
Public == [kind |-> "public", of |-> None]
Shell(s) == [kind |-> "shell", of |-> s]
Authorize(p) == [kind |-> "authorize", of |-> p]

(* What can be requested from a page.                                      *)
Requests(page) ==
  {"index"} \cup
  CASE page.kind = "error"     -> {}
    [] page.kind = "public"    -> {"login"}
    [] page.kind = "shell"     -> {"view", "mutate", "switch", "logout"}
    [] page.kind = "authorize" -> {"callback"}

(* carried and about are the cookies and the page's subject when the       *)
(* request was sent; acted is the session that a form has acted in.  What  *)
(* an answer is about is kept for the properties alone.                    *)
Tab == [page : Page, stage : {"idle", "sent", "answered"},
        request : {"none", "index", "login", "callback", "view", "mutate",
                   "switch", "logout"},
        carried : Jar, about : Sessions \cup Pendings \cup {None},
        acted : Sessions \cup {None},
        sets : UNION {[domain -> Sessions \cup Pendings \cup {None}] :
                        domain \in SUBSET Cookies},
        next : Page, redirect : BOOLEAN]

Empty == [c \in Cookies |-> None]

Quiet(page) ==
  [page |-> page, stage |-> "idle", request |-> "none", carried |-> Empty,
   about |-> None, acted |-> None, sets |-> Nothing, next |-> Error,
   redirect |-> FALSE]

(* Types, and a session is granted to an authorization that was begun and  *)
(* is no longer open (DEC-002: callback state is single-use).              *)
TypeOK ==
  /\ cookie \in Jar
  /\ tab \in [Tabs -> Tab]
  /\ status \in [Sessions -> Broker!Stages]
  /\ begun \subseteq Pendings
  /\ open \subseteq begun
  /\ origin \in [Sessions -> begun \cup {None}]
  /\ \A s \in Sessions : Live(s) => origin[s] \in begun \ open

Init ==
  /\ cookie = Empty
  /\ tab = [t \in Tabs |-> Quiet(Error)]
  /\ Broker!Init
  /\ begun = {}
  /\ open = {}
  /\ origin = [s \in Sessions |-> None]

-----------------------------------------------------------------------------
(* The browser *)

(* The cookies that the handler of a request reads.                        *)
Readable(request, jar) ==
  IF request = "callback" THEN [jar EXCEPT !.session = None]
  ELSE [jar EXCEPT !.pending = None]

Asking(page, request, jar) ==
  [Quiet(page) EXCEPT !.stage = "sent", !.request = request,
                      !.carried = Readable(request, jar), !.about = page.of]

(* The operator follows a link, opens / or submits a form of the page; the *)
(* identity provider sends the browser back with the state it was given.   *)
Send(t, request) ==
  /\ tab[t].stage = "idle"
  /\ request \in Requests(tab[t].page)
  /\ tab' = [tab EXCEPT ![t] = Asking(tab[t].page, request, cookie)]
  /\ UNCHANGED <<cookie, status, begun, open, origin>>

(* The jar after the cookies of an answer were set.                        *)
Updated(sets) ==
  [c \in Cookies |-> IF c \in DOMAIN sets THEN sets[c] ELSE cookie[c]]

(* A redirect asks for / at once.  The session cookie is SameSite=Strict:  *)
(* on the way from another site's identity provider it is not sent.        *)
Deliver(t) ==
  LET jar == Updated(tab[t].sets) IN
  /\ tab[t].stage = "answered"
  /\ cookie' = jar
  /\ \E sent \in {jar} \cup {j \in {[jar EXCEPT !.session = None]} :
                              tab[t].request = "callback"} :
       tab' = [tab EXCEPT ![t] =
                 IF tab[t].redirect
                 THEN [Asking(tab[t].next, "index", sent) EXCEPT !.about = None]
                 ELSE Quiet(tab[t].next)]
  /\ UNCHANGED <<status, begun, open, origin>>

(* The answer does not arrive, or the operator does not wait for it.       *)
Drop(t) ==
  /\ tab[t].stage \in {"sent", "answered"}
  /\ tab' = [tab EXCEPT ![t] = Quiet(tab[t].page)]
  /\ UNCHANGED <<cookie, status, begun, open, origin>>

-----------------------------------------------------------------------------
(* The handlers *)

Asked(t, request) == tab[t].stage = "sent" /\ tab[t].request = request

Carried(t, c) == tab[t].carried[c]

Respond(t, sets, next, redirect, about, acted) ==
  tab' = [tab EXCEPT ![t] =
            [Quiet(@.page) EXCEPT
               !.stage = "answered", !.request = tab[t].request,
               !.about = about, !.acted = acted,
               !.sets = sets, !.next = next, !.redirect = redirect]]

Answer(t, sets, next) == Respond(t, sets, next, FALSE, None, None)

(* The answer of a form that acted in session s.                           *)
Acted(t, s, sets, next, redirect) ==
  Respond(t, sets, next, redirect, tab[t].about, s)

(* Mutant: a cookie that names no session stays.                           *)
IndexKeepingCookie(t) ==
  LET s == Carried(t, "session") IN
  /\ Asked(t, "index")
  /\ Answer(t, Nothing, IF Live(s) THEN Shell(s) ELSE Public)
  /\ UNCHANGED <<cookie, status, begun, open, origin>>

(* The shell of a live session, or the login forms; a cookie that names no *)
(* live session is cleared.                                                *)
Index(t) ==
  LET s == Carried(t, "session") IN
  /\ Asked(t, "index")
  /\ CASE Live(s)  -> Answer(t, Nothing, Shell(s))
       [] s = None -> Answer(t, Nothing, Public)
       [] OTHER    -> Answer(t, Cleared("session"), Public)
  /\ UNCHANGED <<cookie, status, begun, open, origin>>

(* The broker begins an authorization.                                     *)
Begin(p) ==
  /\ p \notin begun
  /\ begun' = begun \cup {p}
  /\ open' = open \cup {p}

(* Begin fails: an unknown tenant, no randomness, an unsafe URL.           *)
BeginFails == UNCHANGED <<begun, open>>

Login(t) ==
  /\ Asked(t, "login")
  /\ \/ /\ Carried(t, "session") = None
        /\ \E p \in Pendings : Begin(p) /\ Answer(t, Begun(p), Authorize(p))
     \/ BeginFails /\ Answer(t, Nothing, Error)
  /\ UNCHANGED <<cookie, status, origin>>

(* Mutant: the state is not compared with the one of the authorization.    *)
AnyState(p, state) == TRUE

StateMatches(p, state) == p = state

(* Mutant: the authorization stays until it expires.                       *)
Unconsumed(p) == open

(* Complete withdraws the authorization whatever happens next.             *)
Consumed(p) == open \ {p}

(* The identity provider reports an error, and the authorization stays     *)
(* open; or Complete fails, after it withdrew the authorization.           *)
CallbackFails(t) ==
  /\ Asked(t, "callback")
  /\ open' \in {open, Consumed(Carried(t, "pending"))}
  /\ Answer(t, Cleared("pending"), Error)
  /\ UNCHANGED <<cookie, status, begun, origin>>

Callback(t) ==
  LET p == Carried(t, "pending") IN
  /\ Asked(t, "callback")
  /\ p \in open
  /\ StateMatches(p, tab[t].about)
  /\ \E s \in Sessions, out \in SUBSET Broker!Listed :
       /\ Broker!Grant(s, out)
       /\ origin' = [origin EXCEPT ![s] = p]
       /\ Respond(t, Granted(s), Error, TRUE, tab[t].about, None)
  /\ open' = Consumed(p)
  /\ UNCHANGED <<cookie, begun>>

(* Mutant: the CSRF token is not compared.                                 *)
AnyToken(s, page) == TRUE

(* The token in the page's forms is the one of the session in the cookie.  *)
TokenMatches(s, page) == s = page

(* ValidateCSRF, Switch and Logout accept the form of a live session.      *)
Accepted(t) ==
  LET s == Carried(t, "session") IN
  Live(s) /\ TokenMatches(s, tab[t].about)

(* The old session is withdrawn before the new authorization is begun.     *)
SwitchTenant(t) ==
  LET s == Carried(t, "session") IN
  /\ Asked(t, "switch")
  /\ IF Accepted(t)
     THEN /\ Broker!Condemn(s)
          /\ \/ \E p \in Pendings :
                  Begin(p) /\ Acted(t, s, Switched(p), Authorize(p), FALSE)
             \/ BeginFails /\ Acted(t, s, Nothing, Error, FALSE)
     ELSE Answer(t, Nothing, Error) /\ UNCHANGED <<status, begun, open>>
  /\ UNCHANGED <<cookie, origin>>

Logout(t) ==
  LET s == Carried(t, "session") IN
  /\ Asked(t, "logout")
  /\ IF Accepted(t)
     THEN Broker!Condemn(s) /\ Acted(t, s, Cleared("session"), Error, TRUE)
     ELSE Answer(t, Nothing, Error) /\ UNCHANGED status
  /\ UNCHANGED <<cookie, begun, open, origin>>

(* authenticatedSession turns away a request without a live session.       *)
TurnAway(t) ==
  LET s == Carried(t, "session") IN
  /\ tab[t].stage = "sent"
  /\ tab[t].request \in {"view", "mutate"}
  /\ ~Live(s)
  /\ Answer(t, IF s = None THEN Nothing ELSE Cleared("session"), Error)
  /\ UNCHANGED <<cookie, status, begun, open, origin>>

(* A page of a workspace, or an error: the session lacks the role, the     *)
(* query is out of bounds, or the provider does not answer.                *)
View(t) ==
  LET s == Carried(t, "session") IN
  /\ Asked(t, "view")
  /\ Live(s)
  /\ \E next \in {Shell(s), Error} : Answer(t, Nothing, next)
  /\ UNCHANGED <<cookie, status, begun, open, origin>>

(* A form of a workspace is refused before it acts, for a missing role,    *)
(* its token or its fields, or it acts and the answer is a page of the     *)
(* session or an error.                                                    *)
Mutate(t) ==
  LET s == Carried(t, "session") IN
  /\ Asked(t, "mutate")
  /\ Live(s)
  /\ \/ Answer(t, Nothing, Error)
     \/ /\ Accepted(t)
        /\ \E next \in {Shell(s), Error} : Acted(t, s, Nothing, next, FALSE)
  /\ UNCHANGED <<cookie, status, begun, open, origin>>

-----------------------------------------------------------------------------
(* The broker on its own *)

(* Expiry, a failed refresh, or an eviction by another browser's login.    *)
Expire(s) ==
  /\ Broker!Condemn(s)
  /\ UNCHANGED <<cookie, tab, begun, open, origin>>

Destroy(s) ==
  /\ Broker!Destroy(s)
  /\ UNCHANGED <<cookie, tab, begun, open, origin>>

(* An authorization expires or is evicted.                                 *)
Forget(p) ==
  /\ p \in open
  /\ open' = open \ {p}
  /\ UNCHANGED <<cookie, tab, status, begun, origin>>

(* Studio keeps everything in memory.                                      *)
Restart ==
  /\ status' = [s \in Sessions |-> IF status[s] = "unborn" THEN "unborn" ELSE "dead"]
  /\ open' = {}
  /\ UNCHANGED <<cookie, tab, begun, origin>>

-----------------------------------------------------------------------------

Serve(t) ==
  \/ Index(t)
  \/ Login(t)
  \/ Callback(t)
  \/ CallbackFails(t)
  \/ SwitchTenant(t)
  \/ Logout(t)
  \/ TurnAway(t)
  \/ View(t)
  \/ Mutate(t)

Next ==
  \/ \E t \in Tabs :
       \/ \E request \in Requests(tab[t].page) : Send(t, request)
       \/ Serve(t)
       \/ Deliver(t)
       \/ Drop(t)
  \/ \E s \in Sessions : Expire(s) \/ Destroy(s)
  \/ \E p \in Pendings : Forget(p)
  \/ Restart

(* Some request ends, with an answer or without one, as long as there is   *)
(* any.  The operator opens / again and again in one tab or another, and   *)
(* not all of these requests and of their answers are lost.                *)
Fairness ==
  /\ WF_vars(\E t \in Tabs : Serve(t) \/ Deliver(t) \/ Drop(t))
  /\ SF_vars(\E t \in Tabs : Send(t, "index"))
  /\ SF_vars(\E t \in Tabs : Index(t))
  /\ SF_vars(\E t \in Tabs : tab[t].request = "index" /\ Deliver(t))

Spec == Init /\ [][Next]_vars /\ Fairness

-----------------------------------------------------------------------------
(* Properties *)

(* A form acts only in the session of the page it was submitted from.  A   *)
(* page that one tab still shows after another tab switched the tenant, or *)
(* signed in anew, acts nowhere, although its request carries the cookie   *)
(* of the new session.                                                     *)
FormsActWhereShown ==
  \A t \in Tabs : tab[t].acted # None => tab[t].acted = tab[t].about

(* A sign-in that a tab completes is the one this tab began: when two tabs *)
(* begin one each, the cookie of the later never turns the answer for the  *)
(* earlier into a session of a tenant that was not chosen there.           *)
SessionFromOwnChoice ==
  \A t \in Tabs :
    tab[t].request = "callback" /\ tab[t].redirect =>
      origin[tab[t].sets["session"]] = tab[t].about

(* A cookie whose session has ended does not lock the operator out: login  *)
(* refuses as long as there is a cookie, but / clears it.                  *)
DeadCookiesHeal ==
  \A s \in Sessions :
    cookie.session = s /\ ~Live(s) ~> cookie.session # s
=============================================================================
