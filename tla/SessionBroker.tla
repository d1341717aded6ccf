--------------------------- MODULE SessionBroker ---------------------------
(***************************************************************************)
(* The volatile authentication broker of the Studio BFF (internal/auth):   *)
(* pending OIDC authorizations, sessions, their token-bound provider       *)
(* clients, token refresh, and the teardown of a tenant session.           *)
(*                                                                         *)
(* Each HTTP request runs on a goroutine, a thread here.  A step of a      *)
(* thread is what it does between two points at which another goroutine    *)
(* can intervene: one critical section of broker.mu or of one session's    *)
(* mu, or the return of a network call.  No critical section of broker.mu  *)
(* makes a call, so broker.mu needs no variable; a session's mu is held    *)
(* across the network call of a token refresh, so it has one (holder).     *)
(***************************************************************************)
EXTENDS Naturals, FiniteSets

CONSTANTS
  Threads,        \* goroutines that serve browser requests
  Pendings,       \* pending-authorization identifiers the generator returns
  Sessions,       \* sessionState objects that can be allocated
  Clients,        \* provider clients the factory can open
  Slots,          \* keys of a session's optimistic map: scopes and references
  None,           \* the nil pointer
  MaxPending,     \* Config.MaxPending
  MaxSessions,    \* Config.MaxSessions
  MaxDrafts,      \* maxSessionDrafts
  PendingTTL,     \* Config.PendingTTL
  SessionTTL,     \* Config.SessionTTL
  RefreshSkew,    \* Config.RefreshSkew
  TokenExpiries,  \* expiry times an identity provider puts in a token, 0 for none
  Requests,       \* the kinds of request the browsers send
  MaxClock        \* bound: the last tick of the clock

NoTime == 0       \* time.Time{}: the token does not expire

RequestKinds ==
  {"login", "callback", "view", "work", "switch", "logout", "draft"}

ASSUME CapacityAssumption ==
  /\ MaxPending \in Nat \ {0}
  /\ MaxSessions \in Nat \ {0}
  /\ MaxDrafts \in Nat

ASSUME TimeAssumption ==
  /\ PendingTTL \in Nat \ {0}
  /\ SessionTTL \in Nat \ {0}
  /\ RefreshSkew \in Nat
  /\ TokenExpiries \subseteq Nat
  /\ MaxClock \in Nat

ASSUME NameAssumption ==
  /\ None \notin Threads \cup Pendings \cup Sessions \cup Clients
  /\ Requests \subseteq RequestKinds

VARIABLES
  clock,       \* broker.now()
  pending,     \* identifiers in broker.pending
  created,     \* pendingState.created of every identifier
  issued,      \* identifiers handed out so far (they are never drawn again)
  registered,  \* sessions in broker.sessions
  session,     \* the sessionState objects on the heap
  open,        \* clients that are open
  opened,      \* clients opened so far
  thread       \* the program counter and the locals of every goroutine

vars == <<clock, pending, created, issued, registered, session, open, opened,
          thread>>

pendingVars == <<pending, created, issued>>
clientVars  == <<open, opened>>

-----------------------------------------------------------------------------
(* Records *)

Labels ==
  {"idle", "begin", "consume", "exchange", "session", "refresh", "invalidate",
   "teardown", "relookup", "capture", "operate", "leave", "draft"}

(* sessionState: origin is the authorization that created the session and  *)
(* so stands for its tenant, subject and roles; refreshable says that it   *)
(* has a refresh token; expires is created + SessionTTL.                   *)
SessionState ==
  [active : BOOLEAN, client : Clients \cup {None}, created : Nat,
   origin : Pendings \cup {None}, tokenExpiry : Nat, refreshable : BOOLEAN,
   optimistic : SUBSET Slots, holder : Threads \cup {None}]

Unallocated ==
  [active |-> FALSE, client |-> None, created |-> 0, origin |-> None,
   tokenExpiry |-> NoTime, refreshable |-> FALSE, optimistic |-> {},
   holder |-> None]

(* The locals of a request: the request itself, the time it read, the      *)
(* authorization and the session it works on, the sessions it still has to *)
(* deactivate (expired first, then evicted), and the client it captured.   *)
ThreadState ==
  [pc : Labels, request : RequestKinds \cup {None}, now : Nat,
   flow : Pendings \cup {None}, subject : Sessions \cup {None},
   expired : SUBSET Sessions, evicted : Sessions \cup {None},
   inflight : Clients \cup {None}]

Idle ==
  [pc |-> "idle", request |-> None, now |-> 0, flow |-> None,
   subject |-> None, expired |-> {}, evicted |-> None, inflight |-> None]

TypeOK ==
  /\ clock \in Nat
  /\ pending \subseteq issued
  /\ created \in [Pendings -> Nat]
  /\ issued \subseteq Pendings
  /\ registered \subseteq Sessions
  /\ session \in [Sessions -> SessionState]
  /\ open \subseteq opened
  /\ opened \subseteq Clients
  /\ thread \in [Threads -> ThreadState]

Init ==
  /\ clock = 0
  /\ pending = {}
  /\ created = [p \in Pendings |-> 0]
  /\ issued = {}
  /\ registered = {}
  /\ session = [s \in Sessions |-> Unallocated]
  /\ open = {}
  /\ opened = {}
  /\ thread = [t \in Threads |-> Idle]

-----------------------------------------------------------------------------
(* Helpers *)

At(t, label) == thread[t].pc = label

Become(t, locals) == thread' = [thread EXCEPT ![t] = locals]

Goto(t, label) == Become(t, [thread[t] EXCEPT !.pc = label])

Return(t) == Become(t, Idle)

(* Nobody holds the mutex of s.                                            *)
Free(s) == session[s].holder = None

(* Mutant: the mutex is released before the call to the identity provider. *)
LockBriefly(s, t) == session[s]

Lock(s, t) == [session[s] EXCEPT !.holder = t]

(* Mutant: a return path forgets to release the mutex.                     *)
UnlockForgotten(s) == session[s]

Unlock(s) == [session[s] EXCEPT !.holder = None]

(* Mutant: the client is replaced or dropped, but not closed.              *)
WithoutClosing(s) == open

(* The open clients once the client of s is closed.                        *)
WithoutClient(s) == open \ {session[s].client}

(* Mutant: the drafts stay in the session's memory.                        *)
TornDownWithDrafts(s) ==
  [session[s] EXCEPT !.active = FALSE, !.refreshable = FALSE]

(* Mutant: the session stays marked active.                                *)
TornDownActive(s) ==
  [session[s] EXCEPT !.optimistic = {}, !.refreshable = FALSE]

(* What deactivate leaves of a session.                                    *)
TornDown(s) ==
  [session[s] EXCEPT !.active = FALSE, !.optimistic = {}, !.refreshable = FALSE]

Allocated(s) == session[s].client # None

PendingExpired(p, now) == created[p] + PendingTTL <= now

SessionExpired(s, now) == session[s].created + SessionTTL <= now

(* The access token is due for renewal: its expiry lies within the skew.   *)
TokenDue(s) ==
  /\ session[s].tokenExpiry # NoTime
  /\ session[s].tokenExpiry <= clock + RefreshSkew

(* Mutant: the loop stops one authorization too late.                      *)
SurvivorsOffByOne(live) ==
  {keep \in SUBSET live :
     /\ Cardinality(keep) <= MaxPending
     /\ keep = live \/ Cardinality(keep) = MaxPending
     /\ \A p \in live \ keep, q \in keep : created[p] <= created[q]}

(* What evictOldestPendingLocked may leave of the pending authorizations:  *)
(* it removes an oldest one until there is room for one more.              *)
Survivors(live) ==
  {keep \in SUBSET live :
     /\ Cardinality(keep) < MaxPending
     /\ keep = live \/ Cardinality(keep) = MaxPending - 1
     /\ \A p \in live \ keep, q \in keep : created[p] <= created[q]}

(* Mutant: the comparison is inverted and the newest session goes.         *)
VictimsNewest(kept) ==
  IF Cardinality(kept) < MaxSessions
  THEN {None}
  ELSE {s \in kept : \A x \in kept : session[s].created >= session[x].created}

(* The session evictOldestSessionLocked removes, None when there is room.  *)
Victims(kept) ==
  IF Cardinality(kept) < MaxSessions
  THEN {None}
  ELSE {s \in kept : \A x \in kept : session[s].created <= session[x].created}

-----------------------------------------------------------------------------
(* Requests arrive.  A request reads its cookie and, when it names a       *)
(* session, looks that session up; without a session nothing happens.      *)

Login(t) ==
  /\ At(t, "idle")
  /\ "login" \in Requests
  /\ Become(t, [thread[t] EXCEPT !.pc = "begin", !.request = "login",
                                 !.now = clock])
  /\ UNCHANGED <<clock, pendingVars, registered, session, clientVars>>

Callback(t, p) ==
  /\ At(t, "idle")
  /\ "callback" \in Requests
  /\ p \in issued
  /\ Become(t, [thread[t] EXCEPT !.pc = "consume", !.request = "callback",
                                 !.now = clock, !.flow = p])
  /\ UNCHANGED <<clock, pendingVars, registered, session, clientVars>>

(* The label at which a request that found its session goes on.            *)
Entry == [view |-> "session", work |-> "session", switch |-> "leave",
          logout |-> "leave", draft |-> "draft"]

Visit(t, s, kind) ==
  /\ At(t, "idle")
  /\ kind \in Requests
  /\ s \in registered
  /\ Become(t, [thread[t] EXCEPT !.pc = Entry[kind], !.request = kind,
                                 !.subject = s])
  /\ UNCHANGED <<clock, pendingVars, registered, session, clientVars>>

-----------------------------------------------------------------------------
(* Broker.Begin *)

(* Unknown tenant, no randomness, or an unsafe authorization URL.          *)
BeginFails(t) ==
  /\ At(t, "begin")
  /\ Return(t)
  /\ UNCHANGED <<clock, pendingVars, registered, session, clientVars>>

BeginInserts(t) ==
  LET live == {p \in pending : ~PendingExpired(p, thread[t].now)} IN
  /\ At(t, "begin")
  /\ \E p \in Pendings \ issued, keep \in Survivors(live) :
       /\ pending' = keep \cup {p}
       /\ created' = [created EXCEPT ![p] = thread[t].now]
       /\ issued' = issued \cup {p}
  /\ Return(t)
  /\ UNCHANGED <<clock, registered, session, clientVars>>

(* The generator returned an identifier that is in use.                    *)
BeginCollides(t) ==
  LET live == {p \in pending : ~PendingExpired(p, thread[t].now)} IN
  /\ At(t, "begin")
  /\ live # {}
  /\ pending' = live
  /\ Return(t)
  /\ UNCHANGED <<clock, created, issued, registered, session, clientVars>>

-----------------------------------------------------------------------------
(* Broker.Complete *)

(* Mutant: the state is looked up now and deleted only when it is refused. *)
ConsumeLate(t, valid) ==
  LET p == thread[t].flow IN
  /\ At(t, "consume")
  /\ pending' = IF valid THEN pending ELSE pending \ {p}
  /\ IF valid
     THEN /\ p \in pending
          /\ ~PendingExpired(p, thread[t].now)
          /\ Goto(t, "exchange")
     ELSE Return(t)
  /\ UNCHANGED <<clock, created, issued, registered, session, clientVars>>

(* The authorization is consumed whatever the outcome.                     *)
Consume(t, valid) ==
  LET p == thread[t].flow IN
  /\ At(t, "consume")
  /\ pending' = pending \ {p}
  /\ IF valid
     THEN /\ p \in pending
          /\ ~PendingExpired(p, thread[t].now)
          /\ Goto(t, "exchange")
     ELSE Return(t)
  /\ UNCHANGED <<clock, created, issued, registered, session, clientVars>>

(* The exchange fails, the identity is unusable, or no client is made.     *)
ExchangeFails(t) ==
  /\ At(t, "exchange")
  /\ Return(t)
  /\ UNCHANGED <<clock, pendingVars, registered, session, clientVars>>

(* The client exists but no identifier can be drawn: it is closed again.   *)
RegisterFails(t, c) ==
  /\ At(t, "exchange")
  /\ c \notin opened
  /\ opened' = opened \cup {c}
  /\ Return(t)
  /\ UNCHANGED <<clock, pendingVars, registered, session, open>>

(* Mutant: the evicted session, or nil, is appended to the expired ones.   *)
RetireNil(t, stale, last) ==
  IF stale = {} /\ last = None
  THEN Return(t)
  ELSE Become(t, [thread[t] EXCEPT !.pc = "teardown",
                                   !.expired = stale \cup {last}])

(* Mutant: only the expired sessions are deactivated.                      *)
RetireExpiredOnly(t, stale, last) ==
  IF stale = {}
  THEN Return(t)
  ELSE Become(t, [thread[t] EXCEPT !.pc = "teardown", !.expired = stale])

(* The thread leaves broker.mu with the sessions it has to deactivate.     *)
Retire(t, stale, last) ==
  IF stale = {} /\ last = None
  THEN Return(t)
  ELSE Become(t, [thread[t] EXCEPT !.pc = "teardown", !.expired = stale,
                                   !.evicted = last])

Register(t, s, c, expiry, refreshable) ==
  LET now   == thread[t].now
      stale == {x \in registered : SessionExpired(x, now)}
      kept  == registered \ stale
  IN
  /\ At(t, "exchange")
  /\ ~Allocated(s)
  /\ c \notin opened
  /\ session' = [session EXCEPT ![s] =
                   [Unallocated EXCEPT !.active = TRUE, !.client = c,
                                       !.created = now,
                                       !.origin = thread[t].flow,
                                       !.tokenExpiry = expiry,
                                       !.refreshable = refreshable]]
  /\ open' = open \cup {c}
  /\ opened' = opened \cup {c}
  /\ \/ \E victim \in Victims(kept) :
          /\ registered' = (kept \ {victim}) \cup {s}
          /\ Retire(t, stale, victim)
     \/ \* the generator returned the identifier of a registered session
        /\ kept # {}
        /\ registered' = kept
        /\ Retire(t, stale, s)
  /\ UNCHANGED <<clock, pendingVars>>

-----------------------------------------------------------------------------
(* Broker.Session, and Broker.WithClient for a request of kind work *)

(* The session is dead, or its token is due and cannot be renewed.         *)
RejectSession(t) ==
  LET s == thread[t].subject IN
  /\ At(t, "session")
  /\ Free(s)
  /\ \/ ~session[s].active
     \/ SessionExpired(s, clock)
     \/ TokenDue(s) /\ ~session[s].refreshable
  /\ Goto(t, "invalidate")
  /\ UNCHANGED <<clock, pendingVars, registered, session, clientVars>>

Usable(s) == session[s].active /\ ~SessionExpired(s, clock)

(* The view is built; a request that only shows it is done.                *)
Served(t) == IF thread[t].request = "work" THEN Goto(t, "relookup") ELSE Return(t)

ServeSession(t) ==
  LET s == thread[t].subject IN
  /\ At(t, "session")
  /\ Free(s)
  /\ Usable(s)
  /\ ~TokenDue(s)
  /\ Served(t)
  /\ UNCHANGED <<clock, pendingVars, registered, session, clientVars>>

(* The thread calls the identity provider and keeps the session's mutex.   *)
StartRefresh(t) ==
  LET s == thread[t].subject IN
  /\ At(t, "session")
  /\ Free(s)
  /\ Usable(s)
  /\ TokenDue(s)
  /\ session[s].refreshable
  /\ session' = [session EXCEPT ![s] = Lock(s, t)]
  /\ Goto(t, "refresh")
  /\ UNCHANGED <<clock, pendingVars, registered, clientVars>>

(* The call fails or times out, the browser goes away, the token is empty, *)
(* or no client can be made for it.                                        *)
RefreshFails(t) ==
  LET s == thread[t].subject IN
  /\ At(t, "refresh")
  /\ session' = [session EXCEPT ![s] = Unlock(s)]
  /\ Goto(t, "invalidate")
  /\ UNCHANGED <<clock, pendingVars, registered, clientVars>>

RefreshSucceeds(t, c, expiry) ==
  LET s == thread[t].subject IN
  /\ At(t, "refresh")
  /\ c \notin opened
  /\ session' = [session EXCEPT ![s] =
                   [Unlock(s) EXCEPT !.client = c, !.tokenExpiry = expiry]]
  /\ open' = WithoutClient(s) \cup {c}
  /\ opened' = opened \cup {c}
  /\ Served(t)
  /\ UNCHANGED <<clock, pendingVars, registered>>

(* WithClient looks the session up again, then takes its current client.   *)
Relookup(t) ==
  /\ At(t, "relookup")
  /\ IF thread[t].subject \in registered THEN Goto(t, "capture") ELSE Return(t)
  /\ UNCHANGED <<clock, pendingVars, registered, session, clientVars>>

Capture(t) ==
  LET s == thread[t].subject IN
  /\ At(t, "capture")
  /\ Free(s)
  /\ IF session[s].active
     THEN Become(t, [thread[t] EXCEPT !.pc = "operate",
                                      !.inflight = session[s].client])
     ELSE Return(t)
  /\ UNCHANGED <<clock, pendingVars, registered, session, clientVars>>

(* The provider answers, the deadline passes, or the client was closed.    *)
OperationReturns(t) ==
  /\ At(t, "operate")
  /\ Return(t)
  /\ UNCHANGED <<clock, pendingVars, registered, session, clientVars>>

-----------------------------------------------------------------------------
(* Broker.Switch, Broker.Logout and the teardown they share *)

CheckLeave(t, validCSRF) ==
  LET s == thread[t].subject IN
  /\ At(t, "leave")
  /\ Free(s)
  /\ IF session[s].active /\ validCSRF THEN Goto(t, "invalidate") ELSE Return(t)
  /\ UNCHANGED <<clock, pendingVars, registered, session, clientVars>>

(* Mutant: the session is unlisted but not deactivated.                    *)
InvalidateOnly(t) ==
  /\ At(t, "invalidate")
  /\ registered' = registered \ {thread[t].subject}
  /\ Return(t)
  /\ UNCHANGED <<clock, pendingVars, session, clientVars>>

Invalidate(t) ==
  LET s == thread[t].subject IN
  /\ At(t, "invalidate")
  /\ registered' = registered \ {s}
  /\ Become(t, [thread[t] EXCEPT !.pc = "teardown", !.evicted = s])
  /\ UNCHANGED <<clock, pendingVars, session, clientVars>>

(* Where a thread goes when it has deactivated its last session.           *)
AfterTeardown(t) ==
  IF thread[t].request = "switch"
  THEN Become(t, [thread[t] EXCEPT !.pc = "begin", !.now = clock,
                                   !.expired = {}, !.evicted = None])
  ELSE Return(t)

Deactivate(t, s) ==
  LET stale == thread[t].expired
      last  == stale = {} \/ (stale = {s} /\ thread[t].evicted = None)
  IN
  /\ At(t, "teardown")
  /\ IF stale = {} THEN s = thread[t].evicted ELSE s \in stale
  /\ Free(s)
  /\ IF session[s].active
     THEN /\ session' = [session EXCEPT ![s] = TornDown(s)]
          /\ open' = WithoutClient(s)
     ELSE UNCHANGED <<session, open>>
  /\ IF last
     THEN AfterTeardown(t)
     ELSE Become(t, [thread[t] EXCEPT !.expired = stale \ {s}])
  /\ UNCHANGED <<clock, pendingVars, registered, opened>>

-----------------------------------------------------------------------------
(* DraftKey, StoreDraft, LoadDraft, ClearDraft and DeleteDraft *)

(* DraftKey of a new scope, or StoreDraft under a new reference.           *)
AddDraft(t, slot) ==
  LET s == thread[t].subject IN
  /\ At(t, "draft")
  /\ Free(s)
  /\ session[s].active
  /\ slot \notin session[s].optimistic
  /\ Cardinality(session[s].optimistic) < MaxDrafts
  /\ session' = [session EXCEPT ![s].optimistic = @ \cup {slot}]
  /\ Return(t)
  /\ UNCHANGED <<clock, pendingVars, registered, clientVars>>

DropDraft(t, slot) ==
  LET s == thread[t].subject IN
  /\ At(t, "draft")
  /\ Free(s)
  /\ session[s].active
  /\ session' = [session EXCEPT ![s].optimistic = @ \ {slot}]
  /\ Return(t)
  /\ UNCHANGED <<clock, pendingVars, registered, clientVars>>

(* A read, a key that exists already, a full map, or a dead session.       *)
KeepDrafts(t) ==
  /\ At(t, "draft")
  /\ Free(thread[t].subject)
  /\ Return(t)
  /\ UNCHANGED <<clock, pendingVars, registered, session, clientVars>>

-----------------------------------------------------------------------------

Tick ==
  /\ clock < MaxClock
  /\ clock' = clock + 1
  /\ UNCHANGED <<pendingVars, registered, session, clientVars, thread>>

Arrive(t) ==
  \/ Login(t)
  \/ \E p \in Pendings : Callback(t, p)
  \/ \E s \in Sessions, kind \in DOMAIN Entry : Visit(t, s, kind)

Step(t) ==
  \/ BeginFails(t)
  \/ BeginInserts(t)
  \/ BeginCollides(t)
  \/ \E valid \in BOOLEAN : Consume(t, valid)
  \/ ExchangeFails(t)
  \/ \E c \in Clients : RegisterFails(t, c)
  \/ \E s \in Sessions, c \in Clients, e \in TokenExpiries, r \in BOOLEAN :
       Register(t, s, c, e, r)
  \/ RejectSession(t)
  \/ ServeSession(t)
  \/ StartRefresh(t)
  \/ RefreshFails(t)
  \/ \E c \in Clients, e \in TokenExpiries : RefreshSucceeds(t, c, e)
  \/ Relookup(t)
  \/ Capture(t)
  \/ OperationReturns(t)
  \/ \E valid \in BOOLEAN : CheckLeave(t, valid)
  \/ Invalidate(t)
  \/ \E s \in Sessions : Deactivate(t, s)
  \/ \E slot \in Slots : AddDraft(t, slot) \/ DropDraft(t, slot)
  \/ KeepDrafts(t)

(* Every request has been answered: the server may stay as it is.          *)
Quiet ==
  /\ \A t \in Threads : At(t, "idle")
  /\ UNCHANGED vars

Next ==
  \/ Tick
  \/ \E t \in Threads : Arrive(t) \/ Step(t)
  \/ Quiet

(* A goroutine that can go on eventually does: the handlers put a deadline *)
(* of 15 or 30 seconds on every network call, and Go's mutexes hand over   *)
(* to a waiter.  No request ever has to arrive.                            *)
Fairness == \A t \in Threads : WF_vars(Step(t))

Spec == Init /\ [][Next]_vars /\ Fairness
-----------------------------------------------------------------------------
(* Properties *)

Live == {s \in Sessions : session[s].active}

(* The sessions a thread has taken out of the registry and must deactivate.*)
Doomed(t) ==
  IF At(t, "teardown")
  THEN thread[t].expired \cup ({thread[t].evicted} \ {None})
  ELSE {}

(* Whatever order logins, refreshes, expiry, eviction and logouts take,    *)
(* the open provider clients are exactly the clients of the live sessions, *)
(* one each: none leaks when a session is replaced, refreshed or dropped,  *)
(* and no live session is left with a closed one (broker.go Complete,      *)
(* session.go Session, invalidate and deactivate).                         *)
ClientOwnership ==
  /\ open = {session[s].client : s \in Live}
  /\ \A s1, s2 \in Live : session[s1].client = session[s2].client => s1 = s2

(* A lookup never finds a session that is torn down, and a live session    *)
(* that cannot be looked up any more is on the list of a thread that is    *)
(* about to deactivate it: nobody forgets one between broker.mu and the    *)
(* session's mu.                                                           *)
NobodyForgotten ==
  /\ registered \subseteq Live
  /\ \A s \in Live \ registered : \E t \in Threads : s \in Doomed(t)

(* Concurrent or repeated callbacks turn one authorization into at most    *)
(* one session, and an authorization that became a session is not pending  *)
(* any more (Complete deletes it before it looks at it).                   *)
SingleUseState ==
  \A s1, s2 \in Sessions :
    /\ Allocated(s1) => session[s1].origin \notin pending
    /\ Allocated(s1) /\ Allocated(s2) /\ session[s1].origin = session[s2].origin
         => s1 = s2

(* The maps stay within the configured bounds whichever logins, callbacks  *)
(* and draft operations overlap.                                           *)
WithinBounds ==
  /\ Cardinality(pending) <= MaxPending
  /\ Cardinality(registered) <= MaxSessions
  /\ \A s \in Sessions : Cardinality(session[s].optimistic) <= MaxDrafts

(* One session is never refreshed by two requests at once (its refresh     *)
(* token is used once), and it cannot be torn down under a refresh.        *)
SingleFlightRefresh ==
  \A t \in Threads :
    At(t, "refresh") =>
      /\ session[thread[t].subject].active
      /\ \A u \in Threads \ {t} :
           At(u, "refresh") => thread[u].subject # thread[t].subject

(* A provider operation in flight runs on an open client only while the    *)
(* session it was started for is live and still owns that client: after a  *)
(* teardown or a refresh the operation finds its client closed             *)
(* (operations.go WithClient).                                             *)
WorkOnOwnClient ==
  \A t \in Threads :
    At(t, "operate") /\ thread[t].inflight \in open =>
      /\ session[thread[t].subject].active
      /\ session[thread[t].subject].client = thread[t].inflight

(* A tenant switch starts the new authorization only when the old session  *)
(* is out of the registry, inactive and without drafts (session.go Switch).*)
SwitchLeavesFirst ==
  \A t \in Threads :
    At(t, "begin") /\ thread[t].request = "switch" =>
      LET s == thread[t].subject IN
      /\ s \notin registered
      /\ ~session[s].active
      /\ session[s].optimistic = {}

(* When the request that withdrew a session is over, the session is        *)
(* inactive for good, its drafts are gone, and the operations that other   *)
(* requests still run for it hold closed clients: logging out cancels the  *)
(* work of every tab, and nothing brings the session back.                 *)
TeardownIsFinal ==
  [][\A t \in Threads :
       LET s == thread[t].subject IN
       /\ At(t, "teardown") /\ s # None /\ ~At(t, "teardown")' =>
            /\ s \notin registered'
            /\ ~session'[s].active
            /\ session'[s].optimistic = {}
            /\ \A u \in Threads :
                 thread'[u].subject = s => thread'[u].inflight \notin open'
       /\ s # None /\ Allocated(s) /\ ~session[s].active =>
            ~session'[s].active]_vars

(* A login that finds the registry full never drops a session that is      *)
(* still good while it keeps one that has expired, although it compares    *)
(* with a time it read before its call to the identity provider            *)
(* (broker.go Complete, evictOldestSessionLocked).                         *)
EvictionSparesLive ==
  [][\A t \in Threads : At(t, "exchange") /\ ~At(t, "exchange")' =>
       \A s \in registered \ registered' :
         \/ SessionExpired(s, clock)
         \/ \A x \in registered \cap registered' : ~SessionExpired(x, clock)]_vars

(* Every request is answered: no request waits for ever for a mutex that   *)
(* another one holds across its refresh.                                   *)
RequestsFinish == \A t \in Threads : ~At(t, "idle") ~> At(t, "idle")

(* DEC-004 says that expiry destroys a session's state.                    *)
ExpiryDestroysState ==
  \A s \in Sessions :
    s \in registered /\ SessionExpired(s, clock) ~> ~session[s].active

(* The stage of a session in the lifecycle the broker promises.            *)
Stage(s) ==
  CASE ~Allocated(s)                                  -> "unborn"
    [] Allocated(s) /\ s \in registered               -> "listed"
    [] session[s].active /\ s \notin registered       -> "condemned"
    [] OTHER                                          -> "dead"

Lifecycle == INSTANCE SessionLifecycle WITH status <- [s \in Sessions |-> Stage(s)]

(* The broker implements SessionLifecycle: every grant, withdrawal and     *)
(* teardown is one of its steps, and every withdrawn session is torn down. *)
ImplementsLifecycle == Lifecycle!Spec
=============================================================================
