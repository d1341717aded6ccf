------------------------ MODULE SessionBrokerProofs ------------------------
(* Theorems about SessionBroker for every value of its constants. *)
EXTENDS SessionBroker, FiniteSetTheorems, TLAPS

-----------------------------------------------------------------------------
(* Type correctness *)

(* The labels at which a thread works on the session it looked up.         *)
SessionLabels ==
  {"session", "refresh", "invalidate", "relookup", "capture", "operate",
   "leave", "draft"}

HasSubject ==
  \A t \in Threads : thread[t].pc \in SessionLabels => thread[t].subject \in Sessions

Typed == TypeOK /\ HasSubject

LEMMA RecordTypes ==
  /\ Idle \in ThreadState
  /\ Unallocated \in SessionState
BY DEF Idle, ThreadState, Labels, Unallocated, SessionState, NoTime

LEMMA TypedInit == Init => Typed
BY RecordTypes DEF Init, Typed, TypeOK, HasSubject, Idle, SessionLabels

(* A thread that gives itself well-typed locals, and a session if its new  *)
(* label needs one, leaves all threads well typed.                         *)
LEMMA BecomeTyped ==
  ASSUME Typed, NEW t \in Threads, NEW locals \in ThreadState,
         locals.pc \in SessionLabels => locals.subject \in Sessions,
         Become(t, locals)
  PROVE  /\ thread' \in [Threads -> ThreadState]
         /\ HasSubject'
BY DEF Typed, TypeOK, HasSubject, Become

LEMMA ReturnTyped ==
  ASSUME Typed, NEW t \in Threads, Return(t)
  PROVE  /\ thread' \in [Threads -> ThreadState]
         /\ HasSubject'
BY BecomeTyped, RecordTypes DEF Return, Idle, SessionLabels

LEMMA GotoTyped ==
  ASSUME Typed, NEW t \in Threads, NEW label \in Labels, Goto(t, label),
         label \in SessionLabels => thread[t].subject \in Sessions
  PROVE  /\ thread' \in [Threads -> ThreadState]
         /\ HasSubject'
<1>1. [thread[t] EXCEPT !.pc = label] \in ThreadState
  BY DEF Typed, TypeOK, ThreadState
<1>. QED  BY <1>1, BecomeTyped DEF Goto, Typed, TypeOK, ThreadState

LEMMA TypedArrive ==
  ASSUME Typed, NEW t \in Threads, Arrive(t)
  PROVE  Typed'
<1>1. UNCHANGED <<clock, pending, created, issued, registered, session, open,
                  opened>>
  BY DEF Arrive, Login, Callback, Visit, pendingVars, clientVars
<1>2. thread[t] \in ThreadState /\ clock \in Nat /\ issued \subseteq Pendings
  BY DEF Typed, TypeOK
<1>3. CASE Login(t)
  <2>1. [thread[t] EXCEPT !.pc = "begin", !.request = "login", !.now = clock]
           \in ThreadState
    BY <1>2 DEF ThreadState, Labels, RequestKinds
  <2>2. thread' \in [Threads -> ThreadState] /\ HasSubject'
    BY <1>3, <2>1, <1>2, BecomeTyped DEF Login, ThreadState, SessionLabels
  <2>. QED  BY <1>1, <2>2 DEF Typed, TypeOK
<1>4. ASSUME NEW p \in Pendings, Callback(t, p) PROVE Typed'
  <2>1. [thread[t] EXCEPT !.pc = "consume", !.request = "callback",
                          !.now = clock, !.flow = p] \in ThreadState
    BY <1>2 DEF ThreadState, Labels, RequestKinds
  <2>2. thread' \in [Threads -> ThreadState] /\ HasSubject'
    BY <1>4, <2>1, <1>2, BecomeTyped DEF Callback, ThreadState, SessionLabels
  <2>. QED  BY <1>1, <2>2 DEF Typed, TypeOK
<1>5. ASSUME NEW s \in Sessions, NEW kind \in DOMAIN Entry, Visit(t, s, kind)
      PROVE  Typed'
  <2>1. kind \in RequestKinds /\ Entry[kind] \in Labels
    BY DEF Entry, RequestKinds, Labels
  <2>2. [thread[t] EXCEPT !.pc = Entry[kind], !.request = kind, !.subject = s]
           \in ThreadState
    BY <1>2, <2>1 DEF ThreadState
  <2>3. thread' \in [Threads -> ThreadState] /\ HasSubject'
    BY <1>5, <2>2, <1>2, BecomeTyped DEF Visit, ThreadState
  <2>. QED  BY <1>1, <2>3 DEF Typed, TypeOK
<1>. QED  BY <1>3, <1>4, <1>5 DEF Arrive

(* What a session becomes in one step is again a well-typed session.       *)
LEMMA SessionTyped ==
  ASSUME Typed, NEW s \in Sessions
  PROVE  /\ \A t \in Threads : Lock(s, t) \in SessionState
         /\ Unlock(s) \in SessionState
         /\ \A c \in Clients, expiry \in Nat :
              [Unlock(s) EXCEPT !.client = c, !.tokenExpiry = expiry] \in SessionState
         /\ TornDown(s) \in SessionState
BY DEF Typed, TypeOK, SessionState, Lock, Unlock, TornDown

LEMMA TypedStep ==
  ASSUME Typed, NEW t \in Threads, Step(t)
  PROVE  Typed'
<1> USE DEF pendingVars, clientVars
<1>1. /\ thread[t] \in ThreadState
      /\ session \in [Sessions -> SessionState]
      /\ clock \in Nat
      /\ opened \subseteq Clients
      /\ thread[t].pc \in SessionLabels => thread[t].subject \in Sessions
  BY DEF Typed, TypeOK, HasSubject
<1>2. CASE BeginFails(t)
  BY <1>2, ReturnTyped DEF BeginFails, Typed, TypeOK
<1>3. CASE BeginInserts(t)
  <2>1. PICK p \in Pendings \ issued,
             keep \in Survivors({q \in pending : ~PendingExpired(q, thread[t].now)}) :
               /\ pending' = keep \cup {p}
               /\ created' = [created EXCEPT ![p] = thread[t].now]
               /\ issued' = issued \cup {p}
    BY <1>3 DEF BeginInserts
  <2>2. keep \subseteq pending
    BY DEF Survivors
  <2>3. thread[t].now \in Nat
    BY <1>1 DEF ThreadState
  <2>. QED
    BY <1>3, <2>1, <2>2, <2>3, ReturnTyped DEF BeginInserts, Typed, TypeOK
<1>4. CASE BeginCollides(t)
  BY <1>4, ReturnTyped DEF BeginCollides, Typed, TypeOK
<1>5. ASSUME NEW valid \in BOOLEAN, Consume(t, valid) PROVE Typed'
  <2>1. thread' \in [Threads -> ThreadState] /\ HasSubject'
    BY <1>5, ReturnTyped, GotoTyped DEF Consume, Labels, SessionLabels
  <2>. QED  BY <1>5, <2>1 DEF Consume, Typed, TypeOK
<1>6. CASE ExchangeFails(t)
  BY <1>6, ReturnTyped DEF ExchangeFails, Typed, TypeOK
<1>7. ASSUME NEW c \in Clients, RegisterFails(t, c) PROVE Typed'
  BY <1>7, ReturnTyped DEF RegisterFails, Typed, TypeOK
<1>8. ASSUME NEW s \in Sessions, NEW c \in Clients, NEW e \in TokenExpiries,
             NEW r \in BOOLEAN, Register(t, s, c, e, r)
      PROVE  Typed'
  <2> DEFINE stale == {x \in registered : SessionExpired(x, thread[t].now)}
  <2>1. ASSUME NEW last \in Sessions \cup {None}, Retire(t, stale, last)
        PROVE  thread' \in [Threads -> ThreadState] /\ HasSubject'
    <3>1. stale \subseteq Sessions
      BY DEF Typed, TypeOK
    <3>2. [thread[t] EXCEPT !.pc = "teardown", !.expired = stale,
                            !.evicted = last] \in ThreadState
      BY <1>1, <3>1 DEF ThreadState, Labels
    <3>3. CASE stale = {} /\ last = None
      BY <2>1, <3>3, ReturnTyped DEF Retire
    <3>4. CASE ~(stale = {} /\ last = None)
      BY <2>1, <3>2, <3>4, <1>1, BecomeTyped DEF Retire, ThreadState, SessionLabels
    <3>. QED  BY <3>3, <3>4
  <2>2. /\ thread' \in [Threads -> ThreadState] /\ HasSubject'
        /\ registered' \subseteq Sessions
    <3>1. registered \subseteq Sessions
      BY DEF Typed, TypeOK
    <3>2. CASE \E victim \in Victims(registered \ stale) :
                 /\ registered' = ((registered \ stale) \ {victim}) \cup {s}
                 /\ Retire(t, stale, victim)
      <4>1. PICK victim \in Victims(registered \ stale) :
                   /\ registered' = ((registered \ stale) \ {victim}) \cup {s}
                   /\ Retire(t, stale, victim)
        BY <3>2
      <4>2. victim \in Sessions \cup {None}
        BY <3>1 DEF Victims
      <4>. QED  BY <2>1, <3>1, <4>1, <4>2
    <3>3. CASE registered' = registered \ stale /\ Retire(t, stale, s)
      BY <2>1, <3>1, <3>3
    <3>. QED  BY <1>8, <3>2, <3>3 DEF Register
  <2>3. session' \in [Sessions -> SessionState]
    <3>1. /\ thread[t].now \in Nat
          /\ thread[t].flow \in Pendings \cup {None}
          /\ e \in Nat
      BY <1>1, TimeAssumption DEF ThreadState
    <3>2. [Unallocated EXCEPT !.active = TRUE, !.client = c,
                              !.created = thread[t].now,
                              !.origin = thread[t].flow, !.tokenExpiry = e,
                              !.refreshable = r] \in SessionState
      BY <3>1 DEF Unallocated, SessionState
    <3>. QED  BY <1>1, <1>8, <3>2 DEF Register
  <2>. QED  BY <1>8, <2>2, <2>3 DEF Register, Typed, TypeOK
<1>9. CASE RejectSession(t)
  BY <1>1, <1>9, GotoTyped DEF RejectSession, At, Labels, SessionLabels, Typed, TypeOK
<1>10. ASSUME At(t, "session") \/ At(t, "refresh"), Served(t)
       PROVE  thread' \in [Threads -> ThreadState] /\ HasSubject'
  BY <1>1, <1>10, GotoTyped, ReturnTyped DEF Served, At, Labels, SessionLabels
<1>11. CASE ServeSession(t)
  BY <1>10, <1>11 DEF ServeSession, Typed, TypeOK
<1>12. CASE StartRefresh(t)
  <2>1. thread' \in [Threads -> ThreadState] /\ HasSubject'
    BY <1>1, <1>12, GotoTyped DEF StartRefresh, At, Labels, SessionLabels
  <2>2. thread[t].subject \in Sessions
    BY <1>1, <1>12 DEF StartRefresh, At, SessionLabels
  <2>3. session' \in [Sessions -> SessionState]
    BY <1>1, <1>12, <2>2, SessionTyped DEF StartRefresh, Lock, SessionState
  <2>. QED  BY <1>12, <2>1, <2>3 DEF StartRefresh, Typed, TypeOK
<1>13. CASE RefreshFails(t)
  <2>1. thread' \in [Threads -> ThreadState] /\ HasSubject'
    BY <1>1, <1>13, GotoTyped DEF RefreshFails, At, Labels, SessionLabels
  <2>2. session' \in [Sessions -> SessionState]
    BY <1>1, <1>13, SessionTyped DEF RefreshFails, At, SessionLabels
  <2>. QED  BY <1>13, <2>1, <2>2 DEF RefreshFails, Typed, TypeOK
<1>14. ASSUME NEW c \in Clients, NEW e \in TokenExpiries, RefreshSucceeds(t, c, e)
       PROVE  Typed'
  <2>1. thread' \in [Threads -> ThreadState] /\ HasSubject'
    BY <1>10, <1>14 DEF RefreshSucceeds
  <2>2. thread[t].subject \in Sessions /\ e \in Nat
    BY <1>1, <1>14, TimeAssumption DEF RefreshSucceeds, At, SessionLabels
  <2>3. session' \in [Sessions -> SessionState]
    BY <1>1, <1>14, <2>2, SessionTyped DEF RefreshSucceeds
  <2>. QED
    BY <1>14, <2>1, <2>3 DEF RefreshSucceeds, WithoutClient, Typed, TypeOK
<1>15. CASE Relookup(t)
  BY <1>1, <1>15, GotoTyped, ReturnTyped
  DEF Relookup, At, Labels, SessionLabels, Typed, TypeOK
<1>16. CASE Capture(t)
  <2> DEFINE s == thread[t].subject
  <2>1. s \in Sessions
    BY <1>1, <1>16 DEF Capture, At, SessionLabels
  <2>2. [thread[t] EXCEPT !.pc = "operate", !.inflight = session[s].client]
           \in ThreadState
    BY <1>1, <2>1 DEF ThreadState, SessionState, Labels
  <2>3. thread' \in [Threads -> ThreadState] /\ HasSubject'
    BY <1>1, <1>16, <2>1, <2>2, BecomeTyped, ReturnTyped DEF Capture, ThreadState
  <2>. QED  BY <1>16, <2>3 DEF Capture, Typed, TypeOK
<1>17. CASE OperationReturns(t)
  BY <1>17, ReturnTyped DEF OperationReturns, Typed, TypeOK
<1>18. ASSUME NEW valid \in BOOLEAN, CheckLeave(t, valid) PROVE Typed'
  BY <1>1, <1>18, GotoTyped, ReturnTyped
  DEF CheckLeave, At, Labels, SessionLabels, Typed, TypeOK
<1>19. CASE Invalidate(t)
  <2> DEFINE s == thread[t].subject
  <2>1. s \in Sessions
    BY <1>1, <1>19 DEF Invalidate, At, SessionLabels
  <2>2. [thread[t] EXCEPT !.pc = "teardown", !.evicted = s] \in ThreadState
    BY <1>1, <2>1 DEF ThreadState, Labels
  <2>3. thread' \in [Threads -> ThreadState] /\ HasSubject'
    BY <1>1, <1>19, <2>2, BecomeTyped DEF Invalidate, ThreadState, SessionLabels
  <2>. QED  BY <1>19, <2>3 DEF Invalidate, Typed, TypeOK
<1>20. ASSUME NEW s \in Sessions, Deactivate(t, s) PROVE Typed'
  <2>1. thread' \in [Threads -> ThreadState] /\ HasSubject'
    <3>1. [thread[t] EXCEPT !.pc = "begin", !.now = clock, !.expired = {},
                            !.evicted = None] \in ThreadState
      BY <1>1 DEF ThreadState, Labels
    <3>2. [thread[t] EXCEPT !.expired = thread[t].expired \ {s}] \in ThreadState
      BY <1>1 DEF ThreadState
    <3>3. CASE AfterTeardown(t)
      BY <1>1, <3>1, <3>3, BecomeTyped, ReturnTyped
      DEF AfterTeardown, ThreadState, SessionLabels
    <3>4. CASE Become(t, [thread[t] EXCEPT !.expired = thread[t].expired \ {s}])
      BY <1>1, <3>2, <3>4, BecomeTyped DEF ThreadState
    <3>. QED  BY <1>20, <3>3, <3>4 DEF Deactivate
  <2>2. session' \in [Sessions -> SessionState] /\ open' \subseteq opened
    <3>1. open \subseteq opened
      BY DEF Typed, TypeOK
    <3>. QED  BY <1>1, <1>20, <3>1, SessionTyped DEF Deactivate, WithoutClient
  <2>. QED  BY <1>20, <2>1, <2>2 DEF Deactivate, Typed, TypeOK
<1>21. ASSUME NEW slot \in Slots, AddDraft(t, slot) \/ DropDraft(t, slot)
       PROVE  Typed'
  <2>1. thread' \in [Threads -> ThreadState] /\ HasSubject'
    BY <1>21, ReturnTyped DEF AddDraft, DropDraft
  <2>2. session' \in [Sessions -> SessionState]
    BY <1>1, <1>21 DEF AddDraft, DropDraft, At, SessionLabels, SessionState
  <2>. QED  BY <1>21, <2>1, <2>2 DEF AddDraft, DropDraft, Typed, TypeOK
<1>22. CASE KeepDrafts(t)
  BY <1>22, ReturnTyped DEF KeepDrafts, Typed, TypeOK
<1>. QED
  BY <1>2, <1>3, <1>4, <1>5, <1>6, <1>7, <1>8, <1>9, <1>11, <1>12, <1>13,
     <1>14, <1>15, <1>16, <1>17, <1>18, <1>19, <1>20, <1>21, <1>22 DEF Step

(* Every state of the broker is well typed, and a thread that works on a   *)
(* session has one.                                                        *)
THEOREM AlwaysTyped == Spec => []Typed
<1>1. Typed /\ [Next]_vars => Typed'
  <2>1. ASSUME Typed, Tick PROVE Typed'
    BY <2>1 DEF Tick, pendingVars, clientVars, Typed, TypeOK, HasSubject
  <2>2. ASSUME Typed, UNCHANGED vars PROVE Typed'
    BY <2>2 DEF vars, Typed, TypeOK, HasSubject
  <2>. QED  BY <2>1, <2>2, TypedArrive, TypedStep DEF Next, Quiet
<1>. QED  BY <1>1, TypedInit, PTL DEF Spec

(* TypeOK holds for any number of threads, sessions and clients.           *)
THEOREM TypeCorrect == Spec => []TypeOK
BY AlwaysTyped, PTL DEF Typed

-----------------------------------------------------------------------------
(* Ownership of clients and sessions.  The properties ClientOwnership,     *)
(* NobodyForgotten, SingleFlightRefresh and WorkOnOwnClient are inductive  *)
(* together with four facts about the threads and the heap.                *)

(* A session is allocated before anybody works on it, so allocating a new  *)
(* one disturbs no thread.                                                 *)
SubjectsAllocated ==
  \A t \in Threads :
    thread[t].pc \in SessionLabels => Allocated(thread[t].subject)

(* A thread that refreshes a session holds its mutex, and the session was  *)
(* active when it took it.                                                 *)
RefreshLocks ==
  \A t \in Threads :
    At(t, "refresh") => /\ session[thread[t].subject].holder = t
                       /\ session[thread[t].subject].active

(* What a thread has still to deactivate is allocated and unlisted, so no  *)
(* lookup started from now on finds it; only a thread that is tearing down *)
(* has a list of expired sessions.                                         *)
DoomedUnlisted ==
  \A t \in Threads :
    /\ \A s \in Doomed(t) : Allocated(s) /\ s \notin registered
    /\ ~At(t, "teardown") => thread[t].expired = {}

(* Clients come from the factory: one that is still to be opened belongs   *)
(* to no session and no operation.                                         *)
ClientsOpened ==
  /\ \A s \in Sessions : session[s].client \in opened \cup {None}
  /\ \A s \in Sessions : session[s].active => Allocated(s)
  /\ \A t \in Threads : thread[t].inflight \in opened \cup {None}

Owned ==
  /\ Typed
  /\ SubjectsAllocated
  /\ RefreshLocks
  /\ DoomedUnlisted
  /\ ClientsOpened
  /\ ClientOwnership
  /\ NobodyForgotten
  /\ WorkOnOwnClient

LEMMA OwnedInit == Init => Owned
BY TypedInit, NameAssumption
DEF Init, Owned, SubjectsAllocated, RefreshLocks, DoomedUnlisted, ClientsOpened,
    ClientOwnership, NobodyForgotten, WorkOnOwnClient, Live, Doomed, At, Idle,
    Unallocated, SessionLabels, Allocated

LEMMA BecomeEffect ==
  ASSUME Typed, NEW t \in Threads, NEW locals, Become(t, locals)
  PROVE  /\ thread'[t] = locals
         /\ \A u \in Threads \ {t} : thread'[u] = thread[u]
BY DEF Typed, TypeOK, Become

(* A step of a thread that is not tearing down, in which no session starts *)
(* or stops being active, gets another client, or changes its listing.     *)
LEMMA QuietStep ==
  ASSUME Owned, Typed', RefreshLocks', NEW t \in Threads, ~At(t, "teardown"),
         UNCHANGED <<registered, open>>, opened \subseteq opened',
         \A s \in Sessions : /\ session'[s].active = session[s].active
                             /\ session'[s].client = session[s].client,
         NEW locals, Become(t, locals), locals.pc # "teardown",
         locals.expired = {},
         locals.pc \in SessionLabels =>
           locals.subject \in Sessions /\ Allocated(locals.subject),
         locals.inflight \in opened \cup {None},
         locals.pc = "operate" /\ locals.inflight \in open =>
           /\ session[locals.subject].active
           /\ session[locals.subject].client = locals.inflight
  PROVE  Owned'
<1>1. /\ thread'[t] = locals
      /\ \A u \in Threads \ {t} : thread'[u] = thread[u]
  BY BecomeEffect DEF Owned
<1>2. /\ \A u \in Threads : Doomed(u)' = Doomed(u)
      /\ \A u \in Threads : Doomed(u) \subseteq Sessions
  BY <1>1 DEF Doomed, At, Owned, Typed, TypeOK, ThreadState
<1>3. Live' = Live
  BY DEF Live
<1>4. SubjectsAllocated'
  BY <1>1 DEF Owned, Typed, HasSubject, SubjectsAllocated, Allocated
<1>5. DoomedUnlisted' /\ NobodyForgotten'
  BY <1>1, <1>2, <1>3 DEF Owned, DoomedUnlisted, NobodyForgotten, Allocated, At
<1>6. ClientsOpened' /\ ClientOwnership'
  BY <1>1, <1>3 DEF Owned, ClientsOpened, ClientOwnership, Allocated, Live
<1>7. WorkOnOwnClient'
  BY <1>1 DEF Owned, Typed, HasSubject, SessionLabels, WorkOnOwnClient, At
<1>. QED  BY <1>4, <1>5, <1>6, <1>7 DEF Owned

(* The same for a step that leaves the heap alone.                         *)
LEMMA LocalStep ==
  ASSUME Owned, Typed', NEW t \in Threads, ~At(t, "teardown"),
         UNCHANGED <<registered, session, open>>, opened \subseteq opened',
         NEW locals, Become(t, locals),
         locals.pc \notin {"refresh", "teardown"}, locals.expired = {},
         locals.pc \in SessionLabels =>
           locals.subject \in Sessions /\ Allocated(locals.subject),
         locals.inflight \in opened \cup {None},
         locals.pc = "operate" /\ locals.inflight \in open =>
           /\ session[locals.subject].active
           /\ session[locals.subject].client = locals.inflight
  PROVE  Owned'
<1>1. RefreshLocks'
  BY BecomeEffect DEF Owned, RefreshLocks, At
<1>. QED  BY <1>1, QuietStep

LEMMA OwnedReturn ==
  ASSUME Owned, Typed', NEW t \in Threads, ~At(t, "teardown"), Return(t),
         UNCHANGED <<registered, session, open>>, opened \subseteq opened'
  PROVE  Owned'
BY LocalStep DEF Return, Idle, SessionLabels

LEMMA OwnedGoto ==
  ASSUME Owned, Typed', NEW t \in Threads, ~At(t, "teardown"),
         NEW label \in Labels \ {"refresh", "teardown", "operate"},
         Goto(t, label),
         label \in SessionLabels => thread[t].pc \in SessionLabels,
         UNCHANGED <<registered, session, open>>, opened \subseteq opened'
  PROVE  Owned'
<1>1. /\ [thread[t] EXCEPT !.pc = label].pc = label
      /\ [thread[t] EXCEPT !.pc = label].subject = thread[t].subject
      /\ [thread[t] EXCEPT !.pc = label].inflight = thread[t].inflight
      /\ [thread[t] EXCEPT !.pc = label].expired = thread[t].expired
  BY DEF Owned, Typed, TypeOK, ThreadState
<1>. QED
  BY <1>1, LocalStep
  DEF Goto, Owned, Typed, HasSubject, SubjectsAllocated, ClientsOpened,
      DoomedUnlisted

LEMMA OwnedArrive ==
  ASSUME Owned, Typed', NEW t \in Threads, Arrive(t)
  PROVE  Owned'
<1>1. /\ UNCHANGED <<registered, session, open>>
      /\ opened' = opened
      /\ ~At(t, "teardown")
  BY DEF Arrive, Login, Callback, Visit, clientVars, At
<1>2. /\ thread[t] \in ThreadState
      /\ thread[t].inflight \in opened \cup {None}
      /\ thread[t].expired = {}
  BY <1>1 DEF Owned, Typed, TypeOK, ClientsOpened, DoomedUnlisted
<1>3. CASE Login(t)
  BY <1>1, <1>2, <1>3, LocalStep DEF Login, ThreadState, SessionLabels
<1>4. ASSUME NEW p \in Pendings, Callback(t, p) PROVE Owned'
  BY <1>1, <1>2, <1>4, LocalStep DEF Callback, ThreadState, SessionLabels
<1>5. ASSUME NEW s \in Sessions, NEW kind \in DOMAIN Entry, Visit(t, s, kind)
      PROVE  Owned'
  <2>1. Allocated(s)
    BY <1>5 DEF Visit, Owned, NobodyForgotten, ClientsOpened, Live
  <2>2. Entry[kind] \in {"session", "leave", "draft"}
    BY DEF Entry
  <2>. QED  BY <1>1, <1>2, <1>5, <2>1, <2>2, LocalStep DEF Visit, ThreadState
<1>. QED  BY <1>3, <1>4, <1>5 DEF Arrive

(* A new session takes a fresh client; the sessions it displaces leave the *)
(* registry together with the promise to deactivate them.                  *)
LEMMA OwnedRegister ==
  ASSUME Owned, Typed', NEW t \in Threads, NEW s \in Sessions, NEW c \in Clients,
         NEW e, NEW r, Register(t, s, c, e, r)
  PROVE  Owned'
<1> DEFINE stale == {x \in registered : SessionExpired(x, thread[t].now)}
           kept  == registered \ stale
<1>1. /\ session[s].client = None /\ s \notin Live /\ s \notin registered
      /\ c \notin opened /\ c # None
      /\ registered \subseteq Live
      /\ At(t, "exchange")
  BY NameAssumption DEF Register, Owned, NobodyForgotten, ClientsOpened, Allocated, Live
<1>2. /\ session'[s].client = c /\ session'[s].active
      /\ \A x \in Sessions \ {s} : session'[x] = session[x]
      /\ open' = open \cup {c} /\ opened' = opened \cup {c}
  BY DEF Register, Owned, Typed, TypeOK, Unallocated
<1>3. Live' = Live \cup {s}
  BY <1>2 DEF Live
<1>4. PICK last \in Sessions \cup {None} :
        /\ Retire(t, stale, last)
        /\ \/ registered' = (kept \ {last}) \cup {s} /\ last \in kept \cup {None}
           \/ registered' = kept /\ last = s
  <2>1. registered \subseteq Sessions
    BY DEF Owned, Typed, TypeOK
  <2>. QED  BY <2>1 DEF Register, Victims
<1>5. /\ \A u \in Threads \ {t} : thread'[u] = thread[u]
      /\ thread'[t].pc \in {"idle", "teardown"}
      /\ thread'[t].inflight \in opened \cup {None}
      /\ Doomed(t)' = stale \cup ({last} \ {None})
      /\ thread'[t].pc = "idle" => thread'[t].expired = {}
  <2>1. thread[t] \in ThreadState /\ thread[t].inflight \in opened \cup {None}
    BY DEF Owned, Typed, TypeOK, ClientsOpened
  <2>2. CASE stale = {} /\ last = None
    BY <1>4, <2>2, BecomeEffect DEF Retire, Return, Owned, Idle, Doomed, At
  <2>3. CASE ~(stale = {} /\ last = None)
    <3>1. thread'[t] = [thread[t] EXCEPT !.pc = "teardown", !.expired = stale,
                                         !.evicted = last]
      BY <1>4, <2>3, BecomeEffect DEF Retire, Owned
    <3>2. \A u \in Threads \ {t} : thread'[u] = thread[u]
      BY <1>4, <2>3, BecomeEffect DEF Retire, Owned
    <3>. QED  BY <2>1, <3>1, <3>2 DEF ThreadState, Doomed, At
  <2>. QED  BY <2>2, <2>3
<1>6. /\ \A u \in Threads \ {t} : Doomed(u)' = Doomed(u)
      /\ Doomed(t) = {}
  BY <1>1, <1>5 DEF Doomed, At
<1>7. SubjectsAllocated'
  BY <1>1, <1>2, <1>5, NameAssumption
  DEF Owned, Typed, HasSubject, SubjectsAllocated, Allocated, SessionLabels
<1>8. RefreshLocks'
  BY <1>1, <1>2, <1>5
  DEF Owned, Typed, HasSubject, SubjectsAllocated, Allocated, SessionLabels,
      RefreshLocks, At
<1>9. DoomedUnlisted'
  <2>1. \A x \in Sessions : Allocated(x) => Allocated(x)'
    BY <1>1, <1>2 DEF Allocated
  <2>2. Allocated(s)'
    BY <1>1, <1>2 DEF Allocated
  <2>3. ASSUME NEW u \in Threads \ {t}, NEW x \in Doomed(u)
        PROVE  Allocated(x)' /\ x \notin registered'
    <3>1. x \in Sessions /\ Allocated(x) /\ x \notin registered
      BY DEF Owned, Typed, TypeOK, ThreadState, DoomedUnlisted, Doomed
    <3>. QED  BY <1>1, <1>4, <2>1, <3>1 DEF Allocated
  <2>4. ASSUME NEW x \in Doomed(t)'
        PROVE  Allocated(x)' /\ x \notin registered'
    BY <1>1, <1>4, <1>5, <2>1, <2>2 DEF Owned, ClientsOpened, Live
  <2>5. ASSUME NEW u \in Threads, ~At(u, "teardown")'
        PROVE  thread'[u].expired = {}
    BY <1>5, <2>5 DEF Owned, DoomedUnlisted, At
  <2>. QED  BY <1>6, <2>3, <2>4, <2>5 DEF DoomedUnlisted
<1>10. ClientsOpened'
  BY <1>1, <1>2, <1>5 DEF Owned, ClientsOpened, Allocated
<1>11. ClientOwnership'
  <2>1. \A x \in Live : session[x].client \in opened
    BY DEF Owned, ClientsOpened, Allocated, Live
  <2>. QED
    BY <1>1, <1>2, <1>3, <2>1 DEF Owned, ClientOwnership, Live
<1>12. NobodyForgotten'
  <2>1. registered' \subseteq Live'
    BY <1>1, <1>3, <1>4
  <2>2. ASSUME NEW x \in Live' \ registered' PROVE \E u \in Threads : x \in Doomed(u)'
    <3>1. CASE x \in Live \ registered
      BY <1>1, <1>6, <3>1 DEF Owned, NobodyForgotten
    <3>2. CASE ~(x \in Live \ registered)
      <4>1. x \in Doomed(t)'
        BY <1>1, <1>3, <1>4, <1>5, <2>2, <3>2, NameAssumption DEF Live
      <4>. QED  BY <4>1
    <3>. QED  BY <3>1, <3>2
  <2>. QED  BY <2>1, <2>2 DEF NobodyForgotten
<1>13. WorkOnOwnClient'
  <2>1. ASSUME NEW u \in Threads, At(u, "operate")', thread'[u].inflight \in open'
        PROVE  /\ session'[thread'[u].subject].active
               /\ session'[thread'[u].subject].client = thread'[u].inflight
    <3>1. u # t /\ thread'[u] = thread[u] /\ At(u, "operate")
      BY <1>5, <2>1 DEF At
    <3>2. thread[u].inflight \in open
      BY <1>1, <1>2, <2>1, <3>1 DEF Owned, ClientsOpened
    <3>3. thread[u].subject \in Sessions /\ thread[u].subject # s
      BY <1>1, <3>1
      DEF Owned, Typed, HasSubject, SubjectsAllocated, Allocated, SessionLabels, At
    <3>. QED  BY <1>2, <3>1, <3>2, <3>3 DEF Owned, WorkOnOwnClient
  <2>. QED  BY <2>1 DEF WorkOnOwnClient
<1>. QED
  BY <1>7, <1>8, <1>9, <1>10, <1>11, <1>12, <1>13 DEF Owned

(* Taking a session out of the registry comes with the duty to deactivate. *)
LEMMA OwnedInvalidate ==
  ASSUME Owned, Typed', NEW t \in Threads, Invalidate(t)
  PROVE  Owned'
<1> DEFINE s == thread[t].subject
<1>1. /\ s \in Sessions /\ s # None /\ Allocated(s)
      /\ At(t, "invalidate")
      /\ registered' = registered \ {s}
      /\ UNCHANGED <<session, open, opened>>
      /\ thread[t] \in ThreadState
  BY NameAssumption
  DEF Invalidate, clientVars, Owned, Typed, HasSubject, SubjectsAllocated, TypeOK,
      At, SessionLabels
<1>2. \A u \in Threads \ {t} : thread'[u] = thread[u]
  BY BecomeEffect DEF Invalidate, Owned
<1>3. /\ thread'[t].pc = "teardown" /\ thread'[t].inflight = thread[t].inflight
      /\ thread'[t].expired = thread[t].expired /\ thread'[t].evicted = s
  <2>1. thread'[t] = [thread[t] EXCEPT !.pc = "teardown", !.evicted = s]
    BY BecomeEffect DEF Invalidate, Owned
  <2>. QED  BY <1>1, <2>1 DEF ThreadState
<1>4. /\ Doomed(t)' = {s}
      /\ Doomed(t) = {}
      /\ \A u \in Threads \ {t} : Doomed(u)' = Doomed(u)
  BY <1>1, <1>2, <1>3 DEF Doomed, At, Owned, DoomedUnlisted
<1>5. SubjectsAllocated' /\ RefreshLocks'
  BY <1>1, <1>2, <1>3
  DEF Owned, SubjectsAllocated, RefreshLocks, SessionLabels, Allocated, At
<1>6. ClientsOpened' /\ ClientOwnership'
  BY <1>1, <1>2, <1>3 DEF Owned, ClientsOpened, ClientOwnership, Allocated, Live
<1>7. DoomedUnlisted'
  <2>1. ASSUME NEW u \in Threads, NEW x \in Doomed(u)'
        PROVE  Allocated(x)' /\ x \notin registered'
    BY <1>1, <1>4, <2>1 DEF Owned, DoomedUnlisted, Allocated
  <2>2. ASSUME NEW u \in Threads, ~At(u, "teardown")'
        PROVE  thread'[u].expired = {}
    BY <1>2, <1>3, <2>2 DEF Owned, DoomedUnlisted, At
  <2>. QED  BY <2>1, <2>2 DEF DoomedUnlisted
<1>8. NobodyForgotten'
  BY <1>1, <1>4 DEF Owned, NobodyForgotten, Live
<1>9. WorkOnOwnClient'
  BY <1>1, <1>2, <1>3 DEF Owned, WorkOnOwnClient, At
<1>. QED  BY <1>5, <1>7, <1>8, <1>9, <1>6 DEF Owned

(* Lock, unlock and the draft operations leave every session's activity    *)
(* and client alone.                                                       *)
LEMMA OwnedHeapOnly ==
  ASSUME Owned, Typed', NEW t \in Threads,
         \/ StartRefresh(t)
         \/ RefreshFails(t)
         \/ \E slot \in Slots : AddDraft(t, slot) \/ DropDraft(t, slot)
  PROVE  Owned'
<1> DEFINE s == thread[t].subject
<1>1. /\ UNCHANGED <<registered, open, opened>>
      /\ thread[t].pc \in {"session", "refresh", "draft"}
  BY DEF StartRefresh, RefreshFails, AddDraft, DropDraft, clientVars, At
<1>2. s \in Sessions /\ Allocated(s) /\ thread[t] \in ThreadState
  BY <1>1
  DEF Owned, Typed, HasSubject, SubjectsAllocated, SessionLabels, TypeOK
<1>3. \A x \in Sessions : /\ session'[x].active = session[x].active
                          /\ session'[x].client = session[x].client
                          /\ x # s => session'[x] = session[x]
  <2>1. session \in [Sessions -> SessionState]
    BY DEF Owned, Typed, TypeOK
  <2>2. CASE StartRefresh(t)
    BY <1>2, <2>1, <2>2 DEF StartRefresh, Lock, SessionState
  <2>3. CASE RefreshFails(t)
    BY <1>2, <2>1, <2>3 DEF RefreshFails, Unlock, SessionState
  <2>4. CASE \E slot \in Slots : AddDraft(t, slot) \/ DropDraft(t, slot)
    BY <1>2, <2>1, <2>4 DEF AddDraft, DropDraft, SessionState
  <2>. QED  BY <2>2, <2>3, <2>4
<1>4. PICK locals :
        /\ Become(t, locals)
        /\ locals.pc \in {"refresh", "invalidate", "idle"}
        /\ locals.pc # "idle" => locals.subject = s
        /\ locals.inflight \in opened \cup {None}
        /\ locals.expired = {}
  <2>1. thread[t].expired = {} /\ thread[t].inflight \in opened \cup {None}
    BY <1>1 DEF Owned, DoomedUnlisted, ClientsOpened, At
  <2>2. CASE StartRefresh(t)
    BY <1>2, <2>1, <2>2 DEF StartRefresh, Goto, ThreadState
  <2>3. CASE RefreshFails(t)
    BY <1>2, <2>1, <2>3 DEF RefreshFails, Goto, ThreadState
  <2>4. CASE \E slot \in Slots : AddDraft(t, slot) \/ DropDraft(t, slot)
    BY <2>4 DEF AddDraft, DropDraft, Return, Idle
  <2>. QED  BY <2>2, <2>3, <2>4
<1>5. RefreshLocks'
  <2>1. ASSUME NEW u \in Threads \ {t}, At(u, "refresh")'
        PROVE  /\ session'[thread'[u].subject].holder = u
               /\ session'[thread'[u].subject].active
    <3>1. /\ thread'[u] = thread[u] /\ At(u, "refresh")
          /\ thread[u].subject \in Sessions
          /\ session[thread[u].subject].holder = u
          /\ session[thread[u].subject].active
      BY <1>4, <2>1, BecomeEffect
      DEF Owned, Typed, HasSubject, RefreshLocks, At, SessionLabels
    <3>2. thread[u].subject = s => session'[s].holder = u
      <4>1. CASE StartRefresh(t)
        BY <3>1, <4>1, NameAssumption DEF StartRefresh, Free
      <4>2. CASE RefreshFails(t)
        BY <3>1, <4>2 DEF RefreshFails, Owned, RefreshLocks
      <4>3. CASE \E slot \in Slots : AddDraft(t, slot) \/ DropDraft(t, slot)
        BY <3>1, <4>3, NameAssumption DEF AddDraft, DropDraft, Free
      <4>. QED  BY <4>1, <4>2, <4>3
    <3>. QED  BY <1>3, <3>1, <3>2
  <2>2. ASSUME At(t, "refresh")'
        PROVE  /\ session'[thread'[t].subject].holder = t
               /\ session'[thread'[t].subject].active
    <3>1. StartRefresh(t) /\ thread'[t].subject = s
      BY <1>2, <1>4, <2>2, BecomeEffect
      DEF RefreshFails, AddDraft, DropDraft, Goto, Return, Idle, At, Owned,
          Typed, ThreadState, TypeOK
    <3>. QED
      BY <1>2, <3>1
      DEF StartRefresh, Usable, Lock, Owned, Typed, TypeOK, SessionState
  <2>. QED  BY <2>1, <2>2 DEF RefreshLocks
<1>. QED
  BY <1>1, <1>2, <1>3, <1>4, <1>5, QuietStep DEF At, SessionLabels

(* The session's mutex is held since its activity was checked, so the new  *)
(* client replaces the old one of a session that is still active.          *)
LEMMA OwnedRefresh ==
  ASSUME Owned, Typed', NEW t \in Threads, NEW c \in Clients, NEW e,
         RefreshSucceeds(t, c, e)
  PROVE  Owned'
<1> DEFINE s == thread[t].subject
<1>1. /\ At(t, "refresh") /\ thread[t].pc \in SessionLabels
      /\ s \in Sessions /\ Allocated(s)
      /\ session[s].active /\ session[s].holder = t
      /\ thread[t] \in ThreadState
      /\ thread[t].inflight \in opened \cup {None}
      /\ thread[t].expired = {}
  BY DEF RefreshSucceeds, Owned, Typed, HasSubject, SubjectsAllocated, RefreshLocks,
         At, SessionLabels, TypeOK, ClientsOpened, DoomedUnlisted
<1>2. /\ c \notin opened /\ c # None
      /\ registered' = registered
      /\ open' = (open \ {session[s].client}) \cup {c}
      /\ opened' = opened \cup {c}
  BY NameAssumption DEF RefreshSucceeds, WithoutClient
<1>3. /\ session'[s].client = c /\ session'[s].active
      /\ \A x \in Sessions \ {s} : session'[x] = session[x]
  BY <1>1 DEF RefreshSucceeds, Unlock, Owned, Typed, TypeOK, SessionState
<1>4. Live' = Live
  BY <1>1, <1>3 DEF Live
<1>5. /\ \A u \in Threads \ {t} : thread'[u] = thread[u]
      /\ thread'[t].pc \in {"idle", "relookup"}
      /\ thread'[t].pc = "relookup" => thread'[t].subject = s
      /\ thread'[t].inflight \in opened \cup {None}
      /\ thread'[t].expired = {}
  <2>1. CASE Goto(t, "relookup")
    <3>1. thread'[t] = [thread[t] EXCEPT !.pc = "relookup"]
      BY <2>1, BecomeEffect DEF Goto, Owned
    <3>2. \A u \in Threads \ {t} : thread'[u] = thread[u]
      BY <2>1, BecomeEffect DEF Goto, Owned
    <3>. QED  BY <1>1, <3>1, <3>2 DEF ThreadState
  <2>2. CASE Return(t)
    BY <2>2, BecomeEffect DEF Return, Owned, Idle
  <2>. QED  BY <2>1, <2>2 DEF RefreshSucceeds, Served
<1>6. \A u \in Threads : Doomed(u)' = Doomed(u) /\ Doomed(u) \subseteq Sessions
  <2>1. ASSUME NEW u \in Threads
        PROVE  Doomed(u) \subseteq Sessions
    <3>1. thread[u] \in ThreadState
      BY DEF Owned, Typed, TypeOK
    <3>. QED  BY <3>1 DEF Doomed, ThreadState
  <2>2. ASSUME NEW u \in Threads \ {t}
        PROVE  Doomed(u)' = Doomed(u)
    BY <1>5 DEF Doomed, At
  <2>3. Doomed(t)' = Doomed(t)
    BY <1>1, <1>5 DEF Doomed, At
  <2>. QED  BY <2>1, <2>2, <2>3
<1>7. SubjectsAllocated'
  BY <1>1, <1>2, <1>3, <1>5
  DEF Owned, Typed, HasSubject, SubjectsAllocated, SessionLabels, Allocated
<1>8. RefreshLocks'
  BY <1>1, <1>3, <1>5
  DEF Owned, Typed, HasSubject, RefreshLocks, SessionLabels, At
<1>9. DoomedUnlisted'
  <2>1. \A x \in Sessions : Allocated(x) => Allocated(x)'
    BY <1>2, <1>3 DEF Allocated
  <2>2. \A u \in Threads : ~At(u, "teardown")' => thread'[u].expired = {}
    BY <1>5 DEF Owned, DoomedUnlisted, At
  <2>. QED  BY <1>2, <1>6, <2>1, <2>2 DEF Owned, DoomedUnlisted
<1>10. ClientsOpened'
  BY <1>1, <1>2, <1>3, <1>5 DEF Owned, ClientsOpened, Allocated
<1>11. ClientOwnership'
  <2>1. \A x \in Live : session[x].client \in opened
    BY DEF Owned, ClientsOpened, Allocated, Live
  <2>2. s \in Live
    BY <1>1 DEF Live
  <2>. QED
    BY <1>1, <1>2, <1>3, <1>4, <2>1, <2>2 DEF Owned, ClientOwnership, Live
<1>12. NobodyForgotten'
  BY <1>2, <1>4, <1>6 DEF Owned, NobodyForgotten
<1>13. WorkOnOwnClient'
  <2>1. ASSUME NEW u \in Threads, At(u, "operate")', thread'[u].inflight \in open'
        PROVE  /\ session'[thread'[u].subject].active
               /\ session'[thread'[u].subject].client = thread'[u].inflight
    <3>1. u # t /\ thread'[u] = thread[u] /\ At(u, "operate")
      BY <1>5, <2>1 DEF At
    <3>2. thread[u].inflight \in open /\ thread[u].inflight # session[s].client
      BY <1>2, <2>1, <3>1 DEF Owned, ClientsOpened
    <3>3. thread[u].subject \in Sessions
      BY <3>1 DEF Owned, Typed, HasSubject, SessionLabels, At
    <3>. QED  BY <1>3, <3>1, <3>2, <3>3 DEF Owned, WorkOnOwnClient
  <2>. QED  BY <2>1 DEF WorkOnOwnClient
<1>. QED
  BY <1>7, <1>8, <1>9, <1>10, <1>11, <1>12, <1>13 DEF Owned

(* A session on a thread's list is unlisted, so deactivating it takes away *)
(* no client that a lookup can still reach.                                *)
LEMMA OwnedDeactivate ==
  ASSUME Owned, Typed', NEW t \in Threads, NEW s \in Sessions, Deactivate(t, s)
  PROVE  Owned'
<1>1. /\ At(t, "teardown") /\ Free(s) /\ s \in Doomed(t)
      /\ Allocated(s) /\ s \notin registered
      /\ thread[t] \in ThreadState
      /\ thread[t].inflight \in opened \cup {None}
  BY NameAssumption
  DEF Deactivate, Doomed, Owned, DoomedUnlisted, Typed, TypeOK, ClientsOpened
<1>2. /\ registered' = registered /\ opened' = opened
      /\ ~session'[s].active /\ session'[s].client = session[s].client
      /\ session'[s].holder = session[s].holder
      /\ \A x \in Sessions \ {s} : session'[x] = session[x]
      /\ open' = IF session[s].active THEN open \ {session[s].client} ELSE open
  <2>1. session \in [Sessions -> SessionState]
    BY DEF Owned, Typed, TypeOK
  <2>2. CASE session[s].active
    <3>1. session' = [session EXCEPT ![s] = TornDown(s)]
      BY <2>2 DEF Deactivate
    <3>2. /\ ~TornDown(s).active /\ TornDown(s).client = session[s].client
          /\ TornDown(s).holder = session[s].holder
      BY <2>1 DEF TornDown, SessionState
    <3>. QED  BY <2>1, <2>2, <3>1, <3>2 DEF Deactivate, WithoutClient
  <2>3. CASE ~session[s].active
    BY <2>3 DEF Deactivate
  <2>. QED  BY <2>2, <2>3
<1>3. Live' = Live \ {s}
  BY <1>2 DEF Live
<1>4. /\ \A u \in Threads \ {t} : thread'[u] = thread[u]
      /\ thread'[t].pc \in {"idle", "begin", "teardown"}
      /\ thread'[t].inflight \in opened \cup {None}
      /\ thread'[t].pc # "teardown" => thread'[t].expired = {}
      /\ Doomed(t) \ {s} \subseteq Doomed(t)' /\ Doomed(t)' \subseteq Doomed(t)
  <2> DEFINE stale == thread[t].expired
             last  == stale = {} \/ (stale = {s} /\ thread[t].evicted = None)
  <2>1. CASE last
    <3>1. Doomed(t) = {s}
      BY <1>1, <2>1, NameAssumption DEF Deactivate, Doomed
    <3>2. CASE Return(t)
      BY <3>1, <3>2, BecomeEffect DEF Return, Owned, Idle, Doomed, At
    <3>3. CASE Become(t, [thread[t] EXCEPT !.pc = "begin", !.now = clock,
                                           !.expired = {}, !.evicted = None])
      <4>1. /\ thread'[t] = [thread[t] EXCEPT !.pc = "begin", !.now = clock,
                                              !.expired = {}, !.evicted = None]
            /\ \A u \in Threads \ {t} : thread'[u] = thread[u]
        BY <3>3, BecomeEffect DEF Owned
      <4>. QED  BY <1>1, <3>1, <4>1 DEF ThreadState, Doomed, At
    <3>. QED  BY <2>1, <3>2, <3>3 DEF Deactivate, AfterTeardown
  <2>2. CASE ~last
    <3>1. /\ thread'[t] = [thread[t] EXCEPT !.expired = stale \ {s}]
          /\ \A u \in Threads \ {t} : thread'[u] = thread[u]
      BY <2>2, BecomeEffect DEF Deactivate, Owned
    <3>. QED  BY <1>1, <2>2, <3>1 DEF ThreadState, Doomed, At
  <2>. QED  BY <2>1, <2>2
<1>5. \A u \in Threads \ {t} : Doomed(u)' = Doomed(u)
  BY <1>4 DEF Doomed, At
<1>6. SubjectsAllocated'
  BY <1>2, <1>4
  DEF Owned, Typed, HasSubject, SubjectsAllocated, SessionLabels, Allocated
<1>7. RefreshLocks'
  <2>1. ASSUME NEW u \in Threads, At(u, "refresh")'
        PROVE  /\ session'[thread'[u].subject].holder = u
               /\ session'[thread'[u].subject].active
    <3>1. u # t /\ thread'[u] = thread[u] /\ At(u, "refresh")
      BY <1>4, <2>1 DEF At
    <3>2. thread[u].subject \in Sessions /\ thread[u].subject # s
      BY <1>1, <3>1, NameAssumption
      DEF Owned, Typed, HasSubject, SessionLabels, RefreshLocks, Free, At
    <3>. QED  BY <1>2, <3>1, <3>2 DEF Owned, RefreshLocks
  <2>. QED  BY <2>1 DEF RefreshLocks
<1>8. DoomedUnlisted'
  <2>1. \A x \in Sessions : Allocated(x) => Allocated(x)'
    BY <1>2 DEF Allocated
  <2>2. \A u \in Threads : ~At(u, "teardown")' => thread'[u].expired = {}
    BY <1>4 DEF Owned, DoomedUnlisted, At
  <2>3. \A u \in Threads : Doomed(u) \subseteq Sessions /\ Doomed(u)' \subseteq Doomed(u)
    BY <1>4, <1>5 DEF Doomed, Owned, Typed, TypeOK, ThreadState
  <2>. QED  BY <1>2, <2>1, <2>2, <2>3 DEF Owned, DoomedUnlisted
<1>9. ClientsOpened'
  BY <1>2, <1>4 DEF Owned, ClientsOpened, Allocated
<1>10. ClientOwnership'
  BY <1>2, <1>3 DEF Owned, ClientOwnership, Live
<1>11. NobodyForgotten'
  <2>1. ASSUME NEW x \in Live' \ registered' PROVE \E u \in Threads : x \in Doomed(u)'
    <3>1. PICK u \in Threads : x \in Doomed(u) /\ x # s
      BY <1>2, <1>3, <2>1 DEF Owned, NobodyForgotten
    <3>2. x \in Doomed(u)'
      BY <1>4, <1>5, <3>1
    <3>. QED  BY <3>2
  <2>. QED  BY <1>1, <1>2, <1>3, <2>1 DEF Owned, NobodyForgotten
<1>12. WorkOnOwnClient'
  <2>1. ASSUME NEW u \in Threads, At(u, "operate")', thread'[u].inflight \in open'
        PROVE  /\ session'[thread'[u].subject].active
               /\ session'[thread'[u].subject].client = thread'[u].inflight
    <3>1. u # t /\ thread'[u] = thread[u] /\ At(u, "operate")
      BY <1>4, <2>1 DEF At
    <3>2. /\ thread[u].subject \in Sessions
          /\ session[thread[u].subject].active
          /\ session[thread[u].subject].client = thread[u].inflight
      BY <1>2, <2>1, <3>1
      DEF Owned, WorkOnOwnClient, Typed, HasSubject, SessionLabels, At
    <3>3. thread[u].subject # s
      BY <1>2, <2>1, <3>1, <3>2
    <3>. QED  BY <1>2, <3>1, <3>2, <3>3
  <2>. QED  BY <2>1 DEF WorkOnOwnClient
<1>. QED
  BY <1>6, <1>7, <1>8, <1>9, <1>10, <1>11, <1>12 DEF Owned

LEMMA OwnedStep ==
  ASSUME Owned, NEW t \in Threads, Step(t)
  PROVE  Owned'
<1>1. Typed'
  BY TypedStep DEF Owned
<1> USE DEF pendingVars, clientVars
<1>2. CASE BeginFails(t) \/ BeginInserts(t) \/ BeginCollides(t)
  <2>1. /\ Return(t) /\ ~At(t, "teardown")
        /\ UNCHANGED <<registered, session, open>> /\ opened' = opened
    BY <1>2 DEF BeginFails, BeginInserts, BeginCollides, At
  <2>. QED  BY <1>1, <2>1, OwnedReturn
<1>3. ASSUME NEW valid \in BOOLEAN, Consume(t, valid) PROVE Owned'
  <2>1. /\ \/ Return(t)
           \/ Goto(t, "exchange")
        /\ ~At(t, "teardown")
        /\ UNCHANGED <<registered, session, open>>
        /\ opened' = opened
    BY <1>3 DEF Consume, At
  <2>. QED  BY <1>1, <2>1, OwnedReturn, OwnedGoto DEF Labels, SessionLabels
<1>4. ASSUME ExchangeFails(t) \/ \E c \in Clients : RegisterFails(t, c) PROVE Owned'
  <2>1. /\ Return(t) /\ ~At(t, "teardown")
        /\ UNCHANGED <<registered, session, open>> /\ opened \subseteq opened'
    BY <1>4 DEF ExchangeFails, RegisterFails, At
  <2>. QED  BY <1>1, <2>1, OwnedReturn
<1>5. CASE RejectSession(t) \/ ServeSession(t) \/ Relookup(t)
  <2>1. /\ \/ Return(t)
           \/ \E label \in {"invalidate", "relookup", "capture"} : Goto(t, label)
        /\ UNCHANGED <<registered, session, open>> /\ opened' = opened
        /\ ~At(t, "teardown") /\ thread[t].pc \in SessionLabels
    BY <1>5 DEF RejectSession, ServeSession, Served, Relookup, At, SessionLabels
  <2>. QED  BY <1>1, <2>1, OwnedReturn, OwnedGoto DEF Labels
<1>6. CASE Capture(t)
  <2> DEFINE s == thread[t].subject
             taken == [thread[t] EXCEPT !.pc = "operate", !.inflight = session[s].client]
  <2>1. /\ UNCHANGED <<registered, session, open>> /\ opened' = opened
        /\ ~At(t, "teardown") /\ thread[t].pc \in SessionLabels
    BY <1>6 DEF Capture, At, SessionLabels
  <2>2. /\ s \in Sessions /\ Allocated(s) /\ session[s].client \in opened \cup {None}
        /\ thread[t] \in ThreadState /\ thread[t].expired = {}
    BY <2>1
    DEF Owned, Typed, HasSubject, SubjectsAllocated, ClientsOpened, TypeOK,
        DoomedUnlisted
  <2>3. CASE session[s].active
    <3>1. /\ taken.pc = "operate" /\ taken.subject = s /\ taken.expired = {}
          /\ taken.inflight = session[s].client
      BY <2>2 DEF ThreadState
    <3>2. Become(t, taken)
      BY <1>6, <2>3 DEF Capture
    <3>. HIDE DEF taken
    <3>. QED  BY <1>1, <2>1, <2>2, <2>3, <3>1, <3>2, LocalStep
  <2>4. CASE ~session[s].active
    BY <1>1, <1>6, <2>1, <2>4, OwnedReturn DEF Capture
  <2>. QED  BY <2>3, <2>4
<1>7. CASE OperationReturns(t) \/ KeepDrafts(t)
  <2>1. /\ Return(t) /\ ~At(t, "teardown")
        /\ UNCHANGED <<registered, session, open>> /\ opened' = opened
    BY <1>7 DEF OperationReturns, KeepDrafts, At
  <2>. QED  BY <1>1, <2>1, OwnedReturn
<1>8. ASSUME NEW valid \in BOOLEAN, CheckLeave(t, valid) PROVE Owned'
  <2>1. /\ Return(t) \/ Goto(t, "invalidate")
        /\ UNCHANGED <<registered, session, open>> /\ opened' = opened
        /\ ~At(t, "teardown") /\ thread[t].pc \in SessionLabels
    BY <1>8 DEF CheckLeave, At, SessionLabels
  <2>. QED  BY <1>1, <2>1, OwnedReturn, OwnedGoto DEF Labels
<1>. QED
  BY <1>1, <1>2, <1>3, <1>4, <1>5, <1>6, <1>7, <1>8, OwnedRegister, OwnedHeapOnly,
     OwnedRefresh, OwnedInvalidate, OwnedDeactivate DEF Step

(* The inductive invariant of the registry, the clients and the work on    *)
(* them, whatever the order of critical sections and calls (broker.go).    *)
THEOREM AlwaysOwned == Spec => []Owned
<1>1. Owned /\ [Next]_vars => Owned'
  <2>1. ASSUME Owned, Tick PROVE Owned'
    <3>1. UNCHANGED <<pending, created, issued, registered, session, open, opened,
                      thread>> /\ clock' \in Nat
      BY <2>1 DEF Tick, pendingVars, clientVars, Owned, Typed, TypeOK
    <3>. QED
      BY <2>1, <3>1
      DEF Owned, Typed, TypeOK, HasSubject, SubjectsAllocated, RefreshLocks,
          DoomedUnlisted, ClientsOpened, ClientOwnership, NobodyForgotten,
          WorkOnOwnClient, Allocated, Live, Doomed, At
  <2>2. ASSUME Owned, UNCHANGED vars PROVE Owned'
    BY <2>2
    DEF vars, Owned, Typed, TypeOK, HasSubject, SubjectsAllocated, RefreshLocks,
        DoomedUnlisted, ClientsOpened, ClientOwnership, NobodyForgotten,
        WorkOnOwnClient, Allocated, Live, Doomed, At
  <2>3. ASSUME Owned, NEW t \in Threads, Arrive(t) PROVE Owned'
    BY <2>3, TypedArrive, OwnedArrive DEF Owned
  <2>. QED  BY <2>1, <2>2, <2>3, OwnedStep DEF Next, Quiet
<1>. QED  BY <1>1, OwnedInit, PTL DEF Spec

(* No login, refresh, expiry, eviction or logout leaks a provider client,  *)
(* closes one that a live session needs, or shares one.                    *)
THEOREM ClientsOwned == Spec => []ClientOwnership
BY AlwaysOwned, PTL DEF Owned

(* A session that was taken out of the registry is torn down already or on *)
(* the list of a thread that will do it.                                   *)
THEOREM NoSessionForgotten == Spec => []NobodyForgotten
BY AlwaysOwned, PTL DEF Owned

(* Work in flight on an open client belongs to a live session.             *)
THEOREM WorkIsOwned == Spec => []WorkOnOwnClient
BY AlwaysOwned, PTL DEF Owned

(* Two requests never refresh one session at once, and nothing tears it    *)
(* down under a refresh.                                                   *)
THEOREM RefreshIsExclusive == Spec => []SingleFlightRefresh
<1>1. Owned => SingleFlightRefresh
  BY DEF Owned, RefreshLocks, SingleFlightRefresh
<1>. QED  BY <1>1, AlwaysOwned, PTL

-----------------------------------------------------------------------------
(* What one step of a thread changes: its own locals, the heap, and the    *)
(* registry.  The invariants below are about all three.                    *)

(* The thread goes on with the same errand.                                *)
Carries(t) ==
  /\ thread'[t].request = thread[t].request
  /\ thread'[t].subject = thread[t].subject

(* The ways in which a step changes the locals of its thread.              *)
Exchanges(t) ==
  /\ At(t, "consume") /\ At(t, "exchange")'
  /\ Carries(t)
  /\ thread'[t].flow = thread[t].flow
  /\ thread'[t].now = thread[t].now
  /\ thread'[t].inflight = thread[t].inflight

Proceeds(t) ==
  /\ thread[t].pc \in SessionLabels /\ thread'[t].pc \in SessionLabels
  /\ Carries(t)
  /\ thread'[t].now = thread[t].now
  /\ thread'[t].inflight = thread[t].inflight \/ At(t, "operate")'
  /\ ~At(t, "operate")

Withdraws(t) ==
  /\ At(t, "invalidate") /\ At(t, "teardown")'
  /\ Carries(t)
  /\ thread'[t].expired = thread[t].expired
  /\ thread'[t].evicted = thread[t].subject
  /\ thread'[t].now = thread[t].now
  /\ thread'[t].inflight = thread[t].inflight

Retires(t) ==
  /\ At(t, "exchange") /\ At(t, "teardown")'
  /\ Carries(t)
  /\ thread'[t].now = thread[t].now
  /\ thread'[t].inflight = thread[t].inflight

Destroys(t) ==
  /\ At(t, "teardown") /\ At(t, "teardown")'
  /\ thread[t].expired # {}
  /\ Carries(t)
  /\ thread'[t].now = thread[t].now
  /\ thread'[t].inflight = thread[t].inflight

Restarts(t) ==
  /\ At(t, "teardown") /\ At(t, "begin")'
  /\ thread[t].request = "switch"
  /\ Carries(t)
  /\ thread'[t].now = clock
  /\ thread'[t].inflight = thread[t].inflight

LEMMA GotoEffect ==
  ASSUME Typed, NEW t \in Threads, NEW label, Goto(t, label)
  PROVE  /\ thread'[t].pc = label
         /\ Carries(t)
         /\ thread'[t].flow = thread[t].flow
         /\ thread'[t].now = thread[t].now
         /\ thread'[t].inflight = thread[t].inflight
<1>1. thread'[t] = [thread[t] EXCEPT !.pc = label]
  BY BecomeEffect DEF Goto
<1>2. thread[t] \in ThreadState
  BY DEF Typed, TypeOK
<1>. QED  BY <1>1, <1>2 DEF ThreadState, Carries

LEMMA ThreadEffect ==
  ASSUME Owned, NEW t \in Threads, Step(t)
  PROVE  /\ \A u \in Threads \ {t} : thread'[u] = thread[u]
         /\ \/ thread'[t] = Idle
            \/ Exchanges(t) \/ Proceeds(t) \/ Withdraws(t) \/ Retires(t)
            \/ Destroys(t) \/ Restarts(t)
<1> DEFINE Effect == \/ thread'[t] = Idle
                     \/ Exchanges(t) \/ Proceeds(t) \/ Withdraws(t) \/ Retires(t)
                     \/ Destroys(t) \/ Restarts(t)
           Others == \A u \in Threads \ {t} : thread'[u] = thread[u]
<1>1. Typed /\ thread[t] \in ThreadState
  BY DEF Owned, Typed, TypeOK
<1>2. ASSUME Return(t) PROVE Others /\ Effect
  BY <1>1, <1>2, BecomeEffect DEF Return
<1>3. CASE \/ BeginFails(t) \/ BeginInserts(t) \/ BeginCollides(t)
           \/ ExchangeFails(t) \/ \E c \in Clients : RegisterFails(t, c)
           \/ OperationReturns(t) \/ KeepDrafts(t)
           \/ \E slot \in Slots : AddDraft(t, slot) \/ DropDraft(t, slot)
  BY <1>2, <1>3
  DEF BeginFails, BeginInserts, BeginCollides, ExchangeFails, RegisterFails,
      OperationReturns, KeepDrafts, AddDraft, DropDraft
<1>4. ASSUME NEW valid \in BOOLEAN, Consume(t, valid) PROVE Others /\ Effect
  <2>1. CASE Return(t)
    BY <1>2, <2>1
  <2>2. CASE Goto(t, "exchange")
    <3>1. Exchanges(t)
      BY <1>1, <1>4, <2>2, GotoEffect DEF Consume, Exchanges, At
    <3>. QED  BY <1>1, <2>2, <3>1, BecomeEffect DEF Goto
  <2>. QED  BY <1>4, <2>1, <2>2 DEF Consume
<1>5. ASSUME NEW label \in SessionLabels, Goto(t, label),
             thread[t].pc \in SessionLabels \ {"operate"}
      PROVE  Others /\ Effect
  <2>1. Proceeds(t)
    BY <1>1, <1>5, GotoEffect DEF Proceeds, At
  <2>. QED  BY <1>1, <1>5, <2>1, BecomeEffect DEF Goto
<1>6. CASE \/ RejectSession(t) \/ ServeSession(t) \/ StartRefresh(t)
           \/ RefreshFails(t) \/ Relookup(t)
           \/ \E c \in Clients, e \in TokenExpiries : RefreshSucceeds(t, c, e)
           \/ \E valid \in BOOLEAN : CheckLeave(t, valid)
  <2>1. thread[t].pc \in SessionLabels \ {"operate"}
    BY <1>6
    DEF RejectSession, ServeSession, StartRefresh, RefreshFails, Relookup,
        RefreshSucceeds, CheckLeave, SessionLabels, At
  <2>2. \/ Return(t)
        \/ \E label \in SessionLabels : Goto(t, label)
    BY <1>6
    DEF RejectSession, ServeSession, StartRefresh, RefreshFails, Relookup, Served,
        RefreshSucceeds, CheckLeave, SessionLabels
  <2>. QED  BY <1>2, <1>5, <2>1, <2>2
<1>7. CASE Capture(t)
  <2>1. CASE Return(t)
    BY <1>2, <2>1
  <2>2. CASE Become(t, [thread[t] EXCEPT !.pc = "operate",
                          !.inflight = session[thread[t].subject].client])
    <3>1. /\ Others
          /\ thread'[t] = [thread[t] EXCEPT !.pc = "operate",
                             !.inflight = session[thread[t].subject].client]
      BY <1>1, <2>2, BecomeEffect
    <3>2. Proceeds(t)
      BY <1>1, <1>7, <3>1 DEF Capture, Proceeds, Carries, ThreadState, SessionLabels, At
    <3>. QED  BY <3>1, <3>2
  <2>. QED  BY <1>7, <2>1, <2>2 DEF Capture
<1>8. CASE Invalidate(t)
  <2>1. /\ Others
        /\ thread'[t] = [thread[t] EXCEPT !.pc = "teardown",
                           !.evicted = thread[t].subject]
    BY <1>1, <1>8, BecomeEffect DEF Invalidate
  <2>2. Withdraws(t)
    BY <1>1, <1>8, <2>1 DEF Invalidate, Withdraws, Carries, ThreadState, At
  <2>. QED  BY <2>1, <2>2
<1>9. ASSUME NEW s \in Sessions, NEW c \in Clients, NEW e, NEW r,
             Register(t, s, c, e, r)
      PROVE  Others /\ Effect
  <2> DEFINE stale == {x \in registered : SessionExpired(x, thread[t].now)}
  <2>1. PICK last : Retire(t, stale, last)
    BY <1>9 DEF Register
  <2>2. CASE Return(t)
    BY <1>2, <2>2
  <2>3. CASE Become(t, [thread[t] EXCEPT !.pc = "teardown", !.expired = stale,
                                         !.evicted = last])
    <3>1. /\ Others
          /\ thread'[t] = [thread[t] EXCEPT !.pc = "teardown", !.expired = stale,
                                            !.evicted = last]
      BY <1>1, <2>3, BecomeEffect
    <3>2. Retires(t)
      BY <1>1, <1>9, <3>1 DEF Register, Retires, Carries, ThreadState, At
    <3>. QED  BY <3>1, <3>2
  <2>. QED  BY <2>1, <2>2, <2>3 DEF Retire
<1>10. ASSUME NEW s \in Sessions, Deactivate(t, s) PROVE Others /\ Effect
  <2> DEFINE stale == thread[t].expired
             last  == stale = {} \/ (stale = {s} /\ thread[t].evicted = None)
  <2>1. CASE ~last
    <3>1. /\ Others
          /\ thread'[t] = [thread[t] EXCEPT !.expired = stale \ {s}]
      BY <1>1, <1>10, <2>1, BecomeEffect DEF Deactivate
    <3>2. Destroys(t)
      BY <1>1, <1>10, <2>1, <3>1 DEF Deactivate, Destroys, Carries, ThreadState, At
    <3>. QED  BY <3>1, <3>2
  <2>2. CASE last /\ thread[t].request = "switch"
    <3>1. /\ Others
          /\ thread'[t] = [thread[t] EXCEPT !.pc = "begin", !.now = clock,
                                            !.expired = {}, !.evicted = None]
      BY <1>1, <1>10, <2>2, BecomeEffect DEF Deactivate, AfterTeardown
    <3>2. Restarts(t)
      BY <1>1, <1>10, <2>2, <3>1 DEF Deactivate, Restarts, Carries, ThreadState, At
    <3>. QED  BY <3>1, <3>2
  <2>3. CASE last /\ thread[t].request # "switch"
    BY <1>2, <1>10, <2>3 DEF Deactivate, AfterTeardown
  <2>. QED  BY <2>1, <2>2, <2>3
<1>. QED
  BY <1>3, <1>4, <1>6, <1>7, <1>8, <1>9, <1>10 DEF Step

(* A session keeps what it was granted with, is not revived, and gets a    *)
(* draft only while it is active and has room.                             *)
Ages(s) ==
  /\ session'[s].origin = session[s].origin
  /\ session'[s].created = session[s].created
  /\ session'[s].client # None <=> Allocated(s)
  /\ session'[s].active => session[s].active
  /\ \/ /\ session'[s].optimistic \subseteq session[s].optimistic
        /\ \/ session'[s].active = session[s].active
           \/ session'[s].optimistic = {}
     \/ /\ session'[s].active
        /\ Cardinality(session[s].optimistic) < MaxDrafts
        /\ \E slot \in Slots :
             session'[s].optimistic = session[s].optimistic \cup {slot}

LEMMA SameAges ==
  ASSUME NEW s, session'[s] = session[s]
  PROVE  Ages(s)
BY DEF Ages, Allocated

(* A session that is locked, unlocked or given a new token.                *)
Renewed(s) ==
  /\ session'[s].origin = session[s].origin
  /\ session'[s].created = session[s].created
  /\ session'[s].active = session[s].active
  /\ session'[s].optimistic = session[s].optimistic
  /\ session'[s].client # None

LEMMA RenewedAges ==
  ASSUME NEW s, Renewed(s), Allocated(s)
  PROVE  Ages(s)
BY DEF Renewed, Ages, Allocated

LEMMA RenewedLocals ==
  ASSUME NEW q \in SessionState, NEW h, NEW c, NEW e
  PROVE  LET r == [q EXCEPT !.holder = h]
             n == [[q EXCEPT !.holder = h] EXCEPT !.client = c, !.tokenExpiry = e]
         IN
         /\ r.origin = q.origin /\ r.created = q.created /\ r.active = q.active
         /\ r.optimistic = q.optimistic /\ r.client = q.client
         /\ n.origin = q.origin /\ n.created = q.created /\ n.active = q.active
         /\ n.optimistic = q.optimistic /\ n.client = c
BY DEF SessionState

LEMMA HeapEffect ==
  ASSUME Owned, NEW t \in Threads, Step(t),
         ~ \E s \in Sessions, c \in Clients, e \in TokenExpiries, r \in BOOLEAN :
             Register(t, s, c, e, r)
  PROVE  \A s \in Sessions : Ages(s)
<1>1. /\ session \in [Sessions -> SessionState]
      /\ thread[t].pc \in SessionLabels =>
           thread[t].subject \in Sessions /\ Allocated(thread[t].subject)
  BY DEF Owned, Typed, TypeOK, HasSubject, SubjectsAllocated
<1>2. CASE session' = session
  BY <1>2, SameAges
<1>3. ASSUME NEW x \in Sessions, NEW new, session' = [session EXCEPT ![x] = new],
             Ages(x)
      PROVE  \A s \in Sessions : Ages(s)
  BY <1>1, <1>3, SameAges
<1>4. CASE StartRefresh(t)
  <2>1. thread[t].subject \in Sessions
    BY <1>1, <1>4 DEF StartRefresh, At, SessionLabels
  <2>2. /\ session'[thread[t].subject] = Lock(thread[t].subject, t)
        /\ session' = [session EXCEPT ![thread[t].subject] = Lock(thread[t].subject, t)]
    BY <1>1, <1>4, <2>1 DEF StartRefresh
  <2>3. Renewed(thread[t].subject) /\ Allocated(thread[t].subject)
    BY <1>1, <1>4, <2>1, <2>2, RenewedLocals
    DEF StartRefresh, At, SessionLabels, Lock, Renewed, Allocated
  <2>. QED  BY <1>3, <2>1, <2>2, <2>3, RenewedAges
<1>5. CASE RefreshFails(t)
  <2>1. thread[t].subject \in Sessions
    BY <1>1, <1>5 DEF RefreshFails, At, SessionLabels
  <2>2. /\ session'[thread[t].subject] = Unlock(thread[t].subject)
        /\ session' = [session EXCEPT ![thread[t].subject] = Unlock(thread[t].subject)]
    BY <1>1, <1>5, <2>1 DEF RefreshFails
  <2>3. Renewed(thread[t].subject) /\ Allocated(thread[t].subject)
    BY <1>1, <1>5, <2>1, <2>2, RenewedLocals
    DEF RefreshFails, At, SessionLabels, Unlock, Renewed, Allocated
  <2>. QED  BY <1>3, <2>1, <2>2, <2>3, RenewedAges
<1>6. ASSUME NEW c \in Clients, NEW e \in TokenExpiries, RefreshSucceeds(t, c, e)
      PROVE  \A s \in Sessions : Ages(s)
  <2>1. thread[t].subject \in Sessions /\ Allocated(thread[t].subject) /\ c # None
    BY <1>1, <1>6, NameAssumption DEF RefreshSucceeds, At, SessionLabels
  <2>2. /\ session'[thread[t].subject]
             = [Unlock(thread[t].subject) EXCEPT !.client = c, !.tokenExpiry = e]
        /\ session' = [session EXCEPT ![thread[t].subject] =
             [Unlock(thread[t].subject) EXCEPT !.client = c, !.tokenExpiry = e]]
    BY <1>1, <1>6, <2>1 DEF RefreshSucceeds
  <2>3. Renewed(thread[t].subject)
    BY <1>1, <2>1, <2>2, RenewedLocals DEF Unlock, Renewed
  <2>. QED  BY <1>3, <2>1, <2>2, <2>3, RenewedAges
<1>7. ASSUME NEW s \in Sessions, Deactivate(t, s)
      PROVE  \A x \in Sessions : Ages(x)
  <2>1. CASE session[s].active
    <3>1. session' = [session EXCEPT ![s] = TornDown(s)]
      BY <1>7, <2>1 DEF Deactivate
    <3>2. Ages(s)
      BY <1>1, <3>1 DEF TornDown, SessionState, Ages, Allocated
    <3>. QED  BY <1>3, <3>1, <3>2
  <2>2. CASE ~session[s].active
    BY <1>2, <1>7, <2>2 DEF Deactivate
  <2>. QED  BY <2>1, <2>2
<1>8. ASSUME NEW slot \in Slots, AddDraft(t, slot)
      PROVE  \A s \in Sessions : Ages(s)
  <2> DEFINE s == thread[t].subject
  <2>1. s \in Sessions
    BY <1>1, <1>8 DEF AddDraft, At, SessionLabels
  <2>2. /\ session'[s].origin = session[s].origin
        /\ session'[s].created = session[s].created
        /\ session'[s].client = session[s].client
        /\ session'[s].active = session[s].active
        /\ session'[s].optimistic = session[s].optimistic \cup {slot}
    BY <1>1, <1>8, <2>1 DEF AddDraft, SessionState
  <2>3. Ages(s)
    BY <1>1, <1>8, <2>1, <2>2 DEF AddDraft, Ages, Allocated
  <2>. QED  BY <1>1, <1>8, <2>1, <2>3, SameAges DEF AddDraft
<1>9. ASSUME NEW slot \in Slots, DropDraft(t, slot)
      PROVE  \A s \in Sessions : Ages(s)
  <2> DEFINE s == thread[t].subject
  <2>1. s \in Sessions
    BY <1>1, <1>9 DEF DropDraft, At, SessionLabels
  <2>2. /\ session'[s].origin = session[s].origin
        /\ session'[s].created = session[s].created
        /\ session'[s].client = session[s].client
        /\ session'[s].active = session[s].active
        /\ session'[s].optimistic = session[s].optimistic \ {slot}
    BY <1>1, <1>9, <2>1 DEF DropDraft, SessionState
  <2>3. Ages(s)
    BY <2>2 DEF Ages, Allocated
  <2>. QED  BY <1>1, <1>9, <2>1, <2>3, SameAges DEF DropDraft
<1>. QED
  BY <1>2, <1>4, <1>5, <1>6, <1>7, <1>8, <1>9
  DEF Step, BeginFails, BeginInserts, BeginCollides, Consume, ExchangeFails,
      RegisterFails, RejectSession, ServeSession, Relookup, Capture,
      OperationReturns, CheckLeave, Invalidate, KeepDrafts

(* What registering a session does, with the session it evicts, if any.    *)
Stale(t) == {x \in registered : SessionExpired(x, thread[t].now)}

LEMMA RegisterEffect ==
  ASSUME Owned, NEW t \in Threads, NEW s \in Sessions, NEW c \in Clients,
         NEW e, NEW r, Register(t, s, c, e, r)
  PROVE  /\ At(t, "exchange") /\ ~Allocated(s) /\ ~session[s].active
         /\ s \notin registered
         /\ session'[s].active /\ session'[s].client # None
         /\ session'[s].origin = thread[t].flow
         /\ session'[s].optimistic = {}
         /\ \A x \in Sessions \ {s} : session'[x] = session[x]
         /\ \/ \E victim \in Victims(registered \ Stale(t)) :
                 registered' = ((registered \ Stale(t)) \ {victim}) \cup {s}
            \/ registered' = registered \ Stale(t)
         /\ UNCHANGED <<clock, pending, created, issued>>
<1>1. /\ At(t, "exchange") /\ ~Allocated(s)
      /\ session \in [Sessions -> SessionState]
      /\ c # None
      /\ session' = [session EXCEPT ![s] =
                       [Unallocated EXCEPT !.active = TRUE, !.client = c,
                                           !.created = thread[t].now,
                                           !.origin = thread[t].flow,
                                           !.tokenExpiry = e, !.refreshable = r]]
      /\ UNCHANGED <<clock, pending, created, issued>>
  BY NameAssumption DEF Register, Owned, Typed, TypeOK, pendingVars
<1>2. ~session[s].active /\ s \notin registered
  BY <1>1 DEF Owned, ClientsOpened, NobodyForgotten, Live
<1>3. /\ session'[s].active /\ session'[s].client # None
      /\ session'[s].origin = thread[t].flow
      /\ session'[s].optimistic = {}
      /\ \A x \in Sessions \ {s} : session'[x] = session[x]
  BY <1>1 DEF Unallocated
<1>4. \/ \E victim \in Victims(registered \ Stale(t)) :
           registered' = ((registered \ Stale(t)) \ {victim}) \cup {s}
      \/ registered' = registered \ Stale(t)
  BY DEF Register, Stale
<1>. QED  BY <1>1, <1>2, <1>3, <1>4

(* Any other step leaves the registry alone, or takes its session out.     *)
LEMMA RegistryEffect ==
  ASSUME NEW t \in Threads, Step(t),
         ~ \E s \in Sessions, c \in Clients, e \in TokenExpiries, r \in BOOLEAN :
             Register(t, s, c, e, r)
  PROVE  \/ registered' = registered
         \/ At(t, "invalidate") /\ registered' = registered \ {thread[t].subject}
BY DEF Step, BeginFails, BeginInserts, BeginCollides, Consume, ExchangeFails,
       RegisterFails, RejectSession, ServeSession, StartRefresh, RefreshFails,
       RefreshSucceeds, Relookup, Capture, OperationReturns, CheckLeave,
       Invalidate, Deactivate, AddDraft, DropDraft, KeepDrafts

(* A session is allocated once, listed once, and active once.              *)
LEMMA OneWay ==
  ASSUME Owned, NEW t \in Threads, Step(t), NEW s \in Sessions, Allocated(s)
  PROVE  /\ Allocated(s)'
         /\ s \in registered' => s \in registered
         /\ session'[s].active => session[s].active
<1>1. ASSUME NEW x \in Sessions, NEW c \in Clients, NEW e \in TokenExpiries,
             NEW r \in BOOLEAN, Register(t, x, c, e, r)
      PROVE  /\ Allocated(s)'
             /\ s \in registered' => s \in registered
             /\ session'[s].active => session[s].active
  <2>1. s # x /\ session'[s] = session[s]
    BY <1>1, RegisterEffect
  <2>2. registered' \subseteq registered \cup {x}
    <3>1. \/ \E victim \in Victims(registered \ Stale(t)) :
               registered' = ((registered \ Stale(t)) \ {victim}) \cup {x}
          \/ registered' = registered \ Stale(t)
      BY <1>1, RegisterEffect
    <3>. QED  BY <3>1
  <2>. QED  BY <2>1, <2>2 DEF Allocated
<1>2. CASE ~ \E x \in Sessions, c \in Clients, e \in TokenExpiries, r \in BOOLEAN :
               Register(t, x, c, e, r)
  BY <1>2, HeapEffect, RegistryEffect DEF Ages, Allocated
<1>. QED  BY <1>1, <1>2

LEMMA ClockEffect ==
  ASSUME NEW t \in Threads, Step(t)
  PROVE  clock' = clock
BY DEF Step, BeginFails, BeginInserts, BeginCollides, Consume, ExchangeFails,
       RegisterFails, Register, RejectSession, ServeSession, StartRefresh,
       RefreshFails, RefreshSucceeds, Relookup, Capture, OperationReturns,
       CheckLeave, Invalidate, Deactivate, AddDraft, DropDraft, KeepDrafts

(* Only Broker.Begin and Broker.Complete touch the pending authorizations. *)
LEMMA PendingEffect ==
  ASSUME NEW t \in Threads, Step(t)
  PROVE  \/ BeginInserts(t)
         \/ \E valid \in BOOLEAN : Consume(t, valid)
         \/ BeginCollides(t)
         \/ UNCHANGED <<pending, created, issued>> /\ ~At(t, "consume")
BY DEF Step, BeginFails, ExchangeFails, RegisterFails, Register, RejectSession,
       ServeSession, StartRefresh, RefreshFails, RefreshSucceeds, Relookup,
       Capture, OperationReturns, CheckLeave, Invalidate, Deactivate, AddDraft,
       DropDraft, KeepDrafts, pendingVars, At

LEMMA ArriveEffect ==
  ASSUME Owned, NEW t \in Threads, Arrive(t)
  PROVE  /\ UNCHANGED <<clock, pending, created, issued, registered, session>>
         /\ \A u \in Threads \ {t} : thread'[u] = thread[u]
         /\ At(t, "idle")
         /\ thread'[t].inflight = thread[t].inflight
         /\ \/ /\ At(t, "begin")' /\ thread'[t].request = "login"
               /\ thread'[t].subject = thread[t].subject
               /\ thread'[t].now = clock
            \/ /\ At(t, "consume")' /\ thread'[t].request = "callback"
               /\ thread'[t].subject = thread[t].subject
               /\ thread'[t].flow \in issued
               /\ thread'[t].now = clock
            \/ /\ thread'[t].pc \in SessionLabels \ {"operate"}
               /\ thread'[t].subject \in registered
               /\ thread'[t].now = thread[t].now
<1>1. Typed /\ thread[t] \in ThreadState
  BY DEF Owned, Typed, TypeOK
<1>2. UNCHANGED <<clock, pending, created, issued, registered, session>> /\ At(t, "idle")
  BY DEF Arrive, Login, Callback, Visit, pendingVars
<1>3. CASE Login(t)
  <2>1. /\ \A u \in Threads \ {t} : thread'[u] = thread[u]
        /\ thread'[t] = [thread[t] EXCEPT !.pc = "begin", !.request = "login",
                                          !.now = clock]
    BY <1>1, <1>3, BecomeEffect DEF Login
  <2>. QED  BY <1>1, <1>2, <2>1 DEF ThreadState, At
<1>4. ASSUME NEW p \in Pendings, Callback(t, p)
      PROVE  /\ \A u \in Threads \ {t} : thread'[u] = thread[u]
             /\ At(t, "consume")' /\ thread'[t].request = "callback"
             /\ thread'[t].subject = thread[t].subject
             /\ thread'[t].inflight = thread[t].inflight
             /\ thread'[t].flow \in issued
             /\ thread'[t].now = clock
  <2>1. /\ \A u \in Threads \ {t} : thread'[u] = thread[u]
        /\ thread'[t] = [thread[t] EXCEPT !.pc = "consume", !.request = "callback",
                                          !.now = clock, !.flow = p]
        /\ p \in issued
    BY <1>1, <1>4, BecomeEffect DEF Callback
  <2>. QED  BY <1>1, <2>1 DEF ThreadState, At
<1>5. ASSUME NEW s \in Sessions, NEW kind \in DOMAIN Entry, Visit(t, s, kind)
      PROVE  /\ \A u \in Threads \ {t} : thread'[u] = thread[u]
             /\ thread'[t].pc \in SessionLabels \ {"operate"}
             /\ thread'[t].subject \in registered
             /\ thread'[t].inflight = thread[t].inflight
             /\ thread'[t].now = thread[t].now
  <2>1. /\ \A u \in Threads \ {t} : thread'[u] = thread[u]
        /\ thread'[t] = [thread[t] EXCEPT !.pc = Entry[kind], !.request = kind,
                                          !.subject = s]
        /\ s \in registered
    BY <1>1, <1>5, BecomeEffect DEF Visit
  <2>2. Entry[kind] \in SessionLabels \ {"operate"}
    BY DEF Entry, SessionLabels
  <2>. QED  BY <1>1, <2>1, <2>2 DEF ThreadState
<1>. QED  BY <1>2, <1>3, <1>4, <1>5 DEF Arrive

-----------------------------------------------------------------------------
(* An authorization is in one place: it is pending, one callback exchanges *)
(* it, or one session came from it.  Broker.Begin draws a new identifier,  *)
(* and Broker.Complete takes it out of the map before anything can fail.   *)
OnePlace ==
  /\ \A t \in Threads :
       /\ thread[t].pc \in {"consume", "exchange"} => thread[t].flow \in issued
       /\ At(t, "exchange") =>
            /\ thread[t].flow \notin pending
            /\ \A s \in Sessions :
                 Allocated(s) => session[s].origin # thread[t].flow
            /\ \A u \in Threads \ {t} :
                 At(u, "exchange") => thread[u].flow # thread[t].flow
  /\ \A s \in Sessions : Allocated(s) => session[s].origin \in issued
  /\ SingleUseState

LEMMA OnePlaceArrive ==
  ASSUME Owned, OnePlace, NEW t \in Threads, Arrive(t)
  PROVE  OnePlace'
BY ArriveEffect DEF OnePlace, SingleUseState, Allocated, At, SessionLabels

LEMMA OnePlaceStep ==
  ASSUME Owned, OnePlace, NEW t \in Threads, Step(t)
  PROVE  OnePlace'
<1>1. \A u \in Threads \ {t} : thread'[u] = thread[u]
  BY ThreadEffect
<1>2. pending \subseteq issued
  BY DEF Owned, Typed, TypeOK
<1>3. ASSUME NEW s \in Sessions, NEW c \in Clients, NEW e \in TokenExpiries,
             NEW r \in BOOLEAN, Register(t, s, c, e, r)
      PROVE  OnePlace'
  <2>1. /\ At(t, "exchange") /\ ~Allocated(s)
        /\ Allocated(s)' /\ session'[s].origin = thread[t].flow
        /\ \A x \in Sessions \ {s} : session'[x] = session[x]
        /\ UNCHANGED <<pending, issued>>
    BY <1>3, RegisterEffect DEF Allocated
  <2>2. thread'[t].pc \notin {"consume", "exchange"}
    BY <2>1, ThreadEffect
    DEF Idle, Exchanges, Proceeds, Withdraws, Retires, Destroys, Restarts, At,
        SessionLabels
  <2>3. SingleUseState'
    BY <2>1 DEF OnePlace, SingleUseState, Allocated
  <2>. QED  BY <1>1, <2>1, <2>2, <2>3 DEF OnePlace, Allocated, At
<1>4. CASE ~ \E s \in Sessions, c \in Clients, e \in TokenExpiries, r \in BOOLEAN :
               Register(t, s, c, e, r)
  <2>1. \A s \in Sessions : /\ Allocated(s)' <=> Allocated(s)
                            /\ session'[s].origin = session[s].origin
    BY <1>4, HeapEffect DEF Ages, Allocated
  <2>2. CASE BeginInserts(t)
    <3>1. PICK p \in Pendings \ issued,
               keep \in Survivors({q \in pending : ~PendingExpired(q, thread[t].now)}) :
                 pending' = keep \cup {p} /\ issued' = issued \cup {p}
      BY <2>2 DEF BeginInserts
    <3>2. keep \subseteq pending
      BY DEF Survivors
    <3>3. thread'[t] = Idle
      BY <2>2, BecomeEffect DEF BeginInserts, Return, Owned
    <3>4. SingleUseState'
      BY <2>1, <3>1, <3>2 DEF OnePlace, SingleUseState
    <3>. QED
      BY <1>1, <2>1, <3>1, <3>2, <3>3, <3>4 DEF OnePlace, Idle, At
  <2>3. ASSUME NEW valid \in BOOLEAN, Consume(t, valid) PROVE OnePlace'
    <3>1. /\ At(t, "consume")
          /\ pending' = pending \ {thread[t].flow} /\ issued' = issued
      BY <2>3 DEF Consume
    <3>2. \/ thread'[t] = Idle
          \/ /\ thread'[t].pc = "exchange" /\ thread'[t].flow = thread[t].flow
             /\ thread[t].flow \in pending
      BY <2>3, BecomeEffect, GotoEffect DEF Consume, Return, Owned
    <3>3. SingleUseState'
      BY <2>1, <3>1 DEF OnePlace, SingleUseState
    <3>4. CASE thread'[t] = Idle
      BY <1>1, <2>1, <3>1, <3>3, <3>4 DEF OnePlace, Idle, At
    <3>5. CASE /\ thread'[t].pc = "exchange" /\ thread'[t].flow = thread[t].flow
               /\ thread[t].flow \in pending
      <4>1. \A s \in Sessions : Allocated(s)' => session'[s].origin # thread[t].flow
        BY <2>1, <3>5 DEF OnePlace, SingleUseState
      <4>2. \A u \in Threads \ {t} : At(u, "exchange") => thread[u].flow # thread[t].flow
        BY <3>5 DEF OnePlace
      <4>. QED
        BY <1>1, <1>2, <2>1, <3>1, <3>3, <3>5, <4>1, <4>2 DEF OnePlace, At
    <3>. QED  BY <3>2, <3>4, <3>5
  <2>4. ASSUME pending' \subseteq pending, issued' = issued, ~At(t, "consume")
        PROVE  OnePlace'
    <3>1. thread'[t].pc \notin {"consume", "exchange"}
      BY <2>4, ThreadEffect
      DEF Idle, Exchanges, Proceeds, Withdraws, Retires, Destroys, Restarts, At,
          SessionLabels
    <3>2. SingleUseState'
      BY <2>1, <2>4 DEF OnePlace, SingleUseState
    <3>. QED  BY <1>1, <2>1, <2>4, <3>1, <3>2 DEF OnePlace, At
  <2>5. CASE BeginCollides(t)
    BY <2>4, <2>5 DEF BeginCollides, At
  <2>. QED  BY <2>2, <2>3, <2>4, <2>5, PendingEffect
<1>. QED  BY <1>3, <1>4

-----------------------------------------------------------------------------
(* For whom a thread works.  A request of a tenant switch or a logout that *)
(* tears down has its own session on the list and nothing else, a login    *)
(* works for no session, and a switch that has reached the new             *)
(* authorization has its old session behind it.                            *)
Errands ==
  \A t \in Threads :
    LET s == thread[t].subject IN
    /\ thread[t].pc \in {"idle", "consume", "exchange"} => s = None
    /\ thread[t].pc \in {"consume", "exchange"} => thread[t].request = "callback"
    /\ thread[t].pc \in {"teardown", "begin"} /\ thread[t].request = "switch" =>
         s # None
    /\ s # None => Allocated(s)
    /\ At(t, "teardown") /\ s # None =>
         thread[t].expired = {} /\ thread[t].evicted = s
    /\ At(t, "begin") /\ s # None => s \notin registered /\ ~session[s].active
    /\ thread[t].inflight # None => At(t, "operate")
    /\ thread[t].now <= clock

LEMMA Deactivates ==
  ASSUME Owned, NEW t \in Threads, At(t, "teardown"), Step(t)
  PROVE  \E s \in Sessions :
           /\ Deactivate(t, s)
           /\ s \notin registered /\ Allocated(s)
           /\ thread[t].expired = {} => s = thread[t].evicted
           /\ ~session'[s].active
<1>1. PICK s \in Sessions : Deactivate(t, s)
  BY DEF Step, BeginFails, BeginInserts, BeginCollides, Consume, ExchangeFails,
         RegisterFails, Register, RejectSession, ServeSession, StartRefresh,
         RefreshFails, RefreshSucceeds, Relookup, Capture, OperationReturns,
         CheckLeave, Invalidate, AddDraft, DropDraft, KeepDrafts, At
<1>2. s \in Doomed(t)
  BY <1>1, NameAssumption DEF Deactivate, Doomed
<1>3. session \in [Sessions -> SessionState]
  BY DEF Owned, Typed, TypeOK
<1>4. ~session'[s].active
  BY <1>1, <1>3 DEF Deactivate, TornDown, SessionState
<1>. QED  BY <1>1, <1>2, <1>4 DEF Deactivate, Owned, DoomedUnlisted

LEMMA ErrandsArrive ==
  ASSUME Owned, Errands, NEW t \in Threads, Arrive(t)
  PROVE  Errands'
<1>1. /\ UNCHANGED <<clock, registered, session>>
      /\ \A u \in Threads \ {t} : thread'[u] = thread[u]
  BY ArriveEffect
<1>2. \A s \in registered : Allocated(s)
  BY DEF Owned, NobodyForgotten, ClientsOpened, Live
<1>3. thread[t].subject = None /\ thread[t].inflight = None /\ thread[t].now <= clock
  BY ArriveEffect DEF Errands, At
<1>4. None \notin registered
  BY NameAssumption DEF Owned, Typed, TypeOK
<1>5. thread[t].now \in Nat /\ clock \in Nat
  BY DEF Owned, Typed, TypeOK, ThreadState
<1>6. CASE /\ At(t, "begin")' /\ thread'[t].request = "login"
           /\ thread'[t].subject = thread[t].subject
           /\ thread'[t].now = clock /\ thread'[t].inflight = thread[t].inflight
  BY <1>1, <1>3, <1>5, <1>6 DEF Errands, At, Allocated
<1>7. CASE /\ At(t, "consume")' /\ thread'[t].request = "callback"
           /\ thread'[t].subject = thread[t].subject
           /\ thread'[t].now = clock /\ thread'[t].inflight = thread[t].inflight
  BY <1>1, <1>3, <1>5, <1>7 DEF Errands, At, Allocated
<1>8. CASE /\ thread'[t].pc \in SessionLabels \ {"operate"}
           /\ thread'[t].subject \in registered
           /\ thread'[t].now = thread[t].now /\ thread'[t].inflight = thread[t].inflight
  BY <1>1, <1>2, <1>3, <1>4, <1>5, <1>8 DEF Errands, At, Allocated, SessionLabels
<1>. QED  BY <1>6, <1>7, <1>8, ArriveEffect

LEMMA ErrandsStep ==
  ASSUME Owned, Errands, NEW t \in Threads, Step(t)
  PROVE  Errands'
<1> DEFINE Fits(u) ==
      LET s == thread[u].subject IN
      /\ thread[u].pc \in {"idle", "consume", "exchange"} => s = None
      /\ thread[u].pc \in {"consume", "exchange"} => thread[u].request = "callback"
      /\ thread[u].pc \in {"teardown", "begin"} /\ thread[u].request = "switch" =>
           s # None
      /\ s # None => Allocated(s)
      /\ At(u, "teardown") /\ s # None =>
           thread[u].expired = {} /\ thread[u].evicted = s
      /\ At(u, "begin") /\ s # None => s \notin registered /\ ~session[s].active
      /\ thread[u].inflight # None => At(u, "operate")
      /\ thread[u].now <= clock
<1>1. /\ \A u \in Threads \ {t} : thread'[u] = thread[u]
      /\ clock' = clock /\ clock \in Nat
  BY ThreadEffect, ClockEffect DEF Owned, Typed, TypeOK
<1>2. \A u \in Threads : /\ thread[u].subject \in Sessions \cup {None}
                         /\ Fits(u)
  BY DEF Errands, Owned, Typed, TypeOK, ThreadState
<1>3. \A s \in Sessions : Allocated(s) =>
        /\ session'[s].client # None
        /\ s \in registered' => s \in registered
        /\ session'[s].active => session[s].active
  BY OneWay DEF Allocated
<1>4. ASSUME NEW u \in Threads \ {t} PROVE Fits(u)'
  BY <1>1, <1>2, <1>3, <1>4 DEF At, Allocated
<1>5. Fits(t)'
  <2>1. Fits(t) /\ thread[t].subject \in Sessions \cup {None}
    BY <1>2
  <2>2. CASE thread'[t] = Idle
    BY <1>1, <2>2 DEF Idle, At
  <2>3. CASE Exchanges(t)
    BY <1>1, <2>1, <2>3 DEF Exchanges, Carries, At
  <2>4. CASE Proceeds(t)
    <3>1. thread[t].subject \in Sessions /\ thread[t].subject # None
      BY <2>4, NameAssumption DEF Proceeds, Owned, Typed, HasSubject
    <3>. QED
      BY <1>1, <1>3, <2>1, <2>4, <3>1
      DEF Proceeds, Carries, At, Allocated, SessionLabels
  <2>5. CASE Withdraws(t)
    <3>1. /\ thread[t].expired = {}
          /\ thread[t].subject \in Sessions /\ thread[t].subject # None
      BY <2>5, NameAssumption
      DEF Withdraws, Owned, DoomedUnlisted, At, Typed, HasSubject, SessionLabels
    <3>. QED  BY <1>1, <1>3, <2>1, <2>5, <3>1 DEF Withdraws, Carries, At, Allocated
  <2>6. CASE Retires(t)
    BY <1>1, <2>1, <2>6 DEF Retires, Carries, At
  <2>7. CASE Destroys(t)
    BY <1>1, <2>1, <2>7 DEF Destroys, Carries, At
  <2>8. CASE Restarts(t)
    <3>1. /\ thread[t].subject # None /\ thread[t].subject \in Sessions
          /\ thread[t].expired = {} /\ thread[t].evicted = thread[t].subject
      BY <2>1, <2>8 DEF Restarts, At
    <3>2. /\ thread[t].subject \notin registered
          /\ ~session'[thread[t].subject].active
          /\ Allocated(thread[t].subject)
      BY <2>8, <3>1, Deactivates DEF Restarts
    <3>. QED  BY <1>1, <1>3, <2>1, <2>8, <3>1, <3>2 DEF Restarts, Carries, At, Allocated
  <2>. QED
    BY <2>2, <2>3, <2>4, <2>5, <2>6, <2>7, <2>8, ThreadEffect
<1>. QED  BY <1>4, <1>5 DEF Errands

(* The drafts of a session go with it.                                     *)
DraftsDie ==
  \A s \in Sessions : ~session[s].active => session[s].optimistic = {}

LEMMA DraftsDieStep ==
  ASSUME Owned, DraftsDie, NEW t \in Threads, Step(t)
  PROVE  DraftsDie'
<1>1. ASSUME NEW s \in Sessions, NEW c \in Clients, NEW e \in TokenExpiries,
             NEW r \in BOOLEAN, Register(t, s, c, e, r)
      PROVE  DraftsDie'
  BY <1>1, RegisterEffect DEF DraftsDie
<1>2. CASE ~ \E s \in Sessions, c \in Clients, e \in TokenExpiries, r \in BOOLEAN :
               Register(t, s, c, e, r)
  BY <1>2, HeapEffect DEF Ages, DraftsDie
<1>. QED  BY <1>1, <1>2

(* The maps are finite and within their bounds.                            *)
Bounded ==
  /\ IsFiniteSet(pending) /\ IsFiniteSet(registered)
  /\ \A s \in Sessions : IsFiniteSet(session[s].optimistic)
  /\ WithinBounds

(* Room for one more element makes room for it.                            *)
LEMMA OneMore ==
  ASSUME NEW S, IsFiniteSet(S), NEW M \in Nat, Cardinality(S) < M, NEW x
  PROVE  IsFiniteSet(S \cup {x}) /\ Cardinality(S \cup {x}) <= M
<1>1. /\ IsFiniteSet(S \cup {x})
      /\ \/ Cardinality(S \cup {x}) = Cardinality(S)
         \/ Cardinality(S \cup {x}) = Cardinality(S) + 1
      /\ Cardinality(S) \in Nat
  BY FS_AddElement, FS_CardinalityType
<1>. QED  BY <1>1

LEMMA Fewer ==
  ASSUME NEW S, IsFiniteSet(S), NEW M \in Nat, Cardinality(S) <= M,
         NEW T \in SUBSET S
  PROVE  IsFiniteSet(T) /\ Cardinality(T) <= M
<1>1. /\ IsFiniteSet(T) /\ Cardinality(T) <= Cardinality(S)
      /\ Cardinality(S) \in Nat /\ Cardinality(T) \in Nat
  BY FS_Subset, FS_CardinalityType
<1>. QED  BY <1>1

LEMMA BoundedStep ==
  ASSUME Owned, Bounded, NEW t \in Threads, Step(t)
  PROVE  Bounded'
<1>1. MaxPending \in Nat /\ MaxSessions \in Nat /\ MaxDrafts \in Nat
  BY CapacityAssumption
<1>2. IsFiniteSet(pending') /\ Cardinality(pending') <= MaxPending
  <2>1. IsFiniteSet(pending) /\ Cardinality(pending) <= MaxPending
    BY DEF Bounded, WithinBounds
  <2>2. CASE pending' \subseteq pending
    BY <1>1, <2>1, <2>2, Fewer
  <2>3. CASE BeginInserts(t)
    <3>1. PICK p \in Pendings \ issued,
               keep \in Survivors({q \in pending : ~PendingExpired(q, thread[t].now)}) :
                 pending' = keep \cup {p}
      BY <2>3 DEF BeginInserts
    <3>2. keep \subseteq pending /\ Cardinality(keep) < MaxPending
      BY DEF Survivors
    <3>3. IsFiniteSet(keep)
      BY <2>1, <3>2, FS_Subset
    <3>. QED  BY <1>1, <3>1, <3>2, <3>3, OneMore
  <2>. QED  BY <2>2, <2>3, PendingEffect DEF BeginCollides, Consume
<1>3. IsFiniteSet(registered') /\ Cardinality(registered') <= MaxSessions
  <2>1. IsFiniteSet(registered) /\ Cardinality(registered) <= MaxSessions
    BY DEF Bounded, WithinBounds
  <2>2. CASE registered' \subseteq registered
    BY <1>1, <2>1, <2>2, Fewer
  <2>3. ASSUME NEW kept \in SUBSET registered, NEW victim \in Victims(kept), NEW s,
               registered' = (kept \ {victim}) \cup {s}
        PROVE  IsFiniteSet(registered') /\ Cardinality(registered') <= MaxSessions
    <3>1. IsFiniteSet(kept) /\ Cardinality(kept) <= MaxSessions
      BY <1>1, <2>1, Fewer
    <3>2. IsFiniteSet(kept \ {victim}) /\ Cardinality(kept \ {victim}) < MaxSessions
      <4>1. CASE Cardinality(kept) < MaxSessions
        <5>1. victim = None /\ None \notin kept
          BY <4>1, NameAssumption DEF Victims, Owned, Typed, TypeOK
        <5>2. kept \ {victim} = kept
          BY <5>1
        <5>. QED  BY <3>1, <4>1, <5>2
      <4>2. CASE ~(Cardinality(kept) < MaxSessions)
        <5>1. victim \in kept
          BY <4>2 DEF Victims
        <5>2. /\ IsFiniteSet(kept \ {victim})
              /\ Cardinality(kept \ {victim}) = Cardinality(kept) - 1
              /\ Cardinality(kept) \in Nat
          BY <3>1, <5>1, FS_RemoveElement, FS_CardinalityType
        <5>. QED  BY <1>1, <3>1, <5>2
      <4>. QED  BY <4>1, <4>2
    <3>. QED  BY <1>1, <2>3, <3>2, OneMore
  <2>4. ASSUME NEW s \in Sessions, NEW c \in Clients, NEW e \in TokenExpiries,
               NEW r \in BOOLEAN, Register(t, s, c, e, r)
        PROVE  IsFiniteSet(registered') /\ Cardinality(registered') <= MaxSessions
    <3>1. \/ \E victim \in Victims(registered \ Stale(t)) :
               registered' = ((registered \ Stale(t)) \ {victim}) \cup {s}
          \/ registered' = registered \ Stale(t)
      BY <2>4, RegisterEffect
    <3>2. (registered \ Stale(t)) \in SUBSET registered
      OBVIOUS
    <3>. QED  BY <2>2, <2>3, <3>1, <3>2
  <2>. QED  BY <2>2, <2>4, RegistryEffect
<1>4. ASSUME NEW s \in Sessions
      PROVE  /\ IsFiniteSet(session'[s].optimistic)
             /\ Cardinality(session'[s].optimistic) <= MaxDrafts
  <2>1. /\ IsFiniteSet(session[s].optimistic)
        /\ Cardinality(session[s].optimistic) <= MaxDrafts
    BY DEF Bounded, WithinBounds
  <2>2. CASE session'[s].optimistic \subseteq session[s].optimistic
    BY <1>1, <2>1, <2>2, Fewer
  <2>3. CASE /\ Cardinality(session[s].optimistic) < MaxDrafts
             /\ \E slot \in Slots :
                  session'[s].optimistic = session[s].optimistic \cup {slot}
    BY <1>1, <2>1, <2>3, OneMore
  <2>4. ASSUME NEW x \in Sessions, NEW c \in Clients, NEW e \in TokenExpiries,
               NEW r \in BOOLEAN, Register(t, x, c, e, r)
        PROVE  session'[s].optimistic \subseteq session[s].optimistic
    BY <2>4, RegisterEffect
  <2>. QED  BY <2>2, <2>3, <2>4, HeapEffect DEF Ages
<1>. QED  BY <1>2, <1>3, <1>4 DEF Bounded, WithinBounds

-----------------------------------------------------------------------------
(* The rest of the broker's safety: these four are inductive given Owned.  *)
Steady == OnePlace /\ Errands /\ DraftsDie /\ Bounded

LEMMA SteadyInit == Init => Steady
<1> SUFFICES ASSUME Init PROVE Steady
  OBVIOUS
<1>1. /\ \A s \in Sessions : session[s] = Unallocated
      /\ \A t \in Threads : thread[t] = Idle
      /\ pending = {} /\ registered = {} /\ clock = 0
  BY DEF Init
<1>2. \A s \in Sessions : ~Allocated(s)
  BY <1>1 DEF Allocated, Unallocated
<1>3. OnePlace
  BY <1>1, <1>2 DEF OnePlace, SingleUseState, Idle, At
<1>4. Errands
  BY <1>1 DEF Errands, Idle, At
<1>5. DraftsDie
  BY <1>1 DEF DraftsDie, Unallocated
<1>6. Bounded
  <2>1. /\ IsFiniteSet({}) /\ Cardinality({}) = 0
        /\ 0 <= MaxPending /\ 0 <= MaxSessions /\ 0 <= MaxDrafts
    BY FS_EmptySet, CapacityAssumption
  <2>2. \A s \in Sessions : session[s].optimistic = {}
    BY <1>1 DEF Unallocated
  <2>. QED  BY <1>1, <2>1, <2>2 DEF Bounded, WithinBounds
<1>. QED  BY <1>3, <1>4, <1>5, <1>6 DEF Steady

(* A step of the clock, or none.                                           *)
LEMMA SteadyTick ==
  ASSUME Owned, Steady, clock' \in Nat, clock <= clock',
         UNCHANGED <<pending, issued, registered, session, thread>>
  PROVE  Steady'
<1>1. clock \in Nat /\ \A t \in Threads : thread[t].now \in Nat
  BY DEF Owned, Typed, TypeOK, ThreadState
<1>2. Errands'
  BY <1>1 DEF Steady, Errands, At, Allocated
<1>. QED
  BY <1>2
  DEF Steady, OnePlace, SingleUseState, DraftsDie, Bounded, WithinBounds, At,
      Allocated

LEMMA SteadyNext ==
  ASSUME Owned, Steady, [Next]_vars
  PROVE  Steady'
<1>1. CASE Tick
  <2>1. clock \in Nat
    BY DEF Owned, Typed, TypeOK
  <2>. QED  BY <1>1, <2>1, SteadyTick DEF Tick, pendingVars
<1>2. CASE UNCHANGED vars
  <2>1. clock \in Nat
    BY DEF Owned, Typed, TypeOK
  <2>. QED  BY <1>2, <2>1, SteadyTick DEF vars
<1>3. ASSUME NEW t \in Threads, Arrive(t) PROVE Steady'
  <2>1. UNCHANGED <<pending, registered, session>>
    BY <1>3, ArriveEffect DEF Owned
  <2>2. DraftsDie' /\ Bounded'
    BY <2>1 DEF Steady, DraftsDie, Bounded, WithinBounds
  <2>. QED  BY <1>3, <2>2, OnePlaceArrive, ErrandsArrive DEF Steady
<1>4. ASSUME NEW t \in Threads, Step(t) PROVE Steady'
  BY <1>4, OnePlaceStep, ErrandsStep, DraftsDieStep, BoundedStep DEF Steady
<1>. QED  BY <1>1, <1>2, <1>3, <1>4 DEF Next, Quiet

(* The inductive invariant of authorizations, switches, drafts and bounds. *)
THEOREM AlwaysSteady == Spec => []Steady
BY AlwaysOwned, SteadyInit, SteadyNext, PTL DEF Spec

(* However callbacks overlap or repeat, one authorization becomes at most  *)
(* one session, and is not pending any more when it has.                   *)
THEOREM StatesAreSingleUse == Spec => []SingleUseState
<1>1. Steady => SingleUseState
  BY DEF Steady, OnePlace
<1>. QED  BY <1>1, AlwaysSteady, PTL

(* Logins, callbacks and drafts never outgrow the configured capacities.   *)
THEOREM BoundsHold == Spec => []WithinBounds
<1>1. Steady => WithinBounds
  BY DEF Steady, Bounded
<1>. QED  BY <1>1, AlwaysSteady, PTL

(* A tenant switch asks for the new authorization when the old session is  *)
(* out of the registry, inactive and without drafts.                       *)
THEOREM SwitchesLeaveFirst == Spec => []SwitchLeavesFirst
<1>1. ASSUME Owned, Errands, DraftsDie, NEW t \in Threads,
             At(t, "begin"), thread[t].request = "switch"
      PROVE  /\ thread[t].subject \notin registered
             /\ ~session[thread[t].subject].active
             /\ session[thread[t].subject].optimistic = {}
  <2>1. thread[t].subject \in Sessions \cup {None}
    BY <1>1 DEF Owned, Typed, TypeOK, ThreadState
  <2>2. thread[t].subject # None
    BY <1>1 DEF Errands, At
  <2>3. thread[t].subject \notin registered /\ ~session[thread[t].subject].active
    BY <1>1, <2>2 DEF Errands
  <2>. QED  BY <1>1, <2>1, <2>2, <2>3 DEF DraftsDie
<1>2. Owned /\ Steady => SwitchLeavesFirst
  BY <1>1 DEF Steady, SwitchLeavesFirst
<1>. QED  BY <1>2, AlwaysOwned, AlwaysSteady, PTL

-----------------------------------------------------------------------------
(* Action properties *)

LEMMA FinalStep ==
  ASSUME Owned, Steady, Owned', Steady', [Next]_vars, NEW t \in Threads
  PROVE  LET s == thread[t].subject IN
         /\ At(t, "teardown") /\ s # None /\ ~At(t, "teardown")' =>
              /\ s \notin registered'
              /\ ~session'[s].active
              /\ session'[s].optimistic = {}
              /\ \A u \in Threads :
                   thread'[u].subject = s => thread'[u].inflight \notin open'
         /\ s # None /\ Allocated(s) /\ ~session[s].active =>
              ~session'[s].active
<1> DEFINE s == thread[t].subject
<1>1. s # None => s \in Sessions
  BY DEF Owned, Typed, TypeOK, ThreadState
<1>2. ASSUME At(t, "teardown"), s # None, ~At(t, "teardown")'
      PROVE  /\ s \notin registered'
             /\ ~session'[s].active
             /\ session'[s].optimistic = {}
             /\ \A u \in Threads :
                  thread'[u].subject = s => thread'[u].inflight \notin open'
  <2>1. Step(t)
    <3>1. ASSUME NEW u \in Threads, Arrive(u) PROVE FALSE
      BY <1>2, <3>1, ArriveEffect DEF At
    <3>2. ASSUME NEW u \in Threads, Step(u), u # t PROVE FALSE
      BY <1>2, <3>2, ThreadEffect DEF At
    <3>. QED  BY <1>2, <3>1, <3>2 DEF Next, Tick, Quiet, vars, At
  <2>2. /\ thread[t].expired = {} /\ thread[t].evicted = s
    BY <1>2 DEF Steady, Errands
  <2>3. s \notin registered /\ Allocated(s) /\ ~session'[s].active
    BY <1>2, <2>1, <2>2, Deactivates
  <2>4. s \notin registered'
    BY <1>1, <1>2, <2>1, <2>3, OneWay
  <2>5. session'[s].optimistic = {}
    BY <1>1, <1>2, <2>3 DEF Steady, DraftsDie
  <2>6. ASSUME NEW u \in Threads, thread'[u].subject = s,
               thread'[u].inflight \in open'
        PROVE  FALSE
    <3>1. None \notin open'
      BY NameAssumption DEF Owned, Typed, TypeOK
    <3>2. At(u, "operate")'
      BY <2>6, <3>1 DEF Steady, Errands
    <3>. QED  BY <2>3, <2>6, <3>2 DEF Owned, WorkOnOwnClient
  <2>. QED  BY <2>3, <2>4, <2>5, <2>6
<1>3. ASSUME s # None, Allocated(s), ~session[s].active
      PROVE  ~session'[s].active
  <2>1. ASSUME NEW u \in Threads, Arrive(u) PROVE ~session'[s].active
    BY <1>3, <2>1, ArriveEffect
  <2>2. ASSUME NEW u \in Threads, Step(u) PROVE ~session'[s].active
    BY <1>1, <1>3, <2>2, OneWay
  <2>. QED  BY <1>3, <2>1, <2>2 DEF Next, Tick, Quiet, vars
<1>. QED  BY <1>2, <1>3

(* When the request that withdrew a session is over, the session is dead   *)
(* for good: no drafts, no client that still works, and no way back.       *)
THEOREM TeardownsAreFinal == Spec => TeardownIsFinal
<1> DEFINE Final(t) ==
      LET s == thread[t].subject IN
      /\ At(t, "teardown") /\ s # None /\ ~At(t, "teardown")' =>
           /\ s \notin registered'
           /\ ~session'[s].active
           /\ session'[s].optimistic = {}
           /\ \A u \in Threads :
                thread'[u].subject = s => thread'[u].inflight \notin open'
      /\ s # None /\ Allocated(s) /\ ~session[s].active =>
           ~session'[s].active
<1>1. ASSUME Owned, Steady, Owned', Steady', [Next]_vars
      PROVE  [\A t \in Threads : Final(t)]_vars
  BY <1>1, FinalStep
<1>2. Spec => [][\A t \in Threads : Final(t)]_vars
  BY <1>1, AlwaysOwned, AlwaysSteady, PTL DEF Spec
<1>. QED  BY <1>2 DEF TeardownIsFinal

LEMMA SparingStep ==
  ASSUME Owned, Steady, [Next]_vars, NEW t \in Threads,
         At(t, "exchange"), ~At(t, "exchange")'
  PROVE  \A s \in registered \ registered' :
           \/ SessionExpired(s, clock)
           \/ \A x \in registered \cap registered' : ~SessionExpired(x, clock)
<1>1. Step(t)
  <2>1. ASSUME NEW u \in Threads, Arrive(u) PROVE FALSE
    BY <2>1, ArriveEffect DEF At
  <2>2. ASSUME NEW u \in Threads, Step(u), u # t PROVE FALSE
    BY <2>2, ThreadEffect DEF At
  <2>. QED  BY <2>1, <2>2 DEF Next, Tick, Quiet, vars, At
<1>2. /\ thread[t].now \in Nat /\ clock \in Nat /\ SessionTTL \in Nat
      /\ thread[t].now <= clock
      /\ registered \subseteq Sessions
      /\ \A s \in Sessions : session[s].created \in Nat
  BY TimeAssumption
  DEF Owned, Typed, TypeOK, ThreadState, SessionState, Steady, Errands
<1>3. ASSUME NEW s \in Sessions, NEW c \in Clients, NEW e \in TokenExpiries,
             NEW r \in BOOLEAN, Register(t, s, c, e, r),
             NEW gone \in registered \ registered', ~SessionExpired(gone, clock),
             NEW x \in registered \cap registered'
      PROVE  ~SessionExpired(x, clock)
  <2> DEFINE kept == registered \ Stale(t)
  <2>1. gone \in kept
    BY <1>2, <1>3 DEF Stale, SessionExpired
  <2>2. PICK victim \in Victims(kept) : registered' = (kept \ {victim}) \cup {s}
    BY <1>3, <2>1, RegisterEffect
  <2>3. gone = victim /\ gone # None
    BY <1>2, <1>3, <2>1, <2>2, NameAssumption
  <2>4. \A y \in kept : session[gone].created <= session[y].created
    BY <2>2, <2>3 DEF Victims
  <2>5. x \in kept
    BY <1>3, <2>2, RegisterEffect
  <2>. QED  BY <1>2, <1>3, <2>4, <2>5 DEF SessionExpired
<1>. QED  BY <1>1, <1>3, RegistryEffect DEF At

(* Eviction compares with a time read before the code exchange, and still  *)
(* never drops a good session while it keeps an expired one.               *)
THEOREM EvictionsSpareLive == Spec => EvictionSparesLive
<1> DEFINE Sparing ==
      \A t \in Threads : At(t, "exchange") /\ ~At(t, "exchange")' =>
        \A s \in registered \ registered' :
          \/ SessionExpired(s, clock)
          \/ \A x \in registered \cap registered' : ~SessionExpired(x, clock)
<1>1. ASSUME Owned, Steady, [Next]_vars PROVE [Sparing]_vars
  BY <1>1, SparingStep
<1>2. Spec => [][Sparing]_vars
  BY <1>1, AlwaysOwned, AlwaysSteady, PTL DEF Spec
<1>. QED  BY <1>2 DEF EvictionSparesLive

-----------------------------------------------------------------------------
(* The broker takes the steps of SessionLifecycle.                         *)

stages == [s \in Sessions |-> Stage(s)]

(* The sessions the lifecycle calls listed are those of the registry.      *)
LEMMA ListedRegistered ==
  ASSUME Owned
  PROVE  Lifecycle!Listed = registered
BY DEF Lifecycle!Listed, Stage, Owned, NobodyForgotten, ClientsOpened, Live, Typed, TypeOK

LEMMA SameStages ==
  ASSUME UNCHANGED registered,
         \A s \in Sessions : /\ Allocated(s)' <=> Allocated(s)
                             /\ session'[s].active <=> session[s].active
  PROVE  UNCHANGED stages
BY DEF stages, Stage, Allocated

LEMMA SameCardinality == \A S : Lifecycle!Cardinality(S) = Cardinality(S)
BY DEF Lifecycle!Cardinality, Cardinality

LEMMA LifecycleRegister ==
  ASSUME Owned, Bounded', NEW t \in Threads, NEW s \in Sessions, NEW c \in Clients,
         NEW e, NEW r, Register(t, s, c, e, r)
  PROVE  Lifecycle!Next
<1>1. /\ ~Allocated(s) /\ s \notin registered /\ ~session[s].active
      /\ session'[s].active /\ Allocated(s)'
      /\ \A x \in Sessions \ {s} : session'[x] = session[x]
  BY RegisterEffect DEF Allocated
<1>2. /\ registered \subseteq Sessions
      /\ \A x \in registered : session[x].active /\ Allocated(x)
  BY DEF Owned, Typed, TypeOK, NobodyForgotten, Live, ClientsOpened
<1>3. Lifecycle!Listed = registered
  BY ListedRegistered
<1>4. stages[s] = "unborn"
  BY <1>1 DEF stages, Stage
<1>5. \A x \in Sessions \ {s} : x \notin registered /\ x \notin registered' =>
        Stage(x)' = Stage(x)
  BY <1>1 DEF Stage, Allocated
<1>6. \A x \in Sessions \ {s} :
        /\ x \in registered /\ x \in registered' => Stage(x)' = Stage(x)
        /\ x \in registered \ registered' => Stage(x)' = "condemned"
  BY <1>1, <1>2 DEF Stage, Allocated
<1>7. CASE registered' = registered \ Stale(t)
  <2>1. Stale(t) \in SUBSET registered
    BY DEF Stale
  <2>2. Stage(s)' = "condemned"
    BY <1>1, <1>7 DEF Stage
  <2>3. stages' = Lifecycle!Withdraw(Stale(t) \cup {s}, stages)
    BY <1>5, <1>6, <1>7, <2>1, <2>2 DEF Lifecycle!Withdraw, stages
  <2>4. Lifecycle!Abandon(s, Stale(t))
    BY <1>4, <2>3 DEF Lifecycle!Abandon, stages
  <2>. QED  BY <1>3, <2>1, <2>4 DEF Lifecycle!Next
<1>8. ASSUME NEW victim \in Victims(registered \ Stale(t)),
             registered' = ((registered \ Stale(t)) \ {victim}) \cup {s}
      PROVE  Lifecycle!Next
  <2> DEFINE out == registered \ registered'
  <2>1. /\ s \in registered'
        /\ registered' = (registered \ out) \cup {s}
        /\ out \in SUBSET registered
    BY <1>1, <1>8
  <2> HIDE DEF out
  <2>2. Stage(s)' = "listed"
    BY <1>1, <2>1 DEF Stage
  <2>3. stages' = Lifecycle!Withdraw(out, [stages EXCEPT ![s] = "listed"])
    BY <1>1, <1>5, <1>6, <2>1, <2>2 DEF Lifecycle!Withdraw, stages
  <2>4. Cardinality((registered \ out) \cup {s}) <= MaxSessions
    BY <2>1 DEF Bounded, WithinBounds
  <2>5. Lifecycle!Cardinality((Lifecycle!Listed \ out) \cup {s}) <= MaxSessions
    BY <1>3, <2>4, SameCardinality
  <2>6. Lifecycle!Grant(s, out)
    BY <1>4, <2>3, <2>5 DEF Lifecycle!Grant, stages
  <2>. QED  BY <1>3, <2>1, <2>6 DEF Lifecycle!Next
<1>. QED  BY <1>7, <1>8, RegisterEffect

(* Only a login starts a session, and only a teardown ends one.            *)
LEMMA SameActivity ==
  ASSUME Owned, NEW t \in Threads, Step(t), ~At(t, "teardown"),
         ~ \E s \in Sessions, c \in Clients, e \in TokenExpiries, r \in BOOLEAN :
             Register(t, s, c, e, r)
  PROVE  \A s \in Sessions : session'[s].active = session[s].active
<1>1. /\ session \in [Sessions -> SessionState]
      /\ thread[t].pc \in SessionLabels => thread[t].subject \in Sessions
  BY DEF Owned, Typed, TypeOK, HasSubject
<1>2. CASE StartRefresh(t)
  BY <1>1, <1>2 DEF StartRefresh, Lock, SessionState, At, SessionLabels
<1>3. CASE RefreshFails(t)
  BY <1>1, <1>3 DEF RefreshFails, Unlock, SessionState, At, SessionLabels
<1>4. CASE \E c \in Clients, e \in TokenExpiries : RefreshSucceeds(t, c, e)
  BY <1>1, <1>4 DEF RefreshSucceeds, Unlock, SessionState, At, SessionLabels
<1>5. CASE \E slot \in Slots : AddDraft(t, slot) \/ DropDraft(t, slot)
  BY <1>1, <1>5 DEF AddDraft, DropDraft, SessionState, At, SessionLabels
<1>. QED
  BY <1>2, <1>3, <1>4, <1>5
  DEF Step, BeginFails, BeginInserts, BeginCollides, Consume, ExchangeFails,
      RegisterFails, RejectSession, ServeSession, Relookup, Capture,
      OperationReturns, CheckLeave, Invalidate, Deactivate, KeepDrafts

LEMMA LifecycleStep ==
  ASSUME Owned, Bounded', NEW t \in Threads, Step(t)
  PROVE  Lifecycle!Next \/ UNCHANGED stages
<1>1. ASSUME NEW s \in Sessions, NEW c \in Clients, NEW e \in TokenExpiries,
             NEW r \in BOOLEAN, Register(t, s, c, e, r)
      PROVE  Lifecycle!Next
  BY <1>1, LifecycleRegister
<1>2. CASE Invalidate(t)
  <2> DEFINE s == thread[t].subject
  <2>1. /\ s \in Sessions /\ Allocated(s)
        /\ registered' = registered \ {s} /\ session' = session
    BY <1>2
    DEF Invalidate, Owned, Typed, HasSubject, SubjectsAllocated, At, SessionLabels
  <2>2. CASE s \notin registered
    <3>1. registered' = registered
      BY <2>1, <2>2
    <3>. QED  BY <2>1, <3>1, SameStages DEF Allocated
  <2>3. CASE s \in registered
    <3>1. stages[s] = "listed" /\ session[s].active
      BY <2>1, <2>3 DEF stages, Stage, Owned, NobodyForgotten, Live
    <3>2. stages' = [stages EXCEPT ![s] = "condemned"]
      BY <2>1, <3>1 DEF stages, Stage, Allocated
    <3>3. Lifecycle!Condemn(s)
      BY <3>1, <3>2 DEF Lifecycle!Condemn, stages
    <3>. QED  BY <2>1, <3>3 DEF Lifecycle!Next
  <2>. QED  BY <2>2, <2>3
<1>3. CASE At(t, "teardown")
  <2>1. PICK s \in Sessions : Deactivate(t, s) /\ s \notin registered /\ Allocated(s)
    BY <1>3, Deactivates
  <2>2. \A x \in Sessions : Ages(x)
    BY <1>3, HeapEffect DEF Register, At
  <2>3. /\ registered' = registered
        /\ \A x \in Sessions \ {s} : session'[x] = session[x]
        /\ ~session'[s].active /\ session'[s].client # None
    <3>1. session \in [Sessions -> SessionState]
      BY DEF Owned, Typed, TypeOK
    <3>2. ~session'[s].active /\ \A x \in Sessions \ {s} : session'[x] = session[x]
      BY <2>1, <3>1 DEF Deactivate, TornDown, SessionState
    <3>. QED  BY <2>1, <2>2, <3>2 DEF Deactivate, Ages
  <2>4. CASE session[s].active
    <3>1. stages[s] = "condemned"
      BY <2>1, <2>4 DEF stages, Stage
    <3>2. Stage(s)' = "dead"
      BY <2>1, <2>3 DEF Stage, Allocated
    <3>3. \A x \in Sessions \ {s} : Stage(x)' = Stage(x)
      BY <2>3 DEF Stage, Allocated
    <3>4. stages' = [stages EXCEPT ![s] = "dead"]
      BY <3>2, <3>3 DEF stages
    <3>5. Lifecycle!Destroy(s)
      BY <3>1, <3>4 DEF Lifecycle!Destroy, stages
    <3>. QED  BY <3>5 DEF Lifecycle!Next
  <2>5. CASE ~session[s].active
    <3>1. \A x \in Sessions : /\ session'[x].active <=> session[x].active
                              /\ Allocated(x)' <=> Allocated(x)
      BY <2>1, <2>3, <2>5 DEF Allocated
    <3>. QED  BY <2>3, <3>1, SameStages
  <2>. QED  BY <2>4, <2>5
<1>4. ASSUME ~At(t, "teardown"), ~Invalidate(t),
             ~ \E s \in Sessions, c \in Clients, e \in TokenExpiries, r \in BOOLEAN :
                 Register(t, s, c, e, r)
      PROVE  UNCHANGED stages
  <2>1. registered' = registered
    BY <1>4
    DEF Step, BeginFails, BeginInserts, BeginCollides, Consume, ExchangeFails,
        RegisterFails, RejectSession, ServeSession, StartRefresh, RefreshFails,
        RefreshSucceeds, Relookup, Capture, OperationReturns, CheckLeave,
        Deactivate, AddDraft, DropDraft, KeepDrafts
  <2>2. \A s \in Sessions : Ages(s)
    BY <1>4, HeapEffect
  <2>3. ASSUME NEW s \in Sessions PROVE session'[s].active = session[s].active
    BY <1>4, SameActivity
  <2>. QED  BY <2>1, <2>2, <2>3, SameStages DEF Ages, Allocated
<1>. QED  BY <1>1, <1>2, <1>3, <1>4

(* Every grant, withdrawal and teardown of the broker is a step of the     *)
(* lifecycle it promises: nobody returns from a later stage to an earlier  *)
(* one, and the listed sessions never exceed the capacity.                 *)
THEOREM ImplementsLifecycleSteps ==
  Spec => Lifecycle!Init /\ [][Lifecycle!Next]_stages
<1>1. Init => Lifecycle!Init
  BY DEF Init, Lifecycle!Init, stages, Stage, Allocated, Unallocated
<1>2. ASSUME Owned, Steady', [Next]_vars
      PROVE  [Lifecycle!Next]_stages
  <2>1. CASE UNCHANGED <<registered, session>>
    BY <2>1, SameStages DEF Allocated
  <2>2. ASSUME NEW t \in Threads, Arrive(t)
        PROVE  UNCHANGED <<registered, session>>
    BY <1>2, <2>2, ArriveEffect
  <2>3. ASSUME NEW t \in Threads, Step(t)
        PROVE  [Lifecycle!Next]_stages
    BY <1>2, <2>3, LifecycleStep DEF Steady
  <2>. QED  BY <1>2, <2>1, <2>2, <2>3 DEF Next, Tick, Quiet, vars
<1>. QED  BY <1>1, <1>2, AlwaysOwned, AlwaysSteady, PTL DEF Spec

=============================================================================
