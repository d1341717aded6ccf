------------------------- MODULE MetadataWorkspace -------------------------
(***************************************************************************)
(* Studio's metadata handlers (internal/server) between browsers and the   *)
(* provider: guarded saves, reviewed deletions and reviewed migrations.    *)
(* Every handler runs in its own goroutine and enters the session's mutex  *)
(* anew for each draft operation, so the requests of one session interleave*)
(* between those operations and around the calls to the provider.  An      *)
(* answer may be lost, and a call that Studio has given up may take effect *)
(* all the same, before or after the operator tries again.                 *)
(*                                                                         *)
(* The provider is AtomicProvider.  The life of sessions is SessionBroker; *)
(* here a session only ends.  Form parsing, CSRF and role checks come      *)
(* before the first step and change nothing.                               *)
(***************************************************************************)
EXTENDS ProviderStore

CONSTANTS
  Tabs,        \* requests that Studio serves at the same time
  Sessions,    \* signed-in sessions
  References,  \* draft references that random can return
  Forms,       \* what browsers submit: operation, target, version and detail
  MaxDrafts    \* maxSessionDrafts

VARIABLES
  active,    \* sessions that have not been torn down
  keys,      \* the idempotency keys in a session's drafts, by scope
  stored,    \* the references of the plans in a session's drafts
  plan,      \* what a reference names
  issued,    \* the keys that were ever drawn, with their session and scope
  tab,       \* the handler that serves a request
  data, exchange, heard  \* the provider

session == <<active, keys, stored, plan, issued>>
provider == <<data, exchange, heard>>
vars == <<session, tab, provider>>

Provider == INSTANCE AtomicProvider WITH
  Callers <- Tabs, Requests <- {request \in Request : WellFormed(request)}

-----------------------------------------------------------------------------

Saves == {"update", "create"}
Planned == [delete |-> "plan-delete", migrate |-> "plan-migrate"]
Applies == DOMAIN Planned
Plans == {Planned[op] : op \in Applies}
Operations == Saves \cup Plans \cup Applies

Labels == {"idle", "find", "load", "key", "call", "wait", "refetch", "store",
           "drop plan", "drop plan key", "drop key"}

(* What a page reports as done; reviews, conflicts and errors report none. *)
Pages == {"none", "saved", "deleted", "applied"}

Scope == [op : Operations, target : Entities \cup {None}, version : Nat,
          reference : References \cup {None}]

Draft == [scope : Scope, key : Keys]

(* A reviewed plan: an entity, its version, the scope of its own key.      *)
Plan == [session : Sessions, op : Plans, target : Entities, version : Nat]

Tab == [label : Labels, session : Sessions \cup {None}, op : Operations \cup {None},
        target : Entities \cup {None}, version : Nat,
        detail : Details \cup {None}, reference : References \cup {None},
        key : Keys \cup {None}, page : Pages]

ASSUME FormAssumption ==
  /\ Forms \subseteq [op : Saves \cup Plans, target : Entities, version : Nat,
                      detail : Details \cup {None}]
  /\ \A form \in Forms : form.op \in Saves => form.detail \in Details
  /\ \A form \in Forms : form.op = "create" => form.version = 0

ASSUME WorkspaceNames ==
  None \notin Tabs \cup Sessions \cup References \cup Plan /\ MaxDrafts \in Nat

Idle == [label |-> "idle", session |-> None, op |-> None, target |-> None,
         version |-> 0, detail |-> None, reference |-> None, key |-> None,
         page |-> "none"]

Drafts(s) == Cardinality(keys[s]) + Cardinality(stored[s])

TypeOK ==
  /\ active \subseteq Sessions
  /\ keys \in [Sessions -> SUBSET Draft]
  /\ stored \in [Sessions -> SUBSET References]
  /\ plan \in [References -> Plan \cup {None}]
  /\ issued \subseteq [session : Sessions, scope : Scope, key : Keys]
  /\ tab \in [Tabs -> Tab]
  /\ data \in State
  /\ \A s \in Sessions : Drafts(s) <= MaxDrafts

Init ==
  /\ active = Sessions
  /\ keys = [s \in Sessions |-> {}]
  /\ stored = [s \in Sessions |-> {}]
  /\ plan = [r \in References |-> None]
  /\ issued = {}
  /\ tab = [t \in Tabs |-> Idle]
  /\ Provider!Init

-----------------------------------------------------------------------------

At(t, label) == tab[t].label = label

Goto(t, label) == tab' = [tab EXCEPT ![t].label = label]

(* The handler returns with a page that reports nothing as done.           *)
Return(t) == tab' = [tab EXCEPT ![t] = Idle]

(* A page that reports a change names the request and its key.             *)
Report(t) ==
  tab' = [tab EXCEPT ![t] =
            IF @.page = "none" THEN Idle
            ELSE [Idle EXCEPT !.page = tab[t].page, !.target = tab[t].target,
                              !.detail = tab[t].detail, !.key = tab[t].key]]

(* The page is decided; drafts are disposed of before it is written.       *)
Dispose(t, label, page) ==
  tab' = [tab EXCEPT ![t].label = label, ![t].page = page]

(* Mutant: the scope names the entity and not the operation on it.         *)
ScopeByEntity(request) ==
  [op |-> "update", target |-> request.target, version |-> request.version,
   reference |-> None]

(* The mutation basis that an idempotency key belongs to.                  *)
ScopeOf(request) ==
  IF request.op \in Applies
  THEN [op |-> request.op, target |-> None, version |-> 0,
        reference |-> request.reference]
  ELSE [op |-> request.op, target |-> request.target,
        version |-> request.version, reference |-> None]

PlanScope(reference) ==
  [op |-> plan[reference].op, target |-> plan[reference].target,
   version |-> plan[reference].version, reference |-> None]

(* A draft operation on a session that was torn down does nothing.         *)
WithoutKey(s, scope) ==
  [keys EXCEPT ![s] = {draft \in @ : draft.scope # scope}]

-----------------------------------------------------------------------------
(* Requests arrive *)

(* No handler is at work, and no call of an earlier one is still under way.*)
Available(t) == At(t, "idle") /\ exchange[t] = Provider!Nothing

Submit(t, s, form) ==
  /\ Available(t)
  /\ s \in active
  /\ tab' = [tab EXCEPT ![t] =
               [Idle EXCEPT !.label = IF form.op \in Plans THEN "find" ELSE "key",
                            !.session = s, !.op = form.op, !.target = form.target,
                            !.version = form.version, !.detail = form.detail]]
  /\ UNCHANGED <<session, provider>>

(* A browser submits the reference of a plan that it was shown.            *)
SubmitApply(t, s, op, reference) ==
  /\ Available(t)
  /\ s \in active
  /\ plan[reference] # None
  /\ tab' = [tab EXCEPT ![t] =
               [Idle EXCEPT !.label = "load", !.session = s, !.op = op,
                            !.reference = reference]]
  /\ UNCHANGED <<session, provider>>

-----------------------------------------------------------------------------
(* Drafts *)

(* Any step before the call may meet a session that was torn down, a full  *)
(* draft map, no randomness or a cancelled request.                        *)
Fail(t) ==
  /\ tab[t].label \in {"find", "key", "call", "refetch", "store"}
  /\ Return(t)
  /\ UNCHANGED <<session, provider>>

DraftKey(t) ==
  LET s     == tab[t].session
      scope == ScopeOf(tab[t])
      kept  == {draft \in keys[s] : draft.scope = scope}
      fresh == Keys \ {i.key : i \in issued}
  IN
  /\ At(t, "key")
  /\ s \in active
  /\ \E key \in IF kept # {} THEN {draft.key : draft \in kept} ELSE fresh :
       /\ kept = {} => Drafts(s) < MaxDrafts
       /\ keys' = [keys EXCEPT ![s] = @ \cup {[scope |-> scope, key |-> key]}]
       /\ issued' = issued \cup {[session |-> s, scope |-> scope, key |-> key]}
       /\ tab' = [tab EXCEPT ![t].label = "call", ![t].key = key]
  /\ UNCHANGED <<active, stored, plan, provider>>

(* Mutant: the limit is not checked.                                       *)
StoreDraftUnbounded(t) ==
  LET s == tab[t].session IN
  /\ At(t, "store")
  /\ s \in active
  /\ \E reference \in {r \in References : plan[r] = None} :
       /\ stored' = [stored EXCEPT ![s] = @ \cup {reference}]
       /\ plan' = [plan EXCEPT ![reference] =
                     [session |-> s, op |-> tab[t].op, target |-> tab[t].target,
                      version |-> tab[t].version]]
  /\ Return(t)
  /\ UNCHANGED <<active, keys, issued, provider>>

StoreDraft(t) ==
  LET s == tab[t].session IN
  /\ At(t, "store")
  /\ s \in active
  /\ Drafts(s) < MaxDrafts
  /\ \E reference \in {r \in References : plan[r] = None} :
       /\ stored' = [stored EXCEPT ![s] = @ \cup {reference}]
       /\ plan' = [plan EXCEPT ![reference] =
                     [session |-> s, op |-> tab[t].op, target |-> tab[t].target,
                      version |-> tab[t].version]]
  /\ Return(t)
  /\ UNCHANGED <<active, keys, issued, provider>>

(* Mutant: the entity is read again and its current version deleted.       *)
LoadDraftAfresh(t) ==
  LET reviewed == plan[tab[t].reference] IN
  /\ At(t, "load")
  /\ tab[t].reference \in stored[tab[t].session]
  /\ reviewed.op = Planned[tab[t].op]
  /\ tab' = [tab EXCEPT ![t].label = "key", ![t].target = reviewed.target,
                        ![t].version = data.entities[reviewed.target].version]
  /\ UNCHANGED <<session, provider>>

(* The confirmed plan is the basis of the call, whatever changed since.    *)
LoadDraft(t) ==
  LET reviewed == plan[tab[t].reference] IN
  /\ At(t, "load")
  /\ tab[t].reference \in stored[tab[t].session]
  /\ reviewed.op = Planned[tab[t].op]
  /\ tab' = [tab EXCEPT ![t].label = "key", ![t].target = reviewed.target,
                        ![t].version = reviewed.version]
  /\ UNCHANGED <<session, provider>>

(* The plan was used, belongs to another session or to another operation;  *)
(* a confirmation that is not typed exactly ends the request as well.      *)
RejectDraft(t) ==
  /\ At(t, "load")
  /\ Return(t)
  /\ UNCHANGED <<session, provider>>

DropPlan(t) ==
  /\ At(t, "drop plan")
  /\ stored' = [stored EXCEPT ![tab[t].session] = @ \ {tab[t].reference}]
  /\ Goto(t, "drop plan key")
  /\ UNCHANGED <<active, keys, plan, issued, provider>>

DropPlanKey(t) ==
  /\ At(t, "drop plan key")
  /\ keys' = WithoutKey(tab[t].session, PlanScope(tab[t].reference))
  /\ Goto(t, "drop key")
  /\ UNCHANGED <<active, stored, plan, issued, provider>>

ClearDraft(t) ==
  /\ At(t, "drop key")
  /\ keys' = WithoutKey(tab[t].session, ScopeOf(tab[t]))
  /\ Report(t)
  /\ UNCHANGED <<active, stored, plan, issued, provider>>

-----------------------------------------------------------------------------
(* The provider *)

(* findEntity: the version of the entity at some moment of the call.       *)
FindEntity(t) ==
  LET version == data.entities[tab[t].target].version IN
  /\ At(t, "find")
  /\ version # 0
  /\ tab' = [tab EXCEPT ![t].label = "key", ![t].version = version]
  /\ UNCHANGED <<session, provider>>

RequestFor(request) ==
  LET put    == request.op \in Saves
      delete == request.op \in {"plan-delete", "delete"}
  IN
  [kind      |-> IF put THEN "put" ELSE IF delete THEN request.op ELSE "migrate",
   key       |-> request.key,
   target    |-> IF put \/ delete THEN request.target ELSE None,
   expected  |-> request.version,
   detail    |-> IF put THEN request.detail ELSE None,
   confirmed |-> request.op \in Applies]

Call(t) ==
  /\ At(t, "call")
  /\ tab[t].session \in active
  /\ Provider!Ask(t, RequestFor(tab[t]))
  /\ Goto(t, "wait")
  /\ UNCHANGED session

Perform(t) ==
  /\ Provider!Perform(t)
  /\ UNCHANGED <<session, tab>>

(* What a handler makes of an answer.                                      *)
AfterSave(t, status) ==
  CASE status = "ok"       -> Dispose(t, "drop key", "saved")
    [] status = "conflict" -> Goto(t, "refetch")
    [] OTHER               -> Return(t)

AfterPlan(t, status) ==
  IF status # "ok" THEN Return(t)
  ELSE \/ Goto(t, "store")
       \/ tab[t].op = "plan-delete" /\ Goto(t, "drop key")

AfterApply(t, status) ==
  CASE status = "ok" ->
         Dispose(t, "drop plan", IF tab[t].op = "delete" THEN "deleted" ELSE "applied")
    [] status = "conflict" -> Goto(t, "drop plan")
    [] OTHER               -> Return(t)

Receive(t) ==
  LET status == exchange[t].answer.status IN
  /\ At(t, "wait")
  /\ Provider!Tell(t)
  /\ CASE tab[t].op \in Saves   -> AfterSave(t, status)
       [] tab[t].op \in Plans   -> AfterPlan(t, status)
       [] tab[t].op \in Applies -> AfterApply(t, status)
  /\ UNCHANGED session

(* No usable answer: the call failed, timed out or was cancelled.  Studio  *)
(* cannot tell whether it took effect or still will.                       *)
Lose(t) ==
  /\ At(t, "wait")
  /\ Return(t)
  /\ UNCHANGED <<session, provider>>

(* A call that nobody waits for ends.                                      *)
Abandon(t) ==
  /\ At(t, "idle")
  /\ exchange[t] # Provider!Nothing
  /\ Provider!GiveUp({t})
  /\ UNCHANGED <<session, tab>>

(* A conflict is shown with the current entity, which is read again.       *)
Refetch(t) ==
  /\ At(t, "refetch")
  /\ data.entities[tab[t].target].version # 0
  /\ Return(t)
  /\ UNCHANGED <<session, provider>>

-----------------------------------------------------------------------------

(* Logout, tenant switch, expiry or eviction.                              *)
Teardown(s) ==
  /\ s \in active
  /\ active' = active \ {s}
  /\ keys' = [keys EXCEPT ![s] = {}]
  /\ stored' = [stored EXCEPT ![s] = {}]
  /\ UNCHANGED <<plan, issued, tab, provider>>

Step(t) ==
  \/ Fail(t)
  \/ DraftKey(t)
  \/ StoreDraft(t)
  \/ LoadDraft(t)
  \/ RejectDraft(t)
  \/ DropPlan(t)
  \/ DropPlanKey(t)
  \/ ClearDraft(t)
  \/ FindEntity(t)
  \/ Call(t)
  \/ Perform(t)
  \/ Receive(t)
  \/ Lose(t)
  \/ Abandon(t)
  \/ Refetch(t)

Next ==
  \/ \E t \in Tabs, s \in Sessions :
       \/ \E form \in Forms : Submit(t, s, form)
       \/ \E op \in Applies, reference \in References :
            SubmitApply(t, s, op, reference)
  \/ \E t \in Tabs : Step(t)
  \/ \E s \in Sessions : Teardown(s)

Spec == Init /\ [][Next]_vars

-----------------------------------------------------------------------------
(* Properties *)

(* Whatever interleaves, the provider only ever changed an entity on the   *)
(* version that the operator of the same session based the change on: the  *)
(* version in the submitted form, or the one in the plan that this session *)
(* reviewed (DEC-003, DEC-008).                                            *)
ChangesFollowReview ==
  \A i \in DOMAIN data.audits :
    LET record == data.audits[i] IN
    /\ record.action = "put" =>
         \E draw \in issued :
           /\ draw.key = record.key
           /\ draw.scope.op \in Saves
           /\ draw.scope.target = record.target
           /\ draw.scope.version = record.version - 1
    /\ record.action = "delete" =>
         \E draw \in issued :
           /\ draw.key = record.key
           /\ draw.scope.op = "delete"
           /\ plan[draw.scope.reference] =
                [session |-> draw.session, op |-> "plan-delete",
                 target |-> record.target, version |-> record.version]

(* A page that reports success is about a change that is durable and was   *)
(* made with the key of this very request: a lost answer, a retry or       *)
(* another operation on the same entity never passes for it.  What the     *)
(* change stored is not compared; see SavedMeansStored.                    *)
PagesTellTruth ==
  \A t \in Tabs :
    LET done(action) ==
          \E i \in DOMAIN data.audits :
            /\ data.audits[i].key = tab[t].key
            /\ data.audits[i].action = action
            /\ data.audits[i].target = tab[t].target
    IN
    /\ tab[t].page = "saved" => done("put")
    /\ tab[t].page = "deleted" => done("delete")

(* When Studio says that an entity was updated, the definition that the    *)
(* operator submitted is the one the provider stored for the request.      *)
SavedMeansStored ==
  \A t \in Tabs :
    tab[t].page = "saved" => data.results[tab[t].key].detail = tab[t].detail

(* Apply sends a stable server-held key (DEC-004): all applies of one plan *)
(* carry the same one, so that the provider can tell a repetition.         *)
StableApplyKey ==
  \A a, b \in issued :
    a.scope.op \in Applies /\ a.scope = b.scope => a.key = b.key
=============================================================================
