------------------------ MODULE OperationsWorkspace ------------------------
(***************************************************************************)
(* Studio's handlers for users and roles, workflow runs and tasks, and     *)
(* quota plans (internal/server/identity.go, operations.go) between        *)
(* browsers and the provider.  All three families follow one protocol: the *)
(* idempotency key belongs to the whole submitted form, the version is the *)
(* one the form carries, every error that the provider answers with is     *)
(* shown with lists that are read again, and the key is given up only      *)
(* after a success.  Requests of one session and of several interleave     *)
(* between the draft operations and around the provider's answer, which    *)
(* may be an error, may be lost or may come late.                          *)
(*                                                                         *)
(* The provider is AtomicProvider; what other providers refuse by policy,  *)
(* and the errors of a provider that fails, are steps of this module.      *)
(* Sessions only end here; form parsing, CSRF, roles and the typed         *)
(* confirmation come before the first step.                                *)
(***************************************************************************)
EXTENDS ProviderStore

CONSTANTS
  Tabs,       \* requests that Studio serves at the same time
  Sessions,   \* signed-in sessions
  Forms,      \* what browsers submit
  MaxDrafts   \* maxSessionDrafts

VARIABLES
  active,     \* sessions that have not been torn down
  keys,       \* the idempotency keys in a session's drafts, by form
  issued,     \* the form that a key was drawn for
  tab,        \* the handler that serves a request, or the page it left
  data, exchange, heard  \* the provider

session == <<active, keys, issued>>
provider == <<data, exchange, heard>>
vars == <<session, tab, provider>>

Provider == INSTANCE AtomicProvider WITH
  Callers <- Tabs, Requests <- {request \in Request : WellFormed(request)}

-----------------------------------------------------------------------------

Identity == {"create-user", "status", "assign", "revoke", "create-role",
             "rename-role"}
Workflow == {"cancel", "retry"}
Quota == {"publish"}

(* A form is a request without its key; all forms that get past the first  *)
(* checks carry their confirmation, and those that create a user or a role *)
(* carry no version.                                                       *)
ASSUME FormAssumption ==
  \A form \in Forms :
    /\ form \in Request
    /\ form.kind \in Identity \cup Workflow \cup Quota
    /\ form.target \in TargetsOf(form.kind)
    /\ form.detail \in DetailsOf(form.kind)
    /\ form.key = None
    /\ form.confirmed
    /\ form.kind \in {"create-user", "create-role"} => form.expected = 0

ASSUME WorkspaceNames ==
  None \notin Tabs \cup Sessions \cup Forms /\ MaxDrafts \in Nat

Labels == {"idle", "find", "key", "call", "wait", "reload", "drop key"}

(* A page that says nothing of the outcome; a redirect to the updated      *)
(* list; or the list with the message of an error: the version conflict    *)
(* (409), any other refusal (401, 403, 404, a 409 of policy), and a        *)
(* failure of the provider (500, 503), which the operator reads there.     *)
Pages == {"none", "done", "conflict", "rejected", "failed"}

Draft == [form : Forms, key : Keys]

(* shown is the version that the list on a page with a message displays    *)
(* for the target.  seen is auxiliary, no step reads it: the form rested   *)
(* on what a list displayed when it was submitted.                         *)
Tab == [label : Labels, session : Sessions \cup {None}, form : Forms \cup {None},
        key : Keys \cup {None}, seen : BOOLEAN, page : Pages, shown : Nat]

Idle == [label |-> "idle", session |-> None, form |-> None, key |-> None,
         seen |-> FALSE, page |-> "none", shown |-> 0]

(* Types, the bound of the drafts, and no drafts without a session.        *)
TypeOK ==
  /\ active \subseteq Sessions
  /\ keys \in [Sessions -> SUBSET Draft]
  /\ issued \in [Keys -> Forms \cup {None}]
  /\ tab \in [Tabs -> Tab]
  /\ data \in State
  /\ \A s \in Sessions : Cardinality(keys[s]) <= MaxDrafts
  /\ \A s \in Sessions \ active : keys[s] = {}

Init ==
  /\ active = Sessions
  /\ keys = [s \in Sessions |-> {}]
  /\ issued = [k \in Keys |-> None]
  /\ tab = [t \in Tabs |-> Idle]
  /\ Provider!Init

-----------------------------------------------------------------------------

At(t, label) == tab[t].label = label

Goto(t, label) == tab' = [tab EXCEPT ![t].label = label]

(* The handler returns with a page that says nothing of the outcome.       *)
Return(t) == tab' = [tab EXCEPT ![t] = Idle]

(* The handler returns with a page about the form and its key.             *)
Report(t, page, version) ==
  tab' = [tab EXCEPT ![t] =
            [Idle EXCEPT !.form = tab[t].form, !.key = tab[t].key,
                         !.seen = tab[t].seen, !.page = page, !.shown = version]]

(* An error that has a status and a message goes to the reread list.       *)
Refused(t, page) ==
  tab' = [tab EXCEPT ![t].label = "reload", ![t].page = page]

(* The version of what a form is about.                                    *)
Basis(form) ==
  CASE form.kind \in {"create-user", "status", "assign", "revoke"} ->
         data.users[form.target].version
    [] form.kind \in {"create-role", "rename-role"} ->
         data.roles[form.target].version
    [] form.kind = "cancel"  -> data.run.version
    [] form.kind = "retry"   -> data.task.version
    [] form.kind = "publish" -> data.plan.version

(* The form rests on what the lists display: users, roles, runs, tasks and *)
(* plans that exist, in a version that was read.  A browser may submit any *)
(* other form: the version and the limits of a plan are free input fields, *)
(* and no handler compares a form with a list.                             *)
Displayed(form) ==
  /\ form.expected <= Basis(form)
  /\ form.kind \notin {"create-user", "create-role"} => Basis(form) # 0
  /\ form.kind \in {"assign", "revoke"} => data.roles[form.detail].version # 0

-----------------------------------------------------------------------------
(* Requests arrive *)

(* No handler is at work, and no call of an earlier one is still under way.*)
Available(t) == At(t, "idle") /\ exchange[t] = Provider!Nothing

Submit(t, s, form) ==
  /\ Available(t)
  /\ s \in active
  /\ tab' = [tab EXCEPT ![t] =
               [Idle EXCEPT !.label = IF form.kind = "rename-role" THEN "find"
                                      ELSE "key",
                            !.session = s, !.form = form,
                            !.seen = Displayed(form)]]
  /\ UNCHANGED <<session, provider>>

(* Any step may meet a session that was torn down, a provider that cannot  *)
(* be reached or a cancelled request; the search for a role may find none, *)
(* the draft map may be full, and reading the lists again may fail.        *)
Fail(t) ==
  /\ tab[t].label \in {"find", "key", "call", "reload"}
  /\ Return(t)
  /\ UNCHANGED <<session, provider>>

(* findIdentityRole: a custom role of this key exists.                     *)
FindRole(t) ==
  LET role == tab[t].form.target IN
  /\ At(t, "find")
  /\ data.roles[role].version # 0
  /\ role \notin SystemRoles
  /\ Goto(t, "key")
  /\ UNCHANGED <<session, provider>>

(* A system role is shown with the list, before a key is drawn.            *)
RefuseSystemRole(t) ==
  LET role == tab[t].form.target IN
  /\ At(t, "find")
  /\ data.roles[role].version # 0
  /\ role \in SystemRoles
  /\ Refused(t, "rejected")
  /\ UNCHANGED <<session, provider>>

-----------------------------------------------------------------------------
(* Drafts *)

(* Mutant: the key belongs to the kind and the target of a form.           *)
KeptByTarget(s, form) ==
  {draft \in keys[s] : /\ draft.form.kind = form.kind
                       /\ draft.form.target = form.target}

(* The scope of a key is the action with a hash of the whole form.         *)
Kept(s, form) == {draft \in keys[s] : draft.form = form}

(* Mutant: the session is trusted since it was looked up.                  *)
LiveAtLookup(s) == TRUE

(* A draft operation or a call finds the session as it is now.             *)
Live(s) == s \in active

DraftKey(t) ==
  LET s == tab[t].session  form == tab[t].form  kept == Kept(s, form) IN
  /\ At(t, "key")
  /\ Live(s)
  /\ \/ /\ kept # {}
        /\ tab' = [tab EXCEPT ![t].label = "call",
                              ![t].key = (CHOOSE draft \in kept : TRUE).key]
        /\ UNCHANGED <<keys, issued>>
     \/ /\ kept = {}
        /\ Cardinality(keys[s]) < MaxDrafts
        /\ \E key \in {k \in Keys : issued[k] = None} :
             /\ keys' = [keys EXCEPT ![s] = @ \cup {[form |-> form, key |-> key]}]
             /\ issued' = [issued EXCEPT ![key] = form]
             /\ tab' = [tab EXCEPT ![t].label = "call", ![t].key = key]
  /\ UNCHANGED <<active, provider>>

(* After a success the key is given up and the browser sent to the list.   *)
ClearDraft(t) ==
  LET s == tab[t].session IN
  /\ At(t, "drop key")
  /\ keys' = [keys EXCEPT ![s] = @ \ Kept(s, tab[t].form)]
  /\ Report(t, "done", 0)
  /\ UNCHANGED <<active, issued, provider>>

-----------------------------------------------------------------------------
(* The provider *)

(* Mutant: the version is read again for the call.                         *)
RequestForAfresh(request) ==
  [request.form EXCEPT !.key = request.key, !.expected = Basis(request.form)]

RequestFor(request) == [request.form EXCEPT !.key = request.key]

Call(t) ==
  /\ At(t, "call")
  /\ Live(tab[t].session)
  /\ Provider!Ask(t, RequestFor(tab[t]))
  /\ Goto(t, "wait")
  /\ UNCHANGED session

Perform(t) ==
  /\ Provider!Perform(t)
  /\ UNCHANGED <<session, tab>>

(* Mutant: an error is taken for a success.                                *)
ReceiveUnchecked(t) ==
  /\ At(t, "wait")
  /\ Provider!Tell(t)
  /\ Goto(t, "drop key")
  /\ UNCHANGED session

Receive(t) ==
  LET status == exchange[t].answer.status IN
  /\ At(t, "wait")
  /\ Provider!Tell(t)
  /\ IF status = "ok" THEN Goto(t, "drop key")
     ELSE Refused(t, IF status = "conflict" THEN "conflict" ELSE "rejected")
  /\ UNCHANGED session

(* A provider that checks more than the reference provider does refuses    *)
(* the request without effect: the token, a permission, a policy such as   *)
(* the last administrator's.  The key has no result and may be accepted    *)
(* another time.                                                           *)
Reject(t) ==
  /\ At(t, "wait")
  /\ exchange[t].stage = "asked"
  /\ Provider!GiveUp({t})
  /\ Refused(t, "rejected")
  /\ UNCHANGED session

(* Mutant: a failure of the provider is shown as a version conflict.       *)
FaultAsConflict(t) ==
  /\ At(t, "wait")
  /\ Refused(t, "conflict")
  /\ UNCHANGED <<session, provider>>

(* The provider, or what stands before it, answers with 500 or 503.  The   *)
(* request has taken effect when only the commit's outcome was lost, or    *)
(* still may; it is shown with the list like a refusal.                    *)
Fault(t) ==
  /\ At(t, "wait")
  /\ Refused(t, "failed")
  /\ UNCHANGED <<session, provider>>

(* No usable answer: the call failed, timed out or was cancelled.  Studio  *)
(* cannot tell whether it took effect or still will, and says so.          *)
Lose(t) ==
  /\ At(t, "wait")
  /\ Return(t)
  /\ UNCHANGED <<session, provider>>

(* A call that nobody waits for ends.                                      *)
Abandon(t) ==
  /\ tab[t].label \in {"idle", "reload"}
  /\ exchange[t] # Provider!Nothing
  /\ Provider!GiveUp({t})
  /\ UNCHANGED <<session, tab>>

(* Mutant: the page shows what the browser sent.                           *)
ReloadFromForm(t) ==
  /\ At(t, "reload")
  /\ Live(tab[t].session)
  /\ Report(t, tab[t].page, tab[t].form.expected)
  /\ UNCHANGED <<session, provider>>

(* The message is shown in lists that are read again after the answer.     *)
Reload(t) ==
  /\ At(t, "reload")
  /\ Live(tab[t].session)
  /\ Report(t, tab[t].page, Basis(tab[t].form))
  /\ UNCHANGED <<session, provider>>

-----------------------------------------------------------------------------

(* Logout, tenant switch, expiry or eviction.                              *)
Teardown(s) ==
  /\ s \in active
  /\ active' = active \ {s}
  /\ keys' = [keys EXCEPT ![s] = {}]
  /\ UNCHANGED <<issued, tab, provider>>

Step(t) ==
  \/ Fail(t)
  \/ FindRole(t)
  \/ RefuseSystemRole(t)
  \/ DraftKey(t)
  \/ ClearDraft(t)
  \/ Call(t)
  \/ Perform(t)
  \/ Receive(t)
  \/ Reject(t)
  \/ Fault(t)
  \/ Lose(t)
  \/ Abandon(t)
  \/ Reload(t)

Next ==
  \/ \E t \in Tabs, s \in Sessions, form \in Forms : Submit(t, s, form)
  \/ \E t \in Tabs : Step(t)
  \/ \E s \in Sessions : Teardown(s)

Spec == Init /\ [][Next]_vars

-----------------------------------------------------------------------------
(* Properties *)

(* A page that reports success is about a change that is durable, and the  *)
(* provider made it for this very form: a retry after a lost answer, or a  *)
(* key that is still in the drafts, never passes one form's result off for *)
(* another's (identity.go identityBasis).                                  *)
DoneMeansStored ==
  \A t \in Tabs :
    tab[t].page = "done" =>
      /\ data.results[tab[t].key].target = tab[t].form.target
      /\ data.results[tab[t].key].detail = tab[t].form.detail
      /\ \E i \in DOMAIN data.audits :
           /\ data.audits[i].key = tab[t].key
           /\ data.audits[i].action = tab[t].form.kind
           /\ data.audits[i].target = tab[t].form.target

(* A page that reports a version conflict on a form that rested on what a  *)
(* list displayed is about a form that did not take effect, and no late or *)
(* repeated call under its key makes it take effect afterwards: versions   *)
(* do not come back.  A failure, a refusal by policy and a conflict on a   *)
(* version that was typed ahead of the plan's promise no such thing.       *)
RefusedMeansUntouched ==
  \A t \in Tabs :
    tab[t].page = "conflict" /\ tab[t].seen => data.results[tab[t].key] = None

(* The audit trail has a change that was made for the form.                *)
Applied(form) ==
  \E i \in DOMAIN data.audits :
    data.audits[i].key # None /\ issued[data.audits[i].key] = form

(* DEC-005: retry keys are stable.  Whatever a session is shown short of a *)
(* success - a conflict, a refusal, a failure or no outcome - its next try *)
(* of the form goes out under the same key; only a form that took effect   *)
(* gives its key up while the session lives.                               *)
FailuresKeepTheKey ==
  [][\A s \in active' : \A draft \in keys[s] \ keys'[s] : Applied(draft.form)]_vars

(* A form takes effect at most once, although it may be submitted again    *)
(* after its key was given up, by another tab, or by another session that  *)
(* displays the same version.                                              *)
FormsApplyOnce ==
  \A i, j \in DOMAIN data.audits :
    /\ data.audits[i].key # None
    /\ data.audits[j].key # None
    /\ issued[data.audits[i].key] = issued[data.audits[j].key]
    => i = j

(* DEC-005: a 409 reloads the current state so that the operator can       *)
(* reconcile.  The list on the page of a version conflict, which is read   *)
(* in a later call than the one that was refused, displays a version that  *)
(* is newer than the submitted one, if that was one a list displayed.      *)
ConflictShowsCurrent ==
  \A t \in Tabs :
    At(t, "idle") /\ tab[t].page = "conflict" /\ tab[t].seen =>
      tab[t].shown > tab[t].form.expected

(* The audit trail accounts for every version: a resource has been         *)
(* accepted a mutation for each step of its version, and a retry of a task *)
(* is a step of its run too (localprovider/operations.go).                 *)
AuditTellsVersions ==
  LET recorded(kinds, target) ==
        Cardinality({i \in DOMAIN data.audits :
                       /\ data.audits[i].action \in kinds
                       /\ data.audits[i].target = target})
  IN
  /\ \A u \in Users :
       data.users[u].version =
         initialState.users[u].version
           + recorded({"create-user", "status", "assign", "revoke"}, u)
  /\ \A r \in Roles :
       data.roles[r].version =
         initialState.roles[r].version
           + recorded({"create-role", "rename-role"}, r)
  /\ data.task.version = 1 + recorded({"retry"}, "task")
  /\ data.run.version =
       1 + recorded({"retry"}, "task") + recorded({"cancel"}, "run")
  /\ data.plan.version = 1 + recorded({"publish"}, "quota")
=============================================================================
