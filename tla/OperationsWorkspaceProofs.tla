--------------------- MODULE OperationsWorkspaceProofs ---------------------
(* Theorems about OperationsWorkspace for every value of its constants. *)
EXTENDS OperationsWorkspace, ProviderStoreProofs

USE WorkspaceNames

-----------------------------------------------------------------------------
(* What is known of a form, a handler and an exchange when the keys were   *)
(* drawn for the forms drawn[key] and the provider's data are state.       *)

Creations == {"create-user", "create-role"}

(* The version of what a form is about.                                    *)
VersionFor(form, state) == Version(state, form.kind, form.target)

(* The form rests on what the lists of this state display.                 *)
Founded(form, state) ==
  /\ form.expected <= VersionFor(form, state)
  /\ form.kind \notin Creations => VersionFor(form, state) # 0
  /\ form.kind \in {"assign", "revoke"} => state.roles[form.detail].version # 0

(* findIdentityRole turns system roles away.                               *)
Vetted(form) == form.kind = "rename-role" => form.target \notin SystemRoles

(* A request based on the version of the form was accepted.                *)
Overtaken(form, state) == form.expected < VersionFor(form, state)

(* The form of a key can never take effect under it again.                 *)
Barred(key, drawn, state) ==
  state.results[key] = None /\ Overtaken(drawn[key], state)

(* The request that Studio sends for a form.                               *)
Sent(form, key) == [form EXCEPT !.key = key]

(* A handler has the key that was drawn for its form, or none yet.         *)
Owns(q, drawn, state) ==
  /\ q.seen => q.form # None /\ Founded(q.form, state)
  /\ q.key # None => drawn[q.key] = q.form /\ q.form # None
  /\ q.label # "idle" => q.form # None /\ q.session # None
  /\ q.label \notin {"idle", "reload"} => q.page = "none"
  /\ q.label = "key" => Vetted(q.form)
  /\ q.label \in {"call", "wait", "drop key"} => q.key # None
  /\ q.page \in {"done", "conflict"} => q.key # None

(* A version conflict on a form that rested on what a list displayed.      *)
Outdated(q) == q.page = "conflict" /\ q.seen

(* What a handler has learned about its key.                               *)
Knows(q, drawn, state) ==
  /\ q.label = "drop key" \/ q.page = "done" => state.results[q.key] # None
  /\ Outdated(q) => Barred(q.key, drawn, state)
  /\ q.label = "idle" /\ Outdated(q) => q.form.expected < q.shown

(* An ok answer is the result of its key.                                  *)
Answered(key, answer, state) ==
  answer.status = "ok" => state.results[key] = answer

(* An exchange is about a key and the form it was drawn for.               *)
About(e, key, drawn, state) ==
  /\ drawn[key] # None
  /\ e.request = Sent(drawn[key], key)
  /\ \/ e.stage = "asked"
     \/ /\ e.stage = "performed"
        /\ e.answer \in Answer
        /\ Answered(key, e.answer, state)

Exchanged(e, drawn, state) ==
  e = Provider!Nothing \/ \E key \in Keys : About(e, key, drawn, state)

(* A handler waits for the answer to its own request, and one that does    *)
(* not accept a form that a list displayed bars it for good.               *)
Awaits(q, e, drawn, state) ==
  q.label = "wait" =>
    /\ e # Provider!Nothing
    /\ e.request = Sent(q.form, q.key)
    /\ q.seen /\ e.stage = "performed" /\ e.answer.status # "ok" =>
         Barred(q.key, drawn, state)

Handled(q, e, drawn, state) ==
  /\ Owns(q, drawn, state)
  /\ Knows(q, drawn, state)
  /\ Exchanged(e, drawn, state)
  /\ Awaits(q, e, drawn, state)

-----------------------------------------------------------------------------
(* The provider's books *)

(* Keys are drawn for any form but one on a system role.                   *)
KeysDrawn(drawn) == \A k \in Keys : drawn[k] # None => Vetted(drawn[k])

RecordOf(record, key, form) ==
  record.key = key /\ record.action = form.kind /\ record.target = form.target

(* A result and its record tell of the form that its key was drawn for.    *)
ResultsTold(drawn, state) ==
  \A k \in Keys :
    state.results[k] # None =>
      /\ drawn[k] # None
      /\ state.results[k].status = "ok"
      /\ state.results[k].target = drawn[k].target
      /\ state.results[k].detail = drawn[k].detail
      /\ \E i \in DOMAIN state.audits : RecordOf(state.audits[i], k, drawn[k])

(* The version that a recorded form was based on has passed.               *)
TrailPassed(drawn, state) ==
  \A i \in DOMAIN state.audits :
    LET key == state.audits[i].key IN
    key # None => drawn[key] # None /\ Overtaken(drawn[key], state)

(* No form was recorded twice.                                             *)
TrailOnce(drawn, state) ==
  \A i, j \in DOMAIN state.audits :
    /\ state.audits[i].key # None
    /\ state.audits[j].key # None
    /\ drawn[state.audits[i].key] = drawn[state.audits[j].key]
    => i = j

(* The records of the mutations of some kinds on a target.                 *)
Accepted(state, kinds, target) ==
  {i \in DOMAIN state.audits : /\ state.audits[i].action \in kinds
                               /\ state.audits[i].target = target}

Tally(state, kinds, target) == Cardinality(Accepted(state, kinds, target))

(* The trail accounts for every version.                                   *)
TrailTells(state) ==
  /\ \A u \in Users :
       state.users[u].version =
         initialState.users[u].version + Tally(state, UserKinds, u)
  /\ \A r \in Roles :
       state.roles[r].version =
         initialState.roles[r].version + Tally(state, RoleKinds, r)
  /\ state.task.version = 1 + Tally(state, {"retry"}, "task")
  /\ state.run.version =
       1 + Tally(state, {"retry"}, "task") + Tally(state, {"cancel"}, "run")
  /\ state.plan.version = 1 + Tally(state, {"publish"}, "quota")

Books(drawn, state) ==
  /\ KeysDrawn(drawn)
  /\ ResultsTold(drawn, state)
  /\ TrailPassed(drawn, state)
  /\ TrailOnce(drawn, state)
  /\ TrailTells(state)

-----------------------------------------------------------------------------
(* The inductive invariant *)

Typed ==
  /\ TypeOK
  /\ \A s \in Sessions : IsFiniteSet(keys[s])
  /\ exchange = [t \in Tabs |-> exchange[t]]

DraftsOwned ==
  \A s \in Sessions : \A draft \in keys[s] : issued[draft.key] = draft.form

Inv ==
  /\ Typed
  /\ DraftsOwned
  /\ Books(issued, data)
  /\ \A t \in Tabs : Handled(tab[t], exchange[t], issued, data)

-----------------------------------------------------------------------------
(* Forms and their requests *)

LEMMA FormTypes ==
  ASSUME NEW form \in Forms
  PROVE  /\ form \in Request
         /\ form.kind \in Identity \cup Workflow \cup Quota
         /\ form.kind \in Mutations /\ form.kind # "plan-delete"
         /\ form.kind \notin {"put", "delete"}
         /\ form.target \in TargetsOf(form.kind)
         /\ form.detail \in DetailsOf(form.kind)
         /\ form.expected \in Nat
         /\ form.confirmed
         /\ form.kind \in Creations => form.expected = 0
         /\ form # None
<1>1. /\ form \in Request
      /\ form.kind \in Identity \cup Workflow \cup Quota
      /\ form.target \in TargetsOf(form.kind)
      /\ form.detail \in DetailsOf(form.kind)
      /\ form.confirmed
      /\ form.kind \in Creations => form.expected = 0
  BY FormAssumption DEF Creations
<1>2. form.expected \in Nat
  BY <1>1 DEF Request
<1>3. /\ form.kind \in Mutations /\ form.kind # "plan-delete"
      /\ form.kind \notin {"put", "delete"}
  BY <1>1 DEF Identity, Workflow, Quota, Mutations, Confirmed
<1> QED BY <1>1, <1>2, <1>3

LEMMA SentTypes ==
  ASSUME NEW form \in Forms, NEW key \in Keys
  PROVE  /\ Sent(form, key) \in Request /\ WellFormed(Sent(form, key))
         /\ Sent(form, key).key = key
         /\ Sent(form, key).kind = form.kind
         /\ Sent(form, key).target = form.target
         /\ Sent(form, key).expected = form.expected
         /\ Sent(form, key).detail = form.detail
         /\ Sent(form, key).confirmed
<1>1. form \in Request
  BY FormTypes
<1>2. /\ Sent(form, key) \in Request
      /\ Sent(form, key).key = key
      /\ Sent(form, key).kind = form.kind
      /\ Sent(form, key).target = form.target
      /\ Sent(form, key).expected = form.expected
      /\ Sent(form, key).detail = form.detail
      /\ Sent(form, key).confirmed = form.confirmed
  BY <1>1 DEF Sent, Request
<1> QED BY <1>2, FormTypes DEF WellFormed

(* The families of resources that forms are about.                         *)
LEMMA VersionCases ==
  ASSUME NEW form \in Forms, NEW state
  PROVE  /\ form.kind \in UserKinds => /\ form.target \in Users
                                       /\ VersionFor(form, state) =
                                            state.users[form.target].version
         /\ form.kind \in RoleKinds => /\ form.target \in Roles
                                       /\ VersionFor(form, state) =
                                            state.roles[form.target].version
         /\ form.kind = "cancel" => /\ form.target = "run"
                                    /\ VersionFor(form, state) = state.run.version
         /\ form.kind = "retry" => /\ form.target = "task"
                                   /\ VersionFor(form, state) = state.task.version
         /\ form.kind = "publish" => /\ form.target = "quota"
                                     /\ VersionFor(form, state) = state.plan.version
         /\ form.kind \in UserKinds \cup RoleKinds \cup {"cancel", "retry", "publish"}
<1>1. form.target \in TargetsOf(form.kind)
  BY FormTypes
<1>2. form.kind \in UserKinds \cup RoleKinds \cup {"cancel", "retry", "publish"}
  BY FormTypes DEF Identity, Workflow, Quota, UserKinds, RoleKinds
<1>3. /\ form.kind \in UserKinds => form.target \in Users
      /\ form.kind \in RoleKinds => form.target \in Roles
      /\ form.kind = "cancel" => form.target = "run"
      /\ form.kind = "retry" => form.target = "task"
      /\ form.kind = "publish" => form.target = "quota"
  BY <1>1 DEF TargetsOf, UserKinds, RoleKinds
<1>4. /\ form.kind \in UserKinds =>
           VersionFor(form, state) = state.users[form.target].version
      /\ form.kind \in RoleKinds =>
           VersionFor(form, state) = state.roles[form.target].version
      /\ form.kind = "cancel" => VersionFor(form, state) = state.run.version
      /\ form.kind = "retry" => VersionFor(form, state) = state.task.version
      /\ form.kind = "publish" => VersionFor(form, state) = state.plan.version
  BY DEF VersionFor, Version, UserKinds, RoleKinds
<1> QED BY <1>2, <1>3, <1>4

LEMMA VersionForTypes ==
  ASSUME NEW form \in Forms, NEW state \in State
  PROVE  VersionFor(form, state) \in Nat
BY VersionCases, PartTypes, VersionTypes

(* What the lists display is what Founded says of the provider's data.     *)
LEMMA BasisIs ==
  ASSUME NEW form \in Forms
  PROVE  /\ Basis(form) = VersionFor(form, data)
         /\ Displayed(form) <=> Founded(form, data)
<1>1. Basis(form) = VersionFor(form, data)
  BY VersionCases DEF Basis, UserKinds, RoleKinds
<1> QED BY <1>1 DEF Displayed, Founded, Creations

(* A request that Studio sends is admitted only on the version of its      *)
(* form, and not admitted, when a list displayed the form, only if it has  *)
(* been overtaken.                                                         *)
LEMMA AdmittedIf ==
  ASSUME NEW form \in Forms, NEW key \in Keys, NEW state \in State,
         Vetted(form)
  PROVE  /\ Admits(state, Sent(form, key)) =>
              VersionFor(form, state) = form.expected
         /\ Founded(form, state) /\ ~Admits(state, Sent(form, key)) =>
              Overtaken(form, state)
<1> DEFINE request == Sent(form, key)
           version == VersionFor(form, state)
<1>1. /\ request.kind = form.kind /\ request.target = form.target
      /\ request.expected = form.expected /\ request.detail = form.detail
  BY SentTypes
<1>2. version \in Nat /\ form.expected \in Nat
  BY FormTypes, VersionForTypes
<1>3. Version(state, request.kind, request.target) = version
  BY <1>1 DEF VersionFor
<1>4. form.kind \notin {"plan-delete", "delete"}
  BY FormTypes
<1>5. form.kind \in Creations => form.expected = 0
  BY FormTypes
<1> HIDE DEF request, version
<1>6. Admits(state, request) =>
        IF form.kind \in Creations THEN version = 0 ELSE version = form.expected
  BY <1>1, <1>3 DEF Admits, Creations
<1>7. ASSUME Founded(form, state),
             IF form.kind \in Creations THEN version = 0 ELSE version = form.expected
      PROVE  Admits(state, request)
  BY <1>1, <1>3, <1>4, <1>7 DEF Admits, Founded, Vetted, Creations, version
<1>8. ASSUME Founded(form, state), ~Admits(state, request)
      PROVE  form.expected < version
  <2>1. form.expected <= version
    BY <1>8 DEF Founded, version
  <2>2. form.expected # version
    BY <1>5, <1>7, <1>8
  <2> QED BY <1>2, <2>1, <2>2
<1> QED BY <1>5, <1>6, <1>8 DEF Overtaken, request, version

-----------------------------------------------------------------------------
(* The provider of this module is the one of ProviderStore.                *)

LEMMA SameServe ==
  /\ Provider!initialState = initialState
  /\ \A state : \A request \in Request :
       Provider!Serve(state, request) = Serve(state, request)
<1>1. Provider!initialState = initialState
  BY DEF Provider!initialState, initialState
<1>2. /\ Provider!Lists = Lists /\ Provider!Confirmed = Confirmed
      /\ \A n : Provider!Listing(n) = Listing(n)
  BY DEF Provider!Lists, Lists, Provider!Confirmed, Confirmed, Provider!Listing, Listing,
         Provider!Bare, Bare
<1>3. \A state : \A kind \in Lists : Provider!Size(state, kind) = Size(state, kind)
  <2>1. \A resources : Provider!Existing(resources) = Existing(resources)
    BY DEF Provider!Existing, Existing
  <2>2. \A S : Provider!Cardinality(S) = Cardinality(S)
    BY DEF Provider!Cardinality, Cardinality
  <2> QED BY <2>1, <2>2 DEF Provider!Size, Size, Lists
<1>4. \A state, status : Provider!Refuse(state, status) = Refuse(state, status)
  BY DEF Provider!Refuse, Refuse, Provider!Bare, Bare
<1>5. \A request, version : Provider!Result(request, version) = Result(request, version)
  BY DEF Provider!Result, Result, Provider!Bare, Bare
<1>6. \A state, request, version :
        /\ Provider!Cache(state, request, version) = Cache(state, request, version)
        /\ Provider!Audit(state, request, version) = Audit(state, request, version)
  BY <1>5 DEF Provider!Cache, Cache, Provider!Audit, Audit
<1>7. \A state, request, version :
        Provider!Accept(state, request, version) = Accept(state, request, version)
  BY <1>5, <1>6 DEF Provider!Accept, Accept
<1>8. \A state, request :
        /\ Provider!updateEntity(state, request) = updateEntity(state, request)
        /\ Provider!planEntityDeletion(state, request) = planEntityDeletion(state, request)
        /\ Provider!deleteEntity(state, request) = deleteEntity(state, request)
  BY <1>4, <1>5, <1>6, <1>7
     DEF Provider!updateEntity, updateEntity, Provider!planEntityDeletion,
         planEntityDeletion, Provider!deleteEntity, deleteEntity
<1>9. \A resource, request : Provider!Current(resource, request) = Current(resource, request)
  BY DEF Provider!Current, Current
<1>10. \A state, request :
         /\ Provider!createUser(state, request) = createUser(state, request)
         /\ Provider!setUserStatus(state, request) = setUserStatus(state, request)
         /\ Provider!changeUserRole(state, request) = changeUserRole(state, request)
  BY <1>4, <1>7, <1>9
     DEF Provider!createUser, createUser, Provider!setUserStatus, setUserStatus,
         Provider!changeUserRole, changeUserRole
<1>11. \A state, request :
         /\ Provider!createRole(state, request) = createRole(state, request)
         /\ Provider!updateRole(state, request) = updateRole(state, request)
  BY <1>4, <1>7, <1>9 DEF Provider!createRole, createRole, Provider!updateRole, updateRole
<1>12. \A state, request :
         /\ Provider!cancelRun(state, request) = cancelRun(state, request)
         /\ Provider!publishPlan(state, request) = publishPlan(state, request)
  BY <1>4, <1>7 DEF Provider!cancelRun, cancelRun, Provider!publishPlan, publishPlan
<1>13. \A state, request : Provider!retryTask(state, request) = retryTask(state, request)
  BY <1>4, <1>5, <1>6 DEF Provider!retryTask, retryTask
<1>14. ASSUME NEW state, NEW request, request.kind \in Mutations
       PROVE  Provider!Mutate(state, request) = Mutate(state, request)
  BY <1>8, <1>10, <1>11, <1>12, <1>13, <1>14
     DEF Provider!Mutate, Mutate, Mutations, Confirmed
<1>15. ASSUME NEW state, NEW request \in Request
       PROVE  Provider!Serve(state, request) = Serve(state, request)
  <2>1. request.kind \in Lists \cup Mutations \cup {"migrate"}
    BY DEF Request, Kinds
  <2> QED BY <1>2, <1>3, <1>4, <1>14, <2>1 DEF Provider!Serve, Serve
<1> QED BY <1>1, <1>15

-----------------------------------------------------------------------------
(* What performing a request of Studio does *)

(* A request is answered with the result of its key, or refused, or takes  *)
(* effect on the version of its form.  A form that a list displayed is     *)
(* refused only if it was overtaken.                                       *)
LEMMA PerformCases ==
  ASSUME NEW form \in Forms, NEW key \in Keys, NEW state \in State,
         Vetted(form), NEW outcome, outcome = Serve(state, Sent(form, key))
  PROVE  /\ outcome.state \in State /\ outcome.answer \in Answer
         /\ \/ /\ state.results[key] # None
               /\ outcome.state = state
               /\ outcome.answer = state.results[key]
            \/ /\ state.results[key] = None
               /\ Founded(form, state) => Overtaken(form, state)
               /\ outcome.state = state
               /\ outcome.answer.status # "ok"
            \/ /\ state.results[key] = None
               /\ VersionFor(form, state) = form.expected
               /\ outcome.answer.status = "ok"
               /\ outcome.answer.target = form.target
               /\ outcome.answer.detail = form.detail
               /\ outcome.state.results = [state.results EXCEPT ![key] = outcome.answer]
               /\ Moves(state, Sent(form, key), outcome.state)
               /\ Records(state, Sent(form, key), outcome.state)
<1> DEFINE request == Sent(form, key)
<1>1. /\ request \in Request /\ WellFormed(request)
      /\ request.kind \in Mutations
      /\ request.key = key /\ request.confirmed
      /\ request.target = form.target /\ request.detail = form.detail
  BY SentTypes, FormTypes
<1>2. Founded(form, state) /\ ~Admits(state, request) => Overtaken(form, state)
  BY AdmittedIf
<1>3. Admits(state, request) => VersionFor(form, state) = form.expected
  BY AdmittedIf
<1> HIDE DEF request
<1>4. outcome = Serve(state, request)
  BY DEF request
<1>5. outcome.state \in State /\ outcome.answer \in Answer
  BY <1>1, <1>4, ServeOutcome
<1>6. IF state.results[key] # None
      THEN outcome.state = state /\ outcome.answer = state.results[key]
      ELSE Exact(state, request, outcome)
  BY <1>1, <1>4, MutationsExact
<1>7. CASE state.results[key] # None
  BY <1>5, <1>6, <1>7
<1>8. CASE state.results[key] = None /\ ~Admits(state, request)
  BY <1>2, <1>5, <1>6, <1>8 DEF Exact
<1>9. CASE state.results[key] = None /\ Admits(state, request)
  BY <1>1, <1>3, <1>5, <1>6, <1>9 DEF Exact, request
<1> QED BY <1>7, <1>8, <1>9

(* An accepted request moves the version of its target, one up.            *)
LEMMA FamiliesAdvance ==
  ASSUME NEW form \in Forms, NEW key \in Keys, NEW state \in State,
         NEW after, Moves(state, Sent(form, key), after)
  PROVE  /\ \A u \in Users :
              /\ state.users[u].version \in Nat
              /\ after.users[u].version = state.users[u].version
                   + IF form.kind \in UserKinds /\ form.target = u THEN 1 ELSE 0
         /\ \A r \in Roles :
              /\ state.roles[r].version \in Nat
              /\ after.roles[r].version = state.roles[r].version
                   + IF form.kind \in RoleKinds /\ form.target = r THEN 1 ELSE 0
         /\ state.run.version \in Nat
         /\ after.run.version = state.run.version
              + IF form.kind \in {"cancel", "retry"} THEN 1 ELSE 0
         /\ state.task.version \in Nat
         /\ after.task.version = state.task.version
              + IF form.kind = "retry" THEN 1 ELSE 0
         /\ state.plan.version \in Nat
         /\ after.plan.version = state.plan.version
              + IF form.kind = "publish" THEN 1 ELSE 0
<1> DEFINE request == Sent(form, key)
<1>1. request.kind = form.kind /\ request.target = form.target
  BY SentTypes
<1> HIDE DEF request
<1>2. /\ Advances(UserKinds, request, state.users, after.users)
      /\ Advances(RoleKinds, request, state.roles, after.roles)
      /\ after.run.version = state.run.version
           + IF form.kind \in {"cancel", "retry"} THEN 1 ELSE 0
      /\ after.task.version = state.task.version
           + IF form.kind = "retry" THEN 1 ELSE 0
      /\ after.plan.version = state.plan.version
           + IF form.kind = "publish" THEN 1 ELSE 0
  BY <1>1 DEF Moves, request
<1>3. state.users \in [Users -> User] /\ state.roles \in [Roles -> Role]
  BY DEF State
<1>4. /\ \A u \in Users : state.users[u].version \in Nat
      /\ \A r \in Roles : state.roles[r].version \in Nat
      /\ state.run.version \in Nat /\ state.task.version \in Nat
      /\ state.plan.version \in Nat
  BY PartTypes, VersionTypes
<1>5. \A u \in Users : after.users[u].version =
        state.users[u].version
          + IF form.kind \in UserKinds /\ form.target = u THEN 1 ELSE 0
  <2>1. CASE form.kind \in UserKinds
    <3>1. form.target \in Users
      BY <2>1, VersionCases
    <3>2. PICK resource :
            /\ after.users = [state.users EXCEPT ![form.target] = resource]
            /\ resource.version = state.users[form.target].version + 1
      BY <1>1, <1>2, <2>1 DEF Advances
    <3> QED BY <1>3, <1>4, <2>1, <3>1, <3>2
  <2>2. CASE form.kind \notin UserKinds
    BY <1>1, <1>2, <1>4, <2>2 DEF Advances
  <2> QED BY <2>1, <2>2
<1>6. \A r \in Roles : after.roles[r].version =
        state.roles[r].version
          + IF form.kind \in RoleKinds /\ form.target = r THEN 1 ELSE 0
  <2>1. CASE form.kind \in RoleKinds
    <3>1. form.target \in Roles
      BY <2>1, VersionCases
    <3>2. PICK resource :
            /\ after.roles = [state.roles EXCEPT ![form.target] = resource]
            /\ resource.version = state.roles[form.target].version + 1
      BY <1>1, <1>2, <2>1 DEF Advances
    <3> QED BY <1>3, <1>4, <2>1, <3>1, <3>2
  <2>2. CASE form.kind \notin RoleKinds
    BY <1>1, <1>2, <1>4, <2>2 DEF Advances
  <2> QED BY <2>1, <2>2
<1> QED BY <1>2, <1>4, <1>5, <1>6

(* No accepted request takes a version back, and its own goes one up.      *)
LEMMA VersionsAdvance ==
  ASSUME NEW form \in Forms, NEW key \in Keys, NEW state \in State,
         NEW after, Moves(state, Sent(form, key), after)
  PROVE  /\ \A other \in Forms : VersionFor(other, state) <= VersionFor(other, after)
         /\ VersionFor(form, after) = VersionFor(form, state) + 1
         /\ \A r \in Roles : state.roles[r].version <= after.roles[r].version
<1>1. ASSUME NEW other \in Forms
      PROVE  VersionFor(other, state) <= VersionFor(other, after)
  <2>1. CASE other.kind \in UserKinds
    BY <2>1, VersionCases, FamiliesAdvance
  <2>2. CASE other.kind \in RoleKinds
    BY <2>2, VersionCases, FamiliesAdvance
  <2>3. CASE other.kind \in {"cancel", "retry", "publish"}
    BY <2>3, VersionCases, FamiliesAdvance
  <2> QED BY <2>1, <2>2, <2>3, VersionCases
<1>2. VersionFor(form, after) = VersionFor(form, state) + 1
  <2>1. CASE form.kind \in UserKinds
    BY <2>1, VersionCases, FamiliesAdvance
  <2>2. CASE form.kind \in RoleKinds
    BY <2>2, VersionCases, FamiliesAdvance
  <2>3. CASE form.kind \in {"cancel", "retry", "publish"}
    BY <2>3, VersionCases, FamiliesAdvance
  <2> QED BY <2>1, <2>2, <2>3, VersionCases
<1>3. \A r \in Roles : state.roles[r].version <= after.roles[r].version
  BY FamiliesAdvance
<1> QED BY <1>1, <1>2, <1>3

(* What a request appends to the trail.                                    *)
LEMMA TrailGrows ==
  ASSUME NEW form \in Forms, NEW key \in Keys, NEW state \in State, NEW after,
         Records(state, Sent(form, key), after)
  PROVE  LET n == Len(state.audits) IN
         /\ n \in Nat
         /\ DOMAIN state.audits = 1 .. n /\ DOMAIN after.audits = 1 .. n + 1
         /\ \A i \in 1 .. n : after.audits[i] = state.audits[i]
         /\ RecordOf(after.audits[n + 1], key, form)
<1> DEFINE request == Sent(form, key)
<1>1. /\ request.kind = form.kind /\ request.kind # "plan-delete"
      /\ request.target = form.target /\ request.key = key
  BY SentTypes, FormTypes
<1> HIDE DEF request
<1>2. PICK version \in Nat :
        after.audits = Append(state.audits,
                         [key |-> request.key, action |-> request.kind,
                          target |-> request.target, version |-> version])
  BY <1>1 DEF Records, request
<1> DEFINE record == [key |-> request.key, action |-> request.kind,
                      target |-> request.target, version |-> version]
<1>3. RecordOf(record, key, form)
  BY <1>1 DEF RecordOf
<1>4. after.audits = Append(state.audits, record)
  BY <1>2
<1> HIDE DEF record
<1>5. state.audits \in Seq(Record)
  BY DEF State
<1> QED BY <1>3, <1>4, <1>5

-----------------------------------------------------------------------------
(* Counting the trail *)

LEMMA TallyTypes ==
  ASSUME NEW state \in State, NEW kinds, NEW target
  PROVE  /\ IsFiniteSet(Accepted(state, kinds, target))
         /\ Tally(state, kinds, target) \in Nat
<1>1. /\ DOMAIN state.audits = 1 .. Len(state.audits)
      /\ Len(state.audits) \in Nat
  BY DEF State
<1>2. IsFiniteSet(1 .. Len(state.audits))
  BY <1>1, FS_Interval
<1>3. Accepted(state, kinds, target) \in SUBSET (1 .. Len(state.audits))
  BY <1>1 DEF Accepted
<1> QED BY <1>2, <1>3, FS_Subset, FS_CardinalityType DEF Tally

LEMMA TallyGrows ==
  ASSUME NEW form \in Forms, NEW key \in Keys, NEW state \in State,
         NEW after \in State, Records(state, Sent(form, key), after),
         NEW kinds, NEW target
  PROVE  Tally(after, kinds, target) =
           Tally(state, kinds, target)
             + IF form.kind \in kinds /\ form.target = target THEN 1 ELSE 0
<1> DEFINE n   == Len(state.audits)
           old == Accepted(state, kinds, target)
<1>1. /\ n \in Nat
      /\ DOMAIN state.audits = 1 .. n /\ DOMAIN after.audits = 1 .. n + 1
      /\ \A i \in 1 .. n : after.audits[i] = state.audits[i]
      /\ after.audits[n + 1].action = form.kind
      /\ after.audits[n + 1].target = form.target
  BY TrailGrows DEF RecordOf
<1> HIDE DEF n
<1>2. \A i : i \in 1 .. n + 1 <=> i \in 1 .. n \/ i = n + 1
  BY <1>1
<1>3. old \subseteq 1 .. n /\ n + 1 \notin old
  BY <1>1 DEF Accepted
<1>4. IsFiniteSet(old) /\ Cardinality(old) \in Nat
  BY TallyTypes DEF Tally
<1>5. CASE form.kind \in kinds /\ form.target = target
  <2>1. Accepted(after, kinds, target) = old \cup {n + 1}
    BY <1>1, <1>2, <1>5 DEF Accepted
  <2> QED BY <1>3, <1>4, <1>5, <2>1, FS_AddElement DEF Tally
<1>6. CASE ~(form.kind \in kinds /\ form.target = target)
  <2>1. Accepted(after, kinds, target) = old
    BY <1>1, <1>2, <1>6 DEF Accepted
  <2> QED BY <1>4, <1>6, <2>1 DEF Tally
<1> QED BY <1>5, <1>6

(* A version and the count of its records move together.                   *)
LEMMA TrailKeepsTelling ==
  ASSUME NEW form \in Forms, NEW key \in Keys, NEW state \in State,
         NEW after \in State, TrailTells(state),
         Moves(state, Sent(form, key), after),
         Records(state, Sent(form, key), after)
  PROVE  TrailTells(after)
<1>1. \A kinds, target :
        /\ Tally(state, kinds, target) \in Nat
        /\ Tally(after, kinds, target) =
             Tally(state, kinds, target)
               + IF form.kind \in kinds /\ form.target = target THEN 1 ELSE 0
  BY TallyTypes, TallyGrows
<1>2. ASSUME NEW u \in Users
      PROVE  after.users[u].version =
               initialState.users[u].version + Tally(after, UserKinds, u)
  <2>1. /\ initialState.users[u].version \in Nat
        /\ state.users[u].version =
             initialState.users[u].version + Tally(state, UserKinds, u)
    BY InitialTypes, PartTypes, VersionTypes DEF TrailTells
  <2> QED BY <1>1, <2>1, FamiliesAdvance
<1>3. ASSUME NEW r \in Roles
      PROVE  after.roles[r].version =
               initialState.roles[r].version + Tally(after, RoleKinds, r)
  <2>1. /\ initialState.roles[r].version \in Nat
        /\ state.roles[r].version =
             initialState.roles[r].version + Tally(state, RoleKinds, r)
    BY InitialTypes, PartTypes, VersionTypes DEF TrailTells
  <2> QED BY <1>1, <2>1, FamiliesAdvance
<1>4. /\ form.kind = "cancel" => form.target = "run"
      /\ form.kind = "retry" => form.target = "task"
      /\ form.kind = "publish" => form.target = "quota"
  BY VersionCases
<1>5. /\ after.task.version = 1 + Tally(after, {"retry"}, "task")
      /\ after.run.version =
           1 + Tally(after, {"retry"}, "task") + Tally(after, {"cancel"}, "run")
      /\ after.plan.version = 1 + Tally(after, {"publish"}, "quota")
  <2> DEFINE R == Tally(state, {"retry"}, "task")
             C == Tally(state, {"cancel"}, "run")
             P == Tally(state, {"publish"}, "quota")
  <2>1. /\ state.task.version = 1 + R /\ state.run.version = 1 + R + C
        /\ state.plan.version = 1 + P
    BY DEF TrailTells
  <2>2. R \in Nat /\ C \in Nat /\ P \in Nat
    BY <1>1
  <2>3. /\ Tally(after, {"retry"}, "task") = R + IF form.kind = "retry" THEN 1 ELSE 0
        /\ Tally(after, {"cancel"}, "run") = C + IF form.kind = "cancel" THEN 1 ELSE 0
        /\ Tally(after, {"publish"}, "quota") =
             P + IF form.kind = "publish" THEN 1 ELSE 0
    BY <1>1, <1>4
  <2> HIDE DEF R, C, P
  <2> QED BY <2>1, <2>2, <2>3, FamiliesAdvance
<1> QED BY <1>2, <1>3, <1>5 DEF TrailTells

LEMMA InitialTrail == TrailTells(initialState)
<1>1. \A kinds \in {UserKinds, RoleKinds, {"retry"}, {"cancel"}, {"publish"}} :
        \A target : Tally(initialState, kinds, target) = 0
  <2> TAKE kinds \in {UserKinds, RoleKinds, {"retry"}, {"cancel"}, {"publish"}}
  <2> TAKE target
  <2>1. "login" \notin kinds
    BY DEF UserKinds, RoleKinds
  <2>2. Accepted(initialState, kinds, target) = {}
    BY <2>1 DEF Accepted, initialState
  <2> QED BY <2>2, FS_EmptySet DEF Tally
<1>2. /\ \A u \in Users : initialState.users[u].version \in Nat
      /\ \A r \in Roles : initialState.roles[r].version \in Nat
      /\ initialState.task.version = 1 /\ initialState.run.version = 1
      /\ initialState.plan.version = 1
  BY DEF initialState
<1> QED BY <1>1, <1>2 DEF TrailTells

-----------------------------------------------------------------------------
(* What no step takes back *)

Grown(drawn, state, later, after) ==
  /\ \A k \in Keys : drawn[k] # None => later[k] = drawn[k]
  /\ \A form \in Forms : Founded(form, state) => Founded(form, after)
  /\ \A form \in Forms : Overtaken(form, state) => Overtaken(form, after)
  /\ \A k \in Keys : state.results[k] # None => after.results[k] = state.results[k]
  /\ \A k \in Keys :
       drawn[k] # None /\ Barred(k, drawn, state) => after.results[k] = None

LEMMA BarredStays ==
  ASSUME NEW drawn \in [Keys -> Forms \cup {None}], NEW state, NEW later, NEW after,
         Grown(drawn, state, later, after), NEW key \in Keys, drawn[key] # None,
         Barred(key, drawn, state)
  PROVE  Barred(key, later, after)
<1>1. drawn[key] \in Forms /\ later[key] = drawn[key]
  BY DEF Grown
<1> QED BY <1>1 DEF Grown, Barred

LEMMA HandledStays ==
  ASSUME NEW drawn \in [Keys -> Forms \cup {None}], NEW state, NEW later, NEW after,
         Grown(drawn, state, later, after), NEW q \in Tab, NEW e,
         Handled(q, e, drawn, state)
  PROVE  Handled(q, e, later, after)
<1>1. q.form \in Forms \cup {None} /\ q.key \in Keys \cup {None}
  BY DEF Tab
<1>2. /\ Owns(q, drawn, state) /\ Knows(q, drawn, state)
      /\ Awaits(q, e, drawn, state)
  BY DEF Handled
<1>3. q.key # None => q.key \in Keys /\ drawn[q.key] = q.form /\ q.form # None
  BY <1>1, <1>2 DEF Owns
<1>4. Owns(q, later, after)
  BY <1>1, <1>2, <1>3 DEF Owns, Grown
<1>5. q.key # None /\ Barred(q.key, drawn, state) => Barred(q.key, later, after)
  BY <1>3, BarredStays
<1>6. Knows(q, later, after)
  <2>1. q.label = "drop key" \/ q.page \in {"done", "conflict"} => q.key # None
    BY <1>2 DEF Owns
  <2>2. q.label = "drop key" \/ q.page = "done" => after.results[q.key] # None
    BY <1>2, <1>3, <2>1 DEF Knows, Grown
  <2> QED BY <1>2, <1>5, <2>1, <2>2 DEF Knows, Outdated
<1>7. Awaits(q, e, later, after)
  BY <1>2, <1>5 DEF Owns, Awaits
<1>8. Exchanged(e, later, after)
  <2>1. CASE e = Provider!Nothing
    BY <2>1 DEF Exchanged
  <2>2. CASE e # Provider!Nothing
    <3>1. PICK key \in Keys : About(e, key, drawn, state)
      BY <2>2 DEF Handled, Exchanged
    <3>2. drawn[key] # None /\ later[key] = drawn[key]
      BY <3>1 DEF About, Grown
    <3>3. ASSUME e.answer \in Answer, Answered(key, e.answer, state)
          PROVE  Answered(key, e.answer, after)
      BY <3>3, AbsentAssumption DEF Answered, Grown
    <3>4. About(e, key, later, after)
      BY <3>1, <3>2, <3>3 DEF About
    <3> QED BY <3>4 DEF Exchanged
  <2> QED BY <2>1, <2>2
<1> QED BY <1>4, <1>6, <1>7, <1>8 DEF Handled

-----------------------------------------------------------------------------
(* Drawing a key and performing a request keep the books.                  *)

LEMMA TrailKeys ==
  ASSUME NEW state \in State, NEW i \in DOMAIN state.audits
  PROVE  state.audits[i].key \in Keys \cup {None}
<1>1. state.audits \in Seq(Record)
  BY DEF State
<1>2. state.audits[i] \in Record
  BY <1>1
<1> QED BY <1>2 DEF Record

LEMMA DrawKeeps ==
  ASSUME NEW drawn \in [Keys -> Forms \cup {None}], NEW state \in State,
         Books(drawn, state), NEW key \in Keys, drawn[key] = None,
         NEW form \in Forms, Vetted(form),
         NEW later, later = [drawn EXCEPT ![key] = form]
  PROVE  /\ later \in [Keys -> Forms \cup {None}]
         /\ Grown(drawn, state, later, state)
         /\ Books(later, state)
<1>1. /\ later \in [Keys -> Forms \cup {None}] /\ later[key] = form
      /\ \A k \in Keys : drawn[k] # None => k # key
      /\ \A k \in Keys \ {key} : later[k] = drawn[k]
  OBVIOUS
<1>2. Grown(drawn, state, later, state)
  BY <1>1 DEF Grown, Barred
<1>3. KeysDrawn(later)
  BY <1>1 DEF Books, KeysDrawn
<1>4. ResultsTold(later, state)
  BY <1>1 DEF Books, ResultsTold
<1>5. \A i \in DOMAIN state.audits :
        state.audits[i].key # None =>
          /\ drawn[state.audits[i].key] # None
          /\ later[state.audits[i].key] = drawn[state.audits[i].key]
          /\ Overtaken(drawn[state.audits[i].key], state)
  BY <1>1, TrailKeys DEF Books, TrailPassed
<1>6. TrailPassed(later, state)
  BY <1>5 DEF TrailPassed
<1>7. TrailOnce(later, state)
  BY <1>5 DEF Books, TrailOnce
<1> QED BY <1>1, <1>2, <1>3, <1>4, <1>6, <1>7 DEF Books

(* A request that takes effect is recorded once, with its result.          *)
LEMMA EffectKeeps ==
  ASSUME NEW drawn \in [Keys -> Forms \cup {None}], NEW state \in State,
         Books(drawn, state), NEW key \in Keys, NEW form \in Forms,
         drawn[key] = form, NEW after \in State, NEW answer \in Answer,
         state.results[key] = None, VersionFor(form, state) = form.expected,
         answer.status = "ok", answer.target = form.target,
         answer.detail = form.detail,
         after.results = [state.results EXCEPT ![key] = answer],
         Moves(state, Sent(form, key), after),
         Records(state, Sent(form, key), after)
  PROVE  /\ Grown(drawn, state, drawn, after)
         /\ Books(drawn, after)
<1> DEFINE n == Len(state.audits)
<1>1. /\ n \in Nat
      /\ DOMAIN state.audits = 1 .. n /\ DOMAIN after.audits = 1 .. n + 1
      /\ \A i \in 1 .. n : after.audits[i] = state.audits[i]
      /\ RecordOf(after.audits[n + 1], key, form)
  BY TrailGrows
<1> HIDE DEF n
<1>2. \A i \in 1 .. n + 1 : i \in 1 .. n \/ i = n + 1
  BY <1>1
<1>3. /\ after.results[key] = answer
      /\ \A k \in Keys \ {key} : after.results[k] = state.results[k]
  BY DEF State
<1>4. \A other \in Forms : /\ VersionFor(other, state) \in Nat
                           /\ VersionFor(other, after) \in Nat
                           /\ other.expected \in Nat
  BY VersionForTypes, FormTypes
<1>5. \A other \in Forms : VersionFor(other, state) <= VersionFor(other, after)
  BY VersionsAdvance
<1>6. Overtaken(form, after)
  BY <1>4, VersionsAdvance DEF Overtaken
<1>7. \A other \in Forms : Overtaken(other, state) => Overtaken(other, after)
  BY <1>4, <1>5 DEF Overtaken
<1>8. \A other \in Forms : Founded(other, state) => Founded(other, after)
  <2>1. \A r \in Roles : /\ state.roles[r].version \in Nat
                         /\ after.roles[r].version \in Nat
                         /\ state.roles[r].version <= after.roles[r].version
    BY VersionsAdvance, PartTypes, VersionTypes
  <2>2. \A other \in Forms :
          other.kind \in {"assign", "revoke"} => other.detail \in Roles
    BY FormTypes DEF DetailsOf
  <2> QED BY <1>4, <1>5, <2>1, <2>2 DEF Founded
<1>9. ~Overtaken(form, state)
  BY <1>4 DEF Overtaken
<1>10. Grown(drawn, state, drawn, after)
  BY <1>3, <1>7, <1>8, <1>9 DEF Grown, Barred
<1>11. KeysDrawn(drawn)
  BY DEF Books
<1>12. ASSUME NEW k \in Keys, after.results[k] # None
       PROVE  /\ drawn[k] # None
              /\ after.results[k].status = "ok"
              /\ after.results[k].target = drawn[k].target
              /\ after.results[k].detail = drawn[k].detail
              /\ \E i \in DOMAIN after.audits :
                   RecordOf(after.audits[i], k, drawn[k])
  <2>1. CASE k = key
    <3>1. n + 1 \in DOMAIN after.audits
      BY <1>1
    <3>2. drawn[k] # None
      BY <2>1, FormTypes
    <3> QED BY <1>1, <1>3, <2>1, <3>1, <3>2
  <2>2. CASE k # key
    <3>1. /\ after.results[k] = state.results[k]
          /\ drawn[k] # None
          /\ state.results[k].status = "ok"
          /\ state.results[k].target = drawn[k].target
          /\ state.results[k].detail = drawn[k].detail
      BY <1>3, <1>12, <2>2 DEF Books, ResultsTold
    <3>2. PICK i \in 1 .. n : RecordOf(state.audits[i], k, drawn[k])
      BY <1>1, <1>3, <1>12, <2>2 DEF Books, ResultsTold
    <3>3. i \in DOMAIN after.audits /\ after.audits[i] = state.audits[i]
      BY <1>1
    <3> QED BY <3>1, <3>2, <3>3
  <2> QED BY <2>1, <2>2
<1>13. ASSUME NEW i \in 1 .. n, state.audits[i].key # None
       PROVE  /\ drawn[state.audits[i].key] \in Forms
              /\ Overtaken(drawn[state.audits[i].key], state)
  <2>1. state.audits[i].key \in Keys
    BY <1>1, <1>13, TrailKeys
  <2> QED BY <1>1, <1>13, <2>1 DEF Books, TrailPassed
<1>14. TrailPassed(drawn, after)
  <2>1. ASSUME NEW i \in 1 .. n, state.audits[i].key # None
        PROVE  /\ drawn[state.audits[i].key] # None
               /\ Overtaken(drawn[state.audits[i].key], after)
    BY <1>7, <1>13, <2>1, FormTypes
  <2>2. form # None
    BY FormTypes
  <2> QED BY <1>1, <1>2, <1>6, <2>1, <2>2 DEF TrailPassed, RecordOf
<1>15. TrailOnce(drawn, after)
  <2>1. ASSUME NEW i \in 1 .. n, state.audits[i].key # None
        PROVE  drawn[state.audits[i].key] # form
    BY <1>9, <1>13, <2>1
  <2>2. ASSUME NEW i \in 1 .. n, NEW j \in 1 .. n, state.audits[i].key # None,
               state.audits[j].key # None,
               drawn[state.audits[i].key] = drawn[state.audits[j].key]
        PROVE  i = j
    BY <1>1, <2>2 DEF Books, TrailOnce
  <2> QED BY <1>1, <1>2, <2>1, <2>2 DEF TrailOnce, RecordOf
<1>16. TrailTells(after)
  BY TrailKeepsTelling DEF Books
<1>17. ResultsTold(drawn, after)
  BY <1>12 DEF ResultsTold
<1> QED BY <1>10, <1>11, <1>14, <1>15, <1>16, <1>17 DEF Books

LEMMA PerformKeeps ==
  ASSUME NEW drawn \in [Keys -> Forms \cup {None}], NEW state \in State,
         Books(drawn, state), NEW key \in Keys, drawn[key] # None,
         NEW e, e.request = Sent(drawn[key], key),
         NEW outcome, outcome = Serve(state, e.request)
  PROVE  /\ outcome.state \in State
         /\ Grown(drawn, state, drawn, outcome.state)
         /\ Books(drawn, outcome.state)
         /\ About([stage |-> "performed", request |-> e.request,
                   answer |-> outcome.answer], key, drawn, outcome.state)
         /\ Founded(drawn[key], state) /\ outcome.answer.status # "ok" =>
              Barred(key, drawn, outcome.state)
<1> DEFINE form == drawn[key]
<1>1. form \in Forms /\ Vetted(form)
  BY DEF Books, KeysDrawn
<1>2. outcome = Serve(state, Sent(form, key))
  OBVIOUS
<1> HIDE DEF form
<1>3. /\ outcome.state \in State /\ outcome.answer \in Answer
      /\ \/ /\ state.results[key] # None
            /\ outcome.state = state
            /\ outcome.answer = state.results[key]
         \/ /\ state.results[key] = None
            /\ Founded(form, state) => Overtaken(form, state)
            /\ outcome.state = state
            /\ outcome.answer.status # "ok"
         \/ /\ state.results[key] = None
            /\ VersionFor(form, state) = form.expected
            /\ outcome.answer.status = "ok"
            /\ outcome.answer.target = form.target
            /\ outcome.answer.detail = form.detail
            /\ outcome.state.results = [state.results EXCEPT ![key] = outcome.answer]
            /\ Moves(state, Sent(form, key), outcome.state)
            /\ Records(state, Sent(form, key), outcome.state)
  BY <1>1, <1>2, PerformCases
<1> DEFINE told == [stage |-> "performed", request |-> e.request,
                    answer |-> outcome.answer]
<1>4. /\ told.stage = "performed" /\ told.request = Sent(form, key)
      /\ told.answer = outcome.answer
  BY DEF form
<1> HIDE DEF told
<1>5. Answered(key, outcome.answer, outcome.state) =>
        About(told, key, drawn, outcome.state)
  BY <1>3, <1>4 DEF About, form
<1>6. Grown(drawn, state, drawn, state)
  BY DEF Grown, Barred
<1>7. CASE state.results[key] # None
  <2>1. outcome.state = state /\ outcome.answer = state.results[key]
    BY <1>3, <1>7
  <2>2. outcome.answer.status = "ok"
    BY <1>7, <2>1 DEF Books, ResultsTold
  <2>3. Answered(key, outcome.answer, outcome.state)
    BY <2>1, <2>2 DEF Answered
  <2> QED BY <1>3, <1>5, <1>6, <2>1, <2>2, <2>3 DEF told
<1>8. CASE state.results[key] = None /\ outcome.answer.status # "ok"
  <2>1. outcome.state = state
    BY <1>3, <1>8
  <2>2. Answered(key, outcome.answer, outcome.state)
    BY <1>8 DEF Answered
  <2>3. Founded(form, state) => Barred(key, drawn, outcome.state)
    BY <1>3, <1>8 DEF Barred, form
  <2> QED BY <1>3, <1>5, <1>6, <2>1, <2>2, <2>3 DEF told, form
<1>9. CASE state.results[key] = None /\ outcome.answer.status = "ok"
  <2>1. /\ VersionFor(form, state) = form.expected
        /\ outcome.answer.target = form.target
        /\ outcome.answer.detail = form.detail
        /\ outcome.state.results = [state.results EXCEPT ![key] = outcome.answer]
        /\ Moves(state, Sent(form, key), outcome.state)
        /\ Records(state, Sent(form, key), outcome.state)
    BY <1>3, <1>9
  <2>2. drawn[key] = form
    BY DEF form
  <2>3. Grown(drawn, state, drawn, outcome.state) /\ Books(drawn, outcome.state)
    BY <1>1, <1>3, <1>9, <2>1, <2>2, EffectKeeps
  <2>4. outcome.state.results[key] = outcome.answer
    BY <2>1 DEF State
  <2>5. Answered(key, outcome.answer, outcome.state)
    BY <1>9, <2>4 DEF Answered
  <2> QED BY <1>3, <1>5, <1>9, <2>3, <2>5 DEF told
<1> QED BY <1>7, <1>8, <1>9

-----------------------------------------------------------------------------
(* Handlers *)

LEMMA TabTypes ==
  /\ Idle \in Tab
  /\ \A s \in Sessions, form \in Forms, label \in Labels, seen \in BOOLEAN :
       [Idle EXCEPT !.label = label, !.session = s, !.form = form,
                    !.seen = seen] \in Tab
  /\ \A form \in Forms, key \in Keys \cup {None}, seen \in BOOLEAN,
        page \in Pages, shown \in Nat :
       [Idle EXCEPT !.form = form, !.key = key, !.seen = seen, !.page = page,
                    !.shown = shown] \in Tab
  /\ \A q \in Tab, label \in Labels : [q EXCEPT !.label = label] \in Tab
  /\ \A q \in Tab, label \in Labels, page \in Pages :
       [q EXCEPT !.label = label, !.page = page] \in Tab
  /\ \A q \in Tab, label \in Labels, key \in Keys :
       [q EXCEPT !.label = label, !.key = key] \in Tab
BY DEF Tab, Idle, Labels, Pages

(* A handler that has returned without a word owes nothing.                *)
LEMMA IdleHandled ==
  ASSUME NEW drawn, NEW state, NEW e, Exchanged(e, drawn, state)
  PROVE  Handled(Idle, e, drawn, state)
BY DEF Handled, Owns, Knows, Outdated, Awaits, Idle

LEMMA NothingExchanged ==
  ASSUME NEW drawn, NEW state
  PROVE  Exchanged(Provider!Nothing, drawn, state)
BY DEF Exchanged

(* Fewer drafts are still few and well typed.                              *)
LEMMA FewerDrafts ==
  ASSUME Typed, DraftsOwned, NEW later \in [Sessions -> SUBSET Draft],
         \A s \in Sessions : later[s] \subseteq keys[s]
  PROVE  /\ \A s \in Sessions : IsFiniteSet(later[s])
         /\ \A s \in Sessions : Cardinality(later[s]) <= MaxDrafts
         /\ \A s \in Sessions \ active : later[s] = {}
         /\ \A s \in Sessions : \A draft \in later[s] :
              issued[draft.key] = draft.form
<1>1. ASSUME NEW s \in Sessions
      PROVE  IsFiniteSet(later[s]) /\ Cardinality(later[s]) <= MaxDrafts
  <2>1. IsFiniteSet(keys[s]) /\ Cardinality(keys[s]) <= MaxDrafts
    BY DEF Typed, TypeOK
  <2>2. IsFiniteSet(later[s]) /\ Cardinality(later[s]) <= Cardinality(keys[s])
    BY <2>1, FS_Subset
  <2>3. Cardinality(keys[s]) \in Nat /\ Cardinality(later[s]) \in Nat
    BY <2>1, <2>2, FS_CardinalityType
  <2> QED BY <2>1, <2>2, <2>3
<1>2. \A s \in Sessions \ active : later[s] = {}
  BY DEF Typed, TypeOK
<1>3. \A s \in Sessions : \A draft \in later[s] : issued[draft.key] = draft.form
  BY DEF DraftsOwned
<1> QED BY <1>1, <1>2, <1>3

(* A step of one handler that gives up drafts at most.                     *)
LEMMA OneHandler ==
  ASSUME Inv, NEW t \in Tabs, NEW q \in Tab, NEW e,
         tab' = [tab EXCEPT ![t] = q], exchange' = [exchange EXCEPT ![t] = e],
         UNCHANGED <<active, issued, data>>,
         keys' \in [Sessions -> SUBSET Draft],
         \A s \in Sessions : keys'[s] \subseteq keys[s],
         Handled(q, e, issued, data)
  PROVE  Inv'
<1>1. /\ \A s \in Sessions : IsFiniteSet(keys'[s])
      /\ \A s \in Sessions : Cardinality(keys'[s]) <= MaxDrafts
      /\ \A s \in Sessions \ active : keys'[s] = {}
      /\ \A s \in Sessions : \A draft \in keys'[s] :
           issued[draft.key] = draft.form
  BY FewerDrafts DEF Inv
<1>2. TypeOK'
  BY <1>1 DEF Inv, Typed, TypeOK
<1>3. exchange' = [u \in Tabs |-> exchange'[u]]
  BY DEF Inv, Typed
<1>4. Typed' /\ DraftsOwned'
  BY <1>1, <1>2, <1>3 DEF Typed, DraftsOwned
<1>5. Books(issued', data')
  BY DEF Inv
<1>6. ASSUME NEW u \in Tabs PROVE Handled(tab'[u], exchange'[u], issued', data')
  <2>1. CASE u = t
    <3>1. tab'[u] = q /\ exchange'[u] = e
      BY <2>1 DEF Inv, Typed, TypeOK
    <3> QED BY <3>1
  <2>2. CASE u # t
    <3>1. tab'[u] = tab[u] /\ exchange'[u] = exchange[u]
      BY <2>2 DEF Inv, Typed, TypeOK
    <3>2. Handled(tab[u], exchange[u], issued, data)
      BY DEF Inv
    <3> QED BY <3>1, <3>2
  <2> QED BY <2>1, <2>2
<1> QED BY <1>4, <1>5, <1>6 DEF Inv

LEMMA InvTypes ==
  ASSUME Inv, NEW t \in Tabs
  PROVE  /\ tab[t] \in Tab /\ tab[t].form \in Forms \cup {None}
         /\ tab[t].key \in Keys \cup {None}
         /\ tab[t].session \in Sessions \cup {None}
         /\ data \in State /\ issued \in [Keys -> Forms \cup {None}]
         /\ keys \in [Sessions -> SUBSET Draft]
         /\ \A s \in Sessions : keys[s] \subseteq keys[s]
         /\ Handled(tab[t], exchange[t], issued, data)
         /\ exchange = [exchange EXCEPT ![t] = exchange[t]]
         /\ tab = [tab EXCEPT ![t] = tab[t]]
<1>1. /\ tab \in [Tabs -> Tab] /\ tab[t] \in Tab
      /\ data \in State /\ issued \in [Keys -> Forms \cup {None}]
      /\ keys \in [Sessions -> SUBSET Draft]
  BY DEF Inv, Typed, TypeOK
<1>2. exchange = [exchange EXCEPT ![t] = exchange[t]]
  BY DEF Inv, Typed
<1> QED BY <1>1, <1>2 DEF Inv, Tab

(* An exchange is about the key of its request.                            *)
LEMMA KeyOfRequest ==
  ASSUME NEW form \in Forms, NEW key \in Keys, NEW k \in Keys, NEW e,
         NEW drawn \in [Keys -> Forms \cup {None}], NEW state,
         About(e, k, drawn, state), e.request = Sent(form, key)
  PROVE  k = key
<1>1. drawn[k] \in Forms /\ e.request = Sent(drawn[k], k)
  BY DEF About
<1>2. Sent(drawn[k], k).key = k /\ Sent(form, key).key = key
  BY <1>1, SentTypes
<1> QED BY <1>1, <1>2

(* An error with a message goes to the reread list, with what it says of   *)
(* the key.                                                                *)
LEMMA RefusedHandler ==
  ASSUME Inv, NEW t \in Tabs, NEW page \in {"conflict", "rejected", "failed"},
         At(t, "wait") \/ At(t, "find"),
         page = "conflict" => At(t, "wait"),
         page = "conflict" /\ tab[t].seen => Barred(tab[t].key, issued, data),
         Refused(t, page), NEW e, exchange' = [exchange EXCEPT ![t] = e],
         Exchanged(e, issued, data), UNCHANGED <<active, keys, issued, data>>
  PROVE  Inv'
<1> DEFINE q == [tab[t] EXCEPT !.label = "reload", !.page = page]
<1>1. /\ tab[t] \in Tab /\ keys \in [Sessions -> SUBSET Draft]
      /\ Owns(tab[t], issued, data) /\ Knows(tab[t], issued, data)
      /\ tab[t].label \in {"find", "wait"}
  BY InvTypes DEF Handled, At
<1>2. tab' = [tab EXCEPT ![t] = q]
  BY <1>1 DEF Refused, Inv, Typed, TypeOK
<1>3. q \in Tab
  BY <1>1, TabTypes DEF Labels, Pages
<1>4. /\ q.label = "reload" /\ q.page = page /\ q.form = tab[t].form
      /\ q.key = tab[t].key /\ q.session = tab[t].session
      /\ q.seen = tab[t].seen
  BY <1>1 DEF Tab
<1> HIDE DEF q
<1>5. Owns(q, issued, data)
  BY <1>1, <1>4 DEF Owns, At
<1>6. Knows(q, issued, data) /\ Awaits(q, e, issued, data)
  BY <1>4 DEF Knows, Outdated, Awaits
<1>7. Handled(q, e, issued, data)
  BY <1>5, <1>6 DEF Handled
<1> QED BY <1>1, <1>2, <1>3, <1>7, OneHandler

LEMMA HandlerStep ==
  ASSUME Inv, NEW t \in Tabs,
         \/ \E s \in Sessions, form \in Forms : Submit(t, s, form)
         \/ Fail(t) \/ FindRole(t) \/ RefuseSystemRole(t) \/ ClearDraft(t)
         \/ Call(t) \/ Receive(t) \/ Reject(t) \/ Fault(t) \/ Lose(t)
         \/ Abandon(t) \/ Reload(t)
  PROVE  Inv'
<1>1. /\ tab[t] \in Tab /\ tab[t].form \in Forms \cup {None}
      /\ tab[t].key \in Keys \cup {None}
      /\ tab[t].session \in Sessions \cup {None}
      /\ data \in State /\ issued \in [Keys -> Forms \cup {None}]
      /\ keys \in [Sessions -> SUBSET Draft]
      /\ \A s \in Sessions : keys[s] \subseteq keys[s]
      /\ exchange = [exchange EXCEPT ![t] = exchange[t]]
      /\ tab = [tab EXCEPT ![t] = tab[t]]
  BY InvTypes
<1>2. /\ Owns(tab[t], issued, data) /\ Knows(tab[t], issued, data)
      /\ Exchanged(exchange[t], issued, data)
      /\ Awaits(tab[t], exchange[t], issued, data)
  BY InvTypes DEF Handled
<1>3. ASSUME NEW s \in Sessions, NEW form \in Forms, Submit(t, s, form) PROVE Inv'
  <2> DEFINE label == IF form.kind = "rename-role" THEN "find" ELSE "key"
             seen == Displayed(form)
             q == [Idle EXCEPT !.label = label, !.session = s, !.form = form,
                               !.seen = seen]
  <2>1. /\ tab' = [tab EXCEPT ![t] = q]
        /\ UNCHANGED <<active, keys, issued, data, exchange>>
    BY <1>3 DEF Submit, session, provider
  <2> seen \in BOOLEAN /\ (seen => Founded(form, data))
    BY BasisIs DEF Displayed
  <2> HIDE DEF seen
  <2>2. q \in Tab
    BY TabTypes DEF Labels
  <2>3. /\ q.label = label /\ q.session = s /\ q.form = form /\ q.key = None
        /\ q.page = "none" /\ q.seen = seen
    BY DEF Idle
  <2> HIDE DEF q
  <2>4. form # None /\ s # None
    BY FormTypes
  <2>5. /\ Owns(q, issued, data) /\ Knows(q, issued, data)
        /\ Awaits(q, exchange[t], issued, data)
    BY <2>3, <2>4 DEF Owns, Knows, Outdated, Awaits, Vetted
  <2>6. Handled(q, exchange[t], issued, data)
    BY <1>2, <2>5 DEF Handled
  <2> QED BY <1>1, <2>1, <2>2, <2>6, OneHandler
<1>4. ASSUME Fail(t) \/ Lose(t) PROVE Inv'
  <2>1. /\ tab' = [tab EXCEPT ![t] = Idle]
        /\ UNCHANGED <<active, keys, issued, data, exchange>>
    BY <1>4 DEF Fail, Lose, Return, session, provider
  <2> QED BY <1>1, <1>2, <2>1, TabTypes, IdleHandled, OneHandler
<1>5. ASSUME FindRole(t) PROVE Inv'
  <2> DEFINE q == [tab[t] EXCEPT !.label = "key"]
  <2>1. /\ At(t, "find") /\ tab[t].form.target \notin SystemRoles
        /\ UNCHANGED <<active, keys, issued, data, exchange>>
    BY <1>5 DEF FindRole, session, provider
  <2>2. tab' = [tab EXCEPT ![t] = q]
    BY <1>5 DEF FindRole, Goto
  <2>3. q \in Tab
    BY <1>1, TabTypes DEF Labels
  <2>4. /\ q.label = "key" /\ q.form = tab[t].form /\ q.key = tab[t].key
        /\ q.session = tab[t].session /\ q.page = tab[t].page
        /\ q.seen = tab[t].seen /\ q.shown = tab[t].shown
    BY <1>1 DEF Tab
  <2> HIDE DEF q
  <2>5. /\ Owns(q, issued, data) /\ Knows(q, issued, data)
        /\ Awaits(q, exchange[t], issued, data)
    BY <1>2, <2>1, <2>4 DEF Owns, Knows, Outdated, Awaits, Vetted, At
  <2>6. Handled(q, exchange[t], issued, data)
    BY <1>2, <2>5 DEF Handled
  <2> QED BY <1>1, <2>1, <2>2, <2>3, <2>6, OneHandler
<1>6. ASSUME ClearDraft(t) PROVE Inv'
  <2> DEFINE q == [Idle EXCEPT !.form = tab[t].form, !.key = tab[t].key,
                               !.seen = tab[t].seen, !.page = "done",
                               !.shown = 0]
             s == tab[t].session
             later == [keys EXCEPT ![s] = @ \ Kept(s, tab[t].form)]
  <2>1. /\ At(t, "drop key") /\ tab' = [tab EXCEPT ![t] = q] /\ keys' = later
        /\ UNCHANGED <<active, issued, data, exchange>>
    BY <1>6 DEF ClearDraft, Report, provider
  <2>2. /\ tab[t].form \in Forms /\ tab[t].key \in Keys /\ s \in Sessions
        /\ tab[t].seen \in BOOLEAN
    BY <1>1, <1>2, <2>1 DEF Owns, At, Tab
  <2>3. q \in Tab
    BY <2>2, TabTypes DEF Pages
  <2>4. /\ q.label = "idle" /\ q.form = tab[t].form /\ q.key = tab[t].key
        /\ q.page = "done" /\ q.seen = tab[t].seen
    BY DEF Idle
  <2>5. later \in [Sessions -> SUBSET Draft]
    BY <1>1, <2>2
  <2>6. \A x \in Sessions : later[x] \subseteq keys[x]
    BY <1>1, <2>2
  <2> HIDE DEF q, later
  <2>7. /\ Owns(q, issued, data) /\ Knows(q, issued, data)
        /\ Awaits(q, exchange[t], issued, data)
    BY <1>2, <2>1, <2>2, <2>4 DEF Owns, Knows, Outdated, Awaits, At
  <2>8. Handled(q, exchange[t], issued, data)
    BY <1>2, <2>7 DEF Handled
  <2> QED BY <1>1, <2>1, <2>3, <2>5, <2>6, <2>8, OneHandler
<1>7. ASSUME Call(t) PROVE Inv'
  <2> DEFINE q == [tab[t] EXCEPT !.label = "wait"]
             e == [stage |-> "asked", request |-> RequestFor(tab[t]),
                   answer |-> None]
  <2>1. /\ At(t, "call") /\ exchange' = [exchange EXCEPT ![t] = e]
        /\ tab' = [tab EXCEPT ![t] = q]
        /\ UNCHANGED <<active, keys, issued, data>>
    BY <1>7 DEF Call, Provider!Ask, Goto, session
  <2>2. q \in Tab
    BY <1>1, TabTypes DEF Labels
  <2>3. /\ q.label = "wait" /\ q.form = tab[t].form /\ q.key = tab[t].key
        /\ q.session = tab[t].session /\ q.page = tab[t].page
        /\ q.seen = tab[t].seen /\ q.shown = tab[t].shown
    BY <1>1 DEF Tab
  <2>4. /\ e.stage = "asked" /\ e.request = Sent(q.form, q.key)
        /\ e # Provider!Nothing
    BY <2>3 DEF RequestFor, Sent, Provider!Nothing
  <2> HIDE DEF q, e
  <2>5. /\ tab[t].key \in Keys /\ tab[t].form # None
        /\ issued[tab[t].key] = tab[t].form
    BY <1>1, <1>2, <2>1 DEF Owns, At
  <2>6. About(e, tab[t].key, issued, data)
    BY <2>3, <2>4, <2>5 DEF About
  <2>7. /\ Owns(q, issued, data) /\ Knows(q, issued, data)
        /\ Awaits(q, e, issued, data)
    BY <1>2, <2>1, <2>3, <2>4 DEF Owns, Knows, Outdated, Awaits, At
  <2>8. Handled(q, e, issued, data)
    BY <2>5, <2>6, <2>7 DEF Handled, Exchanged
  <2> QED BY <1>1, <2>1, <2>2, <2>8, OneHandler
<1>8. ASSUME Receive(t) PROVE Inv'
  <2> DEFINE answer == exchange[t].answer
             key == tab[t].key
             page == IF answer.status = "conflict" THEN "conflict" ELSE "rejected"
  <2>1. /\ At(t, "wait") /\ exchange[t].stage = "performed"
        /\ exchange' = [exchange EXCEPT ![t] = Provider!Nothing]
        /\ UNCHANGED <<active, keys, issued, data>>
    BY <1>8 DEF Receive, Provider!Tell, session
  <2>2. /\ key \in Keys /\ tab[t].form \in Forms
        /\ issued[key] = tab[t].form /\ tab[t].page = "none"
    BY <1>1, <1>2, <2>1 DEF Owns, At
  <2>3. /\ exchange[t].request = Sent(tab[t].form, key)
        /\ exchange[t] # Provider!Nothing
        /\ tab[t].seen /\ answer.status # "ok" => Barred(key, issued, data)
    BY <1>2, <2>1 DEF Awaits, At
  <2>4. PICK k \in Keys : About(exchange[t], k, issued, data)
    BY <1>2, <2>3 DEF Exchanged
  <2>5. k = key
    BY <1>1, <2>2, <2>3, <2>4, KeyOfRequest
  <2>6. answer \in Answer /\ Answered(key, answer, data)
    BY <2>1, <2>4, <2>5 DEF About
  <2>7. CASE answer.status = "ok"
    <3> DEFINE q == [tab[t] EXCEPT !.label = "drop key"]
    <3>1. tab' = [tab EXCEPT ![t] = q]
      BY <1>8, <2>7 DEF Receive, Goto
    <3>2. q \in Tab
      BY <1>1, TabTypes DEF Labels
    <3>3. /\ q.label = "drop key" /\ q.form = tab[t].form /\ q.key = key
          /\ q.session = tab[t].session /\ q.page = "none"
          /\ q.seen = tab[t].seen
      BY <1>1, <2>2 DEF Tab
    <3> HIDE DEF q
    <3>4. data.results[key] # None
      BY <2>6, <2>7, AbsentAssumption DEF Answered
    <3>5. /\ Owns(q, issued, data) /\ Knows(q, issued, data)
          /\ Awaits(q, Provider!Nothing, issued, data)
      BY <1>2, <2>1, <3>3, <3>4 DEF Owns, Knows, Outdated, Awaits, At
    <3>6. Handled(q, Provider!Nothing, issued, data)
      BY <3>5, NothingExchanged DEF Handled
    <3> QED BY <1>1, <2>1, <3>1, <3>2, <3>6, OneHandler
  <2>8. CASE answer.status # "ok"
    <3>1. Refused(t, page)
      BY <1>8, <2>8 DEF Receive
    <3>2. page \in {"conflict", "rejected"}
      OBVIOUS
    <3>3. page = "conflict" /\ tab[t].seen => Barred(key, issued, data)
      BY <2>3, <2>8
    <3> QED BY <2>1, <3>1, <3>2, <3>3, NothingExchanged, RefusedHandler
  <2> QED BY <2>7, <2>8
<1>9. ASSUME Reject(t) PROVE Inv'
  <2>1. /\ At(t, "wait") /\ Refused(t, "rejected")
        /\ UNCHANGED <<active, keys, issued, data>>
        /\ exchange' = [u \in Tabs |-> IF u \in {t} THEN Provider!Nothing
                                       ELSE exchange[u]]
    BY <1>9 DEF Reject, Provider!GiveUp, session
  <2>2. exchange' = [exchange EXCEPT ![t] = Provider!Nothing]
    BY <2>1 DEF Inv, Typed
  <2> QED BY <2>1, <2>2, NothingExchanged, RefusedHandler
<1>10. ASSUME Fault(t) PROVE Inv'
  <2>1. /\ At(t, "wait") /\ Refused(t, "failed")
        /\ UNCHANGED <<active, keys, issued, data, exchange>>
    BY <1>10 DEF Fault, session, provider
  <2> QED BY <1>1, <1>2, <2>1, RefusedHandler
<1>11. ASSUME RefuseSystemRole(t) PROVE Inv'
  <2>1. /\ At(t, "find") /\ Refused(t, "rejected")
        /\ UNCHANGED <<active, keys, issued, data, exchange>>
    BY <1>11 DEF RefuseSystemRole, session, provider
  <2> QED BY <1>1, <1>2, <2>1, RefusedHandler
<1>12. ASSUME Abandon(t) PROVE Inv'
  <2>1. /\ tab[t].label \in {"idle", "reload"}
        /\ UNCHANGED <<active, keys, issued, data, tab>>
        /\ exchange' = [u \in Tabs |-> IF u \in {t} THEN Provider!Nothing
                                       ELSE exchange[u]]
    BY <1>12 DEF Abandon, Provider!GiveUp, session
  <2>2. exchange' = [exchange EXCEPT ![t] = Provider!Nothing]
    BY <2>1 DEF Inv, Typed
  <2>3. Awaits(tab[t], Provider!Nothing, issued, data)
    BY <2>1 DEF Awaits
  <2>4. Handled(tab[t], Provider!Nothing, issued, data)
    BY <1>2, <2>3, NothingExchanged DEF Handled
  <2>5. tab' = [tab EXCEPT ![t] = tab[t]]
    BY <1>1, <2>1
  <2> QED BY <1>1, <2>1, <2>2, <2>4, <2>5, OneHandler
<1>13. ASSUME Reload(t) PROVE Inv'
  <2> DEFINE shown == VersionFor(tab[t].form, data)
             q == [Idle EXCEPT !.form = tab[t].form, !.key = tab[t].key,
                               !.seen = tab[t].seen, !.page = tab[t].page,
                               !.shown = shown]
  <2>1. At(t, "reload") /\ UNCHANGED <<active, keys, issued, data, exchange>>
    BY <1>13 DEF Reload, session, provider
  <2>2. tab[t].form \in Forms /\ tab[t].seen \in BOOLEAN /\ tab[t].page \in Pages
    BY <1>1, <1>2, <2>1 DEF Owns, At, Tab
  <2>3. tab' = [tab EXCEPT ![t] = q]
    BY <1>13, <2>2, BasisIs DEF Reload, Report
  <2>4. shown \in Nat
    BY <1>1, <2>2, VersionForTypes
  <2>5. q \in Tab
    BY <1>1, <2>2, <2>4, TabTypes
  <2>6. /\ q.label = "idle" /\ q.form = tab[t].form /\ q.key = tab[t].key
        /\ q.page = tab[t].page /\ q.seen = tab[t].seen /\ q.shown = shown
    BY DEF Idle
  <2> HIDE DEF q
  <2>7. Outdated(tab[t]) =>
          Barred(tab[t].key, issued, data) /\ tab[t].form.expected < shown
    BY <1>2 DEF Knows, Owns, Outdated, Barred, Overtaken
  <2>8. Owns(q, issued, data) /\ Awaits(q, exchange[t], issued, data)
    BY <1>2, <2>6 DEF Owns, Awaits
  <2>9. Knows(q, issued, data)
    BY <1>2, <2>6, <2>7 DEF Knows, Outdated
  <2>10. Handled(q, exchange[t], issued, data)
    BY <1>2, <2>8, <2>9 DEF Handled
  <2> QED BY <1>1, <2>1, <2>3, <2>5, <2>10, OneHandler
<1> QED BY <1>3, <1>4, <1>5, <1>6, <1>7, <1>8, <1>9, <1>10, <1>11, <1>12, <1>13

(* A handler finds the key of its draft, or has one drawn.                 *)
LEMMA DraftKeyStep ==
  ASSUME Inv, NEW t \in Tabs, DraftKey(t)
  PROVE  Inv'
<1> DEFINE s == tab[t].session
           form == tab[t].form
           Q(key) == [tab[t] EXCEPT !.label = "call", !.key = key]
<1>1. /\ tab[t] \in Tab /\ tab[t].form \in Forms \cup {None}
      /\ tab[t].session \in Sessions \cup {None}
      /\ data \in State /\ issued \in [Keys -> Forms \cup {None}]
      /\ keys \in [Sessions -> SUBSET Draft]
      /\ \A x \in Sessions : keys[x] \subseteq keys[x]
      /\ exchange = [exchange EXCEPT ![t] = exchange[t]]
  BY InvTypes
<1>2. Owns(tab[t], issued, data) /\ Exchanged(exchange[t], issued, data)
  BY InvTypes DEF Handled
<1>3. At(t, "key") /\ s \in active /\ UNCHANGED <<active, data, exchange>>
  BY DEF DraftKey, Live, provider
<1>4. /\ s \in Sessions /\ form \in Forms /\ form # None
      /\ Vetted(form) /\ tab[t].page = "none"
      /\ tab[t].seen => Founded(form, data)
  BY <1>1, <1>2, <1>3 DEF Owns, At
<1>5. ASSUME NEW key \in Keys
      PROVE  /\ Q(key) \in Tab
             /\ Q(key).label = "call" /\ Q(key).key = key
             /\ Q(key).form = form /\ Q(key).session = s
             /\ Q(key).page = "none" /\ Q(key).seen = tab[t].seen
  <2>1. Q(key) \in Tab
    BY <1>1, TabTypes DEF Labels
  <2> QED BY <1>1, <1>4, <2>1 DEF Tab
<1>6. \A key \in Keys : key # None
  BY AbsentAssumption
<1> HIDE DEF Q
<1>7. ASSUME NEW key \in Keys, NEW drawn, drawn[key] = form,
             Exchanged(exchange[t], drawn, data)
      PROVE  Handled(Q(key), exchange[t], drawn, data)
  <2> DEFINE q == Q(key)
  <2>3. /\ q.label = "call" /\ q.key = key /\ q.form = form /\ q.session = s
        /\ q.page = "none" /\ q.seen = tab[t].seen
        /\ s # None /\ key # None
    BY <1>4, <1>5, <1>6
  <2> HIDE DEF q
  <2>1. Owns(q, drawn, data)
    BY <1>4, <1>7, <2>3 DEF Owns
  <2>2. Knows(q, drawn, data) /\ Awaits(q, exchange[t], drawn, data)
    BY <2>3 DEF Knows, Outdated, Awaits
  <2> QED BY <1>7, <2>1, <2>2 DEF Handled, q
<1>8. ASSUME Kept(s, form) # {}, UNCHANGED <<keys, issued>>,
             tab' = [tab EXCEPT
                       ![t].label = "call",
                       ![t].key = (CHOOSE draft \in Kept(s, form) : TRUE).key]
      PROVE  Inv'
  <2> DEFINE draft == CHOOSE d \in Kept(s, form) : TRUE
             key == draft.key
  <2>1. draft \in keys[s] /\ draft.form = form
    BY <1>8 DEF Kept
  <2>2. draft \in Draft /\ issued[key] = form
    BY <1>1, <1>4, <2>1 DEF Inv, DraftsOwned
  <2>3. key \in Keys
    BY <2>2 DEF Draft
  <2>4. tab' = [tab EXCEPT ![t] = Q(key)]
    BY <1>8 DEF Q
  <2> HIDE DEF key
  <2>5. Handled(Q(key), exchange[t], issued, data)
    BY <1>2, <1>7, <2>2, <2>3
  <2> QED BY <1>1, <1>3, <1>5, <1>8, <2>3, <2>4, <2>5, OneHandler
<1>9. ASSUME NEW key \in Keys, issued[key] = None, Cardinality(keys[s]) < MaxDrafts,
             keys' = [keys EXCEPT ![s] = @ \cup {[form |-> form, key |-> key]}],
             issued' = [issued EXCEPT ![key] = form],
             tab' = [tab EXCEPT ![t].label = "call", ![t].key = key]
      PROVE  Inv'
  <2> DEFINE draft == [form |-> form, key |-> key]
  <2>1. /\ issued' \in [Keys -> Forms \cup {None}]
        /\ Grown(issued, data, issued', data)
        /\ Books(issued', data)
    BY <1>1, <1>4, <1>9, DrawKeeps DEF Inv
  <2>2. draft \in Draft /\ draft.form = form /\ draft.key = key
    BY <1>4 DEF Draft
  <2> HIDE DEF draft
  <2>3. /\ keys'[s] = keys[s] \cup {draft}
        /\ \A x \in Sessions \ {s} : keys'[x] = keys[x]
        /\ keys' \in [Sessions -> SUBSET Draft]
    BY <1>1, <1>4, <1>9, <2>2 DEF draft
  <2>4. IsFiniteSet(keys'[s]) /\ Cardinality(keys'[s]) <= MaxDrafts
    <3>1. IsFiniteSet(keys[s]) /\ Cardinality(keys[s]) \in Nat
      BY <1>4, FS_CardinalityType DEF Inv, Typed
    <3>2. /\ IsFiniteSet(keys[s] \cup {draft})
          /\ \/ Cardinality(keys[s] \cup {draft}) = Cardinality(keys[s])
             \/ Cardinality(keys[s] \cup {draft}) = Cardinality(keys[s]) + 1
      BY <3>1, FS_AddElement
    <3>3. /\ Cardinality(keys[s]) + 1 <= MaxDrafts
          /\ Cardinality(keys[s]) <= MaxDrafts
      <4> DEFINE c == Cardinality(keys[s])
      <4>1. c \in Nat /\ c < MaxDrafts /\ MaxDrafts \in Nat
        BY <1>9, <3>1
      <4> HIDE DEF c
      <4>2. c + 1 <= MaxDrafts /\ c <= MaxDrafts
        BY <4>1
      <4> QED BY <4>2 DEF c
    <3> QED BY <2>3, <3>2, <3>3
  <2>5. tab' = [tab EXCEPT ![t] = Q(key)]
    BY <1>9 DEF Q
  <2>6. tab' \in [Tabs -> Tab]
    BY <1>5, <2>5 DEF Inv, Typed, TypeOK
  <2>7. TypeOK'
    BY <1>3, <1>4, <2>1, <2>3, <2>4, <2>6 DEF Inv, Typed, TypeOK
  <2>8. Typed'
    BY <1>3, <2>3, <2>4, <2>7 DEF Inv, Typed
  <2>9. DraftsOwned'
    <3>1. \A x \in Sessions : \A d \in keys[x] :
            d.key \in Keys /\ issued[d.key] = d.form /\ d.form \in Forms
      BY <1>1 DEF Inv, DraftsOwned, Draft
    <3>2. \A x \in Sessions : \A d \in keys[x] : issued'[d.key] = d.form
      BY <2>1, <3>1, FormTypes DEF Grown
    <3>3. issued'[key] = form
      BY <1>1, <1>9
    <3> QED BY <2>2, <2>3, <3>2, <3>3 DEF DraftsOwned
  <2>10. ASSUME NEW u \in Tabs
         PROVE  Handled(tab'[u], exchange'[u], issued', data')
    <3>1. Handled(tab[u], exchange[u], issued', data)
      <4>1. tab[u] \in Tab /\ Handled(tab[u], exchange[u], issued, data)
        BY InvTypes
      <4> QED BY <1>1, <2>1, <4>1, HandledStays
    <3>2. CASE u = t
      <4>1. tab'[u] = Q(key)
        BY <2>5, <3>2 DEF Inv, Typed, TypeOK
      <4>2. issued'[key] = form
        BY <1>1, <1>9
      <4>3. Exchanged(exchange[t], issued', data)
        BY <3>1, <3>2 DEF Handled
      <4>4. Handled(Q(key), exchange[t], issued', data)
        BY <1>7, <4>2, <4>3
      <4> QED BY <1>3, <3>2, <4>1, <4>4
    <3>3. CASE u # t
      <4>1. tab'[u] = tab[u]
        BY <2>5, <3>3 DEF Inv, Typed, TypeOK
      <4> QED BY <1>3, <3>1, <4>1
    <3> QED BY <3>2, <3>3
  <2>11. Books(issued', data')
    BY <1>3, <2>1
  <2> QED BY <2>8, <2>9, <2>10, <2>11 DEF Inv
<1> QED BY <1>8, <1>9 DEF DraftKey

(* The provider performs what it was asked for.                            *)
LEMMA PerformStep ==
  ASSUME Inv, NEW t \in Tabs, Perform(t)
  PROVE  Inv'
<1> DEFINE outcome == Serve(data, exchange[t].request)
           e == [stage |-> "performed", request |-> exchange[t].request,
                 answer |-> outcome.answer]
<1>1. data \in State /\ issued \in [Keys -> Forms \cup {None}]
  BY InvTypes
<1>2. /\ Exchanged(exchange[t], issued, data) /\ Awaits(tab[t], exchange[t], issued, data)
  BY InvTypes DEF Handled
<1>3. exchange[t].stage = "asked" /\ UNCHANGED <<active, keys, issued, tab>>
  BY DEF Perform, Provider!Perform, session
<1>4. PICK key \in Keys : About(exchange[t], key, issued, data)
  BY <1>2, <1>3 DEF Exchanged, Provider!Nothing
<1>5. issued[key] \in Forms /\ exchange[t].request = Sent(issued[key], key)
  BY <1>1, <1>4 DEF About
<1>6. Provider!Serve(data, exchange[t].request) = outcome
  BY <1>5, SameServe, SentTypes
<1>7. data' = outcome.state /\ exchange' = [exchange EXCEPT ![t] = e]
  BY <1>6 DEF Perform, Provider!Perform
<1>8. /\ outcome.state \in State
      /\ Grown(issued, data, issued, outcome.state)
      /\ Books(issued, outcome.state)
      /\ About(e, key, issued, outcome.state)
      /\ Founded(issued[key], data) /\ outcome.answer.status # "ok" =>
           Barred(key, issued, outcome.state)
  BY <1>1, <1>5, PerformKeeps, FormTypes DEF Inv
<1>9. /\ e # Provider!Nothing /\ e.request = exchange[t].request
      /\ e.answer = outcome.answer
  BY DEF Provider!Nothing
<1> HIDE DEF outcome, e
<1>10. Typed' /\ DraftsOwned'
  BY <1>3, <1>7, <1>8 DEF Inv, Typed, TypeOK, DraftsOwned
<1>11. ASSUME NEW u \in Tabs
       PROVE  Handled(tab'[u], exchange'[u], issued', data')
  <2>1. Handled(tab[u], exchange[u], issued, outcome.state)
    <3>1. tab[u] \in Tab /\ Handled(tab[u], exchange[u], issued, data)
      BY InvTypes
    <3> QED BY <1>1, <1>8, <3>1, HandledStays
  <2>2. CASE u = t
    <3>1. exchange'[u] = e
      BY <1>7, <2>2 DEF Inv, Typed
    <3>2. Exchanged(e, issued, outcome.state)
      BY <1>8 DEF Exchanged
    <3>3. Awaits(tab[t], e, issued, outcome.state)
      <4> SUFFICES ASSUME tab[t].label = "wait"
                   PROVE  /\ e # Provider!Nothing
                          /\ e.request = Sent(tab[t].form, tab[t].key)
                          /\ tab[t].seen /\ e.answer.status # "ok" =>
                               Barred(tab[t].key, issued, outcome.state)
        BY DEF Awaits
      <4>1. exchange[t].request = Sent(tab[t].form, tab[t].key)
        BY <1>2 DEF Awaits
      <4>2. /\ tab[t].form \in Forms /\ tab[t].key \in Keys
            /\ issued[tab[t].key] = tab[t].form
            /\ tab[t].seen => Founded(tab[t].form, data)
        BY InvTypes DEF Handled, Owns
      <4>3. key = tab[t].key
        BY <1>1, <1>4, <4>1, <4>2, KeyOfRequest
      <4> QED BY <1>8, <1>9, <4>1, <4>2, <4>3
    <3>4. Handled(tab[u], e, issued, outcome.state)
      BY <2>1, <2>2, <3>2, <3>3 DEF Handled
    <3> QED BY <1>3, <1>7, <3>1, <3>4
  <2>3. CASE u # t
    <3>1. exchange'[u] = exchange[u]
      BY <1>7, <2>3 DEF Inv, Typed
    <3> QED BY <1>3, <1>7, <2>1, <3>1
  <2> QED BY <2>2, <2>3
<1>12. Books(issued', data')
  BY <1>3, <1>7, <1>8
<1> QED BY <1>10, <1>11, <1>12 DEF Inv

LEMMA TeardownStep ==
  ASSUME Inv, NEW s \in Sessions, Teardown(s)
  PROVE  Inv'
<1>1. /\ active' = active \ {s} /\ keys' = [keys EXCEPT ![s] = {}]
      /\ UNCHANGED <<issued, tab, data, exchange>>
  BY DEF Teardown, provider
<1>2. keys \in [Sessions -> SUBSET Draft]
  BY DEF Inv, Typed, TypeOK
<1>3. /\ keys' \in [Sessions -> SUBSET Draft] /\ keys'[s] = {}
      /\ \A x \in Sessions : keys'[x] \subseteq keys[x]
  BY <1>1, <1>2
<1>4. /\ \A x \in Sessions : IsFiniteSet(keys'[x])
      /\ \A x \in Sessions : Cardinality(keys'[x]) <= MaxDrafts
      /\ \A x \in Sessions \ active : keys'[x] = {}
      /\ \A x \in Sessions : \A draft \in keys'[x] :
           issued[draft.key] = draft.form
  BY <1>3, FewerDrafts DEF Inv
<1>5. TypeOK'
  BY <1>1, <1>3, <1>4 DEF Inv, Typed, TypeOK
<1>6. Typed' /\ DraftsOwned'
  BY <1>1, <1>4, <1>5 DEF Inv, Typed, DraftsOwned
<1>7. Books(issued', data')
  BY <1>1 DEF Inv
<1>8. ASSUME NEW u \in Tabs PROVE Handled(tab'[u], exchange'[u], issued', data')
  BY <1>1 DEF Inv
<1> QED BY <1>6, <1>7, <1>8 DEF Inv

LEMMA InvInit == Init => Inv
<1> SUFFICES ASSUME Init PROVE Inv
  OBVIOUS
<1>1. /\ data = initialState /\ exchange = [t \in Tabs |-> Provider!Nothing]
  BY SameServe DEF Init, Provider!Init
<1>2. /\ active = Sessions /\ keys = [s \in Sessions |-> {}]
      /\ issued = [k \in Keys |-> None] /\ tab = [t \in Tabs |-> Idle]
  BY DEF Init
<1>3. TypeOK
  <2>1. Cardinality({}) = 0 /\ 0 <= MaxDrafts
    BY FS_EmptySet
  <2>2. keys \in [Sessions -> SUBSET Draft] /\ \A s \in Sessions : keys[s] = {}
    BY <1>2
  <2>3. issued \in [Keys -> Forms \cup {None}] /\ tab \in [Tabs -> Tab]
    BY <1>2, TabTypes
  <2>4. data \in State
    BY <1>1, InitialTypes
  <2> QED BY <1>2, <2>1, <2>2, <2>3, <2>4 DEF TypeOK
<1>4. Typed /\ DraftsOwned
  BY <1>1, <1>2, <1>3, FS_EmptySet DEF Typed, DraftsOwned
<1>5. \A t \in Tabs : Handled(tab[t], exchange[t], issued, data)
  BY <1>1, <1>2, IdleHandled, NothingExchanged
<1>6. KeysDrawn(issued) /\ ResultsTold(issued, data)
  BY <1>1, <1>2 DEF KeysDrawn, ResultsTold, initialState
<1>7. TrailPassed(issued, data) /\ TrailOnce(issued, data)
  BY <1>1 DEF TrailPassed, TrailOnce, initialState
<1> QED BY <1>1, <1>4, <1>5, <1>6, <1>7, InitialTrail DEF Inv, Books

LEMMA InvStep == Inv /\ [Next]_vars => Inv'
<1> SUFFICES ASSUME Inv, [Next]_vars PROVE Inv'
  OBVIOUS
<1>1. ASSUME NEW t \in Tabs, NEW s \in Sessions, NEW form \in Forms,
             Submit(t, s, form)
      PROVE  Inv'
  BY <1>1, HandlerStep
<1>2. ASSUME NEW t \in Tabs, Step(t) PROVE Inv'
  BY <1>2, HandlerStep, DraftKeyStep, PerformStep DEF Step
<1>3. ASSUME NEW s \in Sessions, Teardown(s) PROVE Inv'
  BY <1>3, TeardownStep
<1>4. ASSUME UNCHANGED vars PROVE Inv'
  BY <1>4 DEF vars, session, provider, Inv, Typed, TypeOK, DraftsOwned
<1> QED BY <1>1, <1>2, <1>3, <1>4 DEF Next

-----------------------------------------------------------------------------
(* Studio as a client of the provider *)

(* What a step of a handler, a call or a teardown is for the provider.     *)
LEMMA ProviderStep ==
  Inv /\ [Next]_vars => [Provider!Next]_<<data, exchange, heard>>
<1> SUFFICES ASSUME Inv, [Next]_vars
             PROVE  [Provider!Next]_<<data, exchange, heard>>
  OBVIOUS
<1>1. ASSUME NEW t \in Tabs, Call(t) PROVE Provider!Next
  <2> DEFINE r == RequestFor(tab[t])
  <2>1. Owns(tab[t], issued, data) /\ tab[t].label = "call"
    BY <1>1, InvTypes DEF Call, Handled, At
  <2>2. tab[t].key \in Keys /\ tab[t].form \in Forms
    BY <2>1, InvTypes DEF Owns
  <2>3. r = Sent(tab[t].form, tab[t].key)
    BY DEF RequestFor, Sent
  <2>4. r \in Request /\ WellFormed(r)
    BY <2>2, <2>3, SentTypes
  <2>5. Provider!Ask(t, r)
    BY <1>1 DEF Call
  <2> QED BY <2>4, <2>5 DEF Provider!Next
<1>2. ASSUME NEW t \in Tabs, Perform(t) PROVE Provider!Next
  BY <1>2 DEF Perform, Provider!Next
<1>3. ASSUME NEW t \in Tabs, Receive(t) PROVE Provider!Next
  BY <1>3 DEF Receive, Provider!Next
<1>4. ASSUME NEW t \in Tabs, Abandon(t) \/ Reject(t) PROVE Provider!Next
  <2>1. {t} \in SUBSET Tabs /\ Provider!GiveUp({t})
    BY <1>4 DEF Abandon, Reject
  <2> QED BY <2>1 DEF Provider!Next
<1>5. ASSUME NEW t \in Tabs,
             \/ Fail(t) \/ FindRole(t) \/ DraftKey(t) \/ ClearDraft(t)
             \/ RefuseSystemRole(t) \/ Fault(t) \/ Lose(t) \/ Reload(t)
      PROVE  UNCHANGED provider
  BY <1>5 DEF Fail, FindRole, DraftKey, ClearDraft, RefuseSystemRole, Fault,
              Lose, Reload
<1>6. ASSUME NEW t \in Tabs, NEW s \in Sessions, NEW form \in Forms,
             Submit(t, s, form)
      PROVE  UNCHANGED provider
  BY <1>6 DEF Submit
<1>7. ASSUME NEW s \in Sessions, Teardown(s) PROVE UNCHANGED provider
  BY <1>7 DEF Teardown
<1>8. CASE UNCHANGED vars
  BY <1>8 DEF vars, provider
<1>9. UNCHANGED provider => UNCHANGED <<data, exchange, heard>>
  BY DEF provider
<1> QED BY <1>1, <1>2, <1>3, <1>4, <1>5, <1>6, <1>7, <1>8, <1>9 DEF Next, Step

-----------------------------------------------------------------------------
(* Theorems *)

(* The inductive invariant: a key stands for one form, an exchange carries *)
(* the request of its key, an answer other than ok bars a form that a list *)
(* displayed, and the trail tells of forms whose version has passed        *)
(* (identity.go, operations.go).                                           *)
THEOREM AlwaysInv == Spec => []Inv
BY InvInit, InvStep, PTL DEF Spec

(* Every reachable state is well typed, no session has more drafts than    *)
(* maxSessionDrafts, and a session that was torn down has none.            *)
THEOREM AlwaysTypeOK == Spec => []TypeOK
<1>1. Inv => TypeOK
  BY DEF Inv, Typed
<1> QED BY <1>1, AlwaysInv, PTL

(* A page that reports success is about a durable change that the provider *)
(* recorded for this very form.                                            *)
THEOREM AlwaysDoneMeansStored == Spec => []DoneMeansStored
<1>1. Inv => DoneMeansStored
  <2> SUFFICES ASSUME Inv, NEW t \in Tabs, tab[t].page = "done"
               PROVE  /\ data.results[tab[t].key].target = tab[t].form.target
                      /\ data.results[tab[t].key].detail = tab[t].form.detail
                      /\ \E i \in DOMAIN data.audits :
                           RecordOf(data.audits[i], tab[t].key, tab[t].form)
    BY DEF DoneMeansStored, RecordOf
  <2>1. /\ tab[t].key \in Keys \cup {None}
        /\ Owns(tab[t], issued, data) /\ Knows(tab[t], issued, data)
    BY InvTypes DEF Handled
  <2>2. /\ tab[t].key \in Keys /\ issued[tab[t].key] = tab[t].form
        /\ data.results[tab[t].key] # None
    BY <2>1 DEF Owns, Knows
  <2> QED BY <2>2 DEF Inv, Books, ResultsTold
<1> QED BY <1>1, AlwaysInv, PTL

(* A page that reports a version conflict on a form that a list displayed  *)
(* is about a form that never takes effect under its key, before or after. *)
THEOREM AlwaysRefusedMeansUntouched == Spec => []RefusedMeansUntouched
<1>1. Inv => RefusedMeansUntouched
  BY DEF Inv, Handled, Knows, Outdated, Barred, RefusedMeansUntouched
<1> QED BY <1>1, AlwaysInv, PTL

(* Whatever a session is shown short of a success, the next try of a form  *)
(* goes out under the same key: a key is given up only for a form that the *)
(* audit trail has a change for, or with its session.                      *)
THEOREM AlwaysFailuresKeepTheKey == Spec => FailuresKeepTheKey
<1> DEFINE KeysKept == \A s \in active' : \A draft \in keys[s] \ keys'[s] :
                      Applied(draft.form)
<1>1. ASSUME Inv, NEW t \in Tabs, ClearDraft(t) PROVE KeysKept
  <2>1. /\ At(t, "drop key") /\ active' = active /\ active \subseteq Sessions
        /\ keys' = [keys EXCEPT ![tab[t].session] = @ \ Kept(tab[t].session, tab[t].form)]
        /\ keys \in [Sessions -> SUBSET Draft]
    BY <1>1 DEF ClearDraft, Inv, Typed, TypeOK
  <2>2. /\ tab[t].key \in Keys \cup {None}
        /\ Owns(tab[t], issued, data) /\ Knows(tab[t], issued, data)
    BY <1>1, InvTypes DEF Handled
  <2>3. /\ tab[t].key \in Keys /\ issued[tab[t].key] = tab[t].form
        /\ data.results[tab[t].key] # None
    BY <2>1, <2>2 DEF Owns, Knows, At
  <2>4. Applied(tab[t].form)
    <3>1. PICK i \in DOMAIN data.audits :
            RecordOf(data.audits[i], tab[t].key, issued[tab[t].key])
      BY <1>1, <2>3 DEF Inv, Books, ResultsTold
    <3>2. data.audits[i].key = tab[t].key /\ tab[t].key # None
      BY <2>3, <3>1, AbsentAssumption DEF RecordOf
    <3> QED BY <2>3, <3>2 DEF Applied
  <2>5. ASSUME NEW s \in active', NEW draft \in keys[s] \ keys'[s]
        PROVE  draft.form = tab[t].form
    BY <2>1, <2>5 DEF Kept
  <2> QED BY <2>4, <2>5
<1>2. ASSUME Inv, NEW t \in Tabs, DraftKey(t) PROVE KeysKept
  <2>1. \A s \in active' : keys[s] \subseteq keys'[s]
    BY <1>2 DEF DraftKey, Inv, Typed, TypeOK
  <2> QED BY <2>1
<1>3. ASSUME Inv, NEW x \in Sessions, Teardown(x) PROVE KeysKept
  <2>1. \A s \in active' : keys[s] = keys'[s]
    BY <1>3 DEF Teardown, Inv, Typed, TypeOK
  <2> QED BY <2>1
<1>4. ASSUME NEW t \in Tabs,
             \/ \E s \in Sessions, form \in Forms : Submit(t, s, form)
             \/ Fail(t) \/ FindRole(t) \/ RefuseSystemRole(t)
             \/ Call(t) \/ Perform(t) \/ Receive(t) \/ Reject(t) \/ Fault(t)
             \/ Lose(t) \/ Abandon(t) \/ Reload(t)
      PROVE  keys' = keys
  BY <1>4 DEF Submit, Fail, FindRole, RefuseSystemRole, Call, Perform, Receive,
              Reject, Fault, Lose, Abandon, Reload, session
<1>5. keys' = keys => KeysKept
  OBVIOUS
<1>6. UNCHANGED vars => keys' = keys
  BY DEF vars, session
<1>7. Inv /\ [Next]_vars => [KeysKept]_vars
  BY <1>1, <1>2, <1>3, <1>4, <1>5, <1>6 DEF Next, Step
<1> QED BY <1>7, AlwaysInv, PTL DEF Spec, FailuresKeepTheKey

(* However often, from however many tabs and sessions and under however    *)
(* many keys a form is submitted, it takes effect at most once.            *)
THEOREM AlwaysFormsApplyOnce == Spec => []FormsApplyOnce
<1>1. Inv => FormsApplyOnce
  BY DEF Inv, Books, TrailOnce, FormsApplyOnce
<1> QED BY <1>1, AlwaysInv, PTL

(* The list on the page of a version conflict displays a newer version     *)
(* than the submitted one, if that was one a list displayed.               *)
THEOREM AlwaysConflictShowsCurrent == Spec => []ConflictShowsCurrent
<1>1. Inv => ConflictShowsCurrent
  <2> SUFFICES ASSUME Inv, NEW t \in Tabs, At(t, "idle"),
                      tab[t].page = "conflict", tab[t].seen
               PROVE  tab[t].shown > tab[t].form.expected
    BY DEF ConflictShowsCurrent
  <2>1. /\ tab[t].form \in Forms \cup {None} /\ tab[t] \in Tab
        /\ Owns(tab[t], issued, data) /\ Knows(tab[t], issued, data)
    BY InvTypes DEF Handled
  <2>2. tab[t].form \in Forms /\ tab[t].form.expected < tab[t].shown
    BY <2>1 DEF Owns, Knows, Outdated, At
  <2>3. tab[t].form.expected \in Nat /\ tab[t].shown \in Nat
    BY <2>1, <2>2, FormTypes DEF Tab
  <2> QED BY <2>2, <2>3
<1> QED BY <1>1, AlwaysInv, PTL

(* The audit trail has a record for each step of each version.             *)
THEOREM AlwaysAuditTellsVersions == Spec => []AuditTellsVersions
<1>1. Inv => AuditTellsVersions
  BY DEF Inv, Books, TrailTells, Tally, Accepted, UserKinds, RoleKinds,
         AuditTellsVersions
<1> QED BY <1>1, AlwaysInv, PTL

(* The handlers meet the provider only through the exchanges that          *)
(* AtomicProvider describes, and ask it only for well-formed requests, the *)
(* ones that the local provider is proved to serve atomically.             *)
THEOREM UsesProvider == Spec => Provider!Spec
<1>1. Init => Provider!Init
  BY DEF Init
<1> QED BY <1>1, ProviderStep, AlwaysInv, PTL DEF Spec, Provider!Spec

=============================================================================
