------------------------ MODULE ProviderStoreProofs ------------------------
(* What serving one request preserves, for every state and request. *)
EXTENDS ProviderStore, FiniteSetTheorems, TLAPS

USE SeedAssumption, AbsentAssumption

-----------------------------------------------------------------------------
(* Types *)

LEMMA InitialTypes == initialState \in State
BY DEF initialState, State, Entity, User, Role, Run, Task, Record, Statuses,
       Mutations, Confirmed, Targets

LEMMA BareTypes ==
  ASSUME NEW status \in {"ok", "invalid", "missing", "conflict"}
  PROVE  Bare(status) \in Answer
BY DEF Bare, Answer

LEMMA ResultTypes ==
  ASSUME NEW request \in Request, NEW version \in Nat
  PROVE  Result(request, version) \in Answer
BY DEF Result, Bare, Answer, Request

(* Keeping a result and recording a mutation leave the state well typed,   *)
(* and so does an accepted mutation.                                       *)
LEMMA CacheTypes ==
  ASSUME NEW state \in State, NEW request \in Request, NEW version \in Nat
  PROVE  Cache(state, request, version) \in State
BY ResultTypes DEF Cache, State

LEMMA AuditTypes ==
  ASSUME NEW state \in State, NEW request \in Request, NEW version \in Nat,
         request.kind \in Mutations
  PROVE  Audit(state, request, version) \in State
<1> DEFINE record == [key |-> request.key, action |-> request.kind,
                      target |-> request.target, version |-> version]
<1>1. record \in Record
  BY DEF Record, Request
<1>2. Append(state.audits, record) \in Seq(Record)
  BY <1>1 DEF State
<1> QED BY <1>2 DEF Audit, State

LEMMA RefuseTypes ==
  ASSUME NEW state \in State,
         NEW status \in {"ok", "invalid", "missing", "conflict"}
  PROVE  /\ Refuse(state, status).state \in State
         /\ Refuse(state, status).answer \in Answer
BY BareTypes DEF Refuse

(* The resources of a well-typed state.                                    *)
LEMMA PartTypes ==
  ASSUME NEW state \in State
  PROVE  /\ \A e \in Entities : state.entities[e] \in Entity
         /\ \A u \in Users : state.users[u] \in User
         /\ \A r \in Roles : state.roles[r] \in Role
         /\ state.run \in Run /\ state.task \in Task /\ state.plan \in Entity
BY DEF State

LEMMA VersionTypes ==
  /\ \A entity \in Entity : entity.version \in Nat
  /\ \A user \in User : user.version \in Nat /\ user.roles \in SUBSET Roles
  /\ \A role \in Role : role.version \in Nat
  /\ \A run \in Run : run.version \in Nat
  /\ \A task \in Task : task.version \in Nat /\ task.attempt \in Nat
BY DEF Entity, User, Role, Run, Task

LEMMA RestartTypes ==
  ASSUME NEW run \in Run
  PROVE  [run EXCEPT !.version = @ + 1, !.state = "running"] \in Run
<1>1. run.version + 1 \in Nat
  BY DEF Run
<1> QED BY <1>1, Zenon DEF Run

LEMMA RequestTypes ==
  ASSUME NEW request \in Request, WellFormed(request)
  PROVE  /\ request.kind \in {"put", "plan-delete", "delete"} =>
              request.target \in Entities
         /\ request.kind \in {"create-user", "status", "assign", "revoke"} =>
              request.target \in Users
         /\ request.kind \in {"create-role", "rename-role"} =>
              request.target \in Roles
         /\ request.kind \in {"put", "create-role", "rename-role", "publish"} =>
              request.detail \in Details
         /\ request.kind = "status" => request.detail \in Statuses
         /\ request.kind \in {"assign", "revoke"} => request.detail \in Roles
         /\ request.expected \in Nat
BY DEF Request, WellFormed, TargetsOf, DetailsOf

-----------------------------------------------------------------------------
(* What a request leaves behind *)

(* Nothing changes, and an ok answer to a mutation is the kept result.     *)
Unchanged(state, request, outcome) ==
  /\ outcome.state = state
  /\ request.kind \in Mutations /\ outcome.answer.status = "ok" =>
       state.results[request.key] = outcome.answer

(* The mutation takes effect under a fresh key: its answer is kept, and it *)
(* is recorded unless it is only a plan.                                   *)
Effective(state, request, outcome) ==
  /\ request.kind \in Mutations
  /\ state.results[request.key] = None
  /\ outcome.state.results = [state.results EXCEPT ![request.key] = outcome.answer]
  /\ \/ outcome.state.audits = state.audits
     \/ \E record \in Record :
          /\ record.key = request.key
          /\ outcome.state.audits = Append(state.audits, record)

(* What mutations owe their callers: a well-typed outcome and, under a     *)
(* fresh key, no effect or one that is kept and recorded.                  *)
Proper(state, request, outcome) ==
  /\ outcome.state \in State /\ outcome.answer \in Answer
  /\ state.results[request.key] = None =>
       \/ Unchanged(state, request, outcome)
       \/ Effective(state, request, outcome)

(* after differs from state in a resource only.                            *)
Keeps(state, after) ==
  /\ after \in State
  /\ after.results = state.results
  /\ after.audits = state.audits

LEMMA RefuseOutcome ==
  ASSUME NEW state, NEW request, NEW status \in {"invalid", "missing", "conflict"}
  PROVE  Unchanged(state, request, Refuse(state, status))
BY DEF Unchanged, Refuse, Bare

LEMMA RecordOutcome ==
  ASSUME NEW state \in State, NEW request \in Request, WellFormed(request),
         request.kind \in Mutations, state.results[request.key] = None,
         NEW after, Keeps(state, after),
         NEW version \in Nat, NEW recorded \in Nat
  PROVE  Effective(state, request,
           [state  |-> Audit(Cache(after, request, version), request, recorded),
            answer |-> Result(request, version)])
<1> DEFINE record == [key |-> request.key, action |-> request.kind,
                      target |-> request.target, version |-> recorded]
           cached == Cache(after, request, version)
<1>1. record \in Record
  BY DEF Record, Request
<1>2. /\ cached \in State
      /\ cached.results = [state.results EXCEPT ![request.key] =
                             Result(request, version)]
      /\ cached.audits = state.audits
  BY CacheTypes DEF Cache, State, Keeps
<1> HIDE DEF cached
<1>3. /\ Audit(cached, request, recorded).results = cached.results
      /\ Audit(cached, request, recorded).audits = Append(cached.audits, record)
  BY <1>2 DEF Audit, State
<1> QED BY <1>1, <1>2, <1>3 DEF Effective, cached

(* Replacing a resource by a well-typed one.                               *)
LEMMA UpdateKeeps ==
  ASSUME NEW state \in State
  PROVE  /\ \A e \in Entities, entity \in Entity :
              Keeps(state, [state EXCEPT !.entities[e] = entity])
         /\ \A u \in Users, user \in User :
              Keeps(state, [state EXCEPT !.users[u] = user])
         /\ \A r \in Roles, role \in Role :
              Keeps(state, [state EXCEPT !.roles[r] = role])
         /\ \A run \in Run :
              Keeps(state, [state EXCEPT !.run = run])
         /\ \A run \in Run, task \in Task :
              Keeps(state, [state EXCEPT !.task = task, !.run = run])
         /\ \A plan \in Entity :
              Keeps(state, [state EXCEPT !.plan = plan])
BY DEF State, Keeps

LEMMA RefuseProper ==
  ASSUME NEW state \in State, NEW request \in Request,
         NEW status \in {"invalid", "missing", "conflict"}
  PROVE  Proper(state, request, Refuse(state, status))
BY RefuseTypes, RefuseOutcome DEF Proper

LEMMA RecordProper ==
  ASSUME NEW state \in State, NEW request \in Request, WellFormed(request),
         request.kind \in Mutations,
         NEW after, Keeps(state, after),
         NEW version \in Nat, NEW recorded \in Nat
  PROVE  Proper(state, request,
           [state  |-> Audit(Cache(after, request, version), request, recorded),
            answer |-> Result(request, version)])
<1>1. after \in State /\ Cache(after, request, version) \in State
  BY CacheTypes DEF Keeps
<1>2. Audit(Cache(after, request, version), request, recorded) \in State
  BY <1>1, AuditTypes
<1> QED BY <1>2, ResultTypes, RecordOutcome DEF Proper

LEMMA AcceptProper ==
  ASSUME NEW state \in State, NEW request \in Request, WellFormed(request),
         request.kind \in Mutations,
         NEW after, Keeps(state, after), NEW version \in Nat
  PROVE  Proper(state, request, Accept(after, request, version))
BY RecordProper DEF Accept

(* Every handler: a mutation is well typed and leaves one of the two.      *)
LEMMA MutateProper ==
  ASSUME NEW state \in State, NEW request \in Request, WellFormed(request),
         request.kind \in Mutations
  PROVE  Proper(state, request, Mutate(state, request))
<1>1. CASE request.kind = "put"
  <2> DEFINE next   == state.entities[request.target].version + 1
             entity == [version |-> next, detail |-> request.detail]
  <2>1. next \in Nat /\ request.detail \in Details /\ request.target \in Entities
    BY <1>1, PartTypes, VersionTypes, RequestTypes
  <2>2. entity \in Entity
    BY <2>1 DEF Entity
  <2>3. Keeps(state, [state EXCEPT !.entities[request.target] = entity])
    BY <2>1, <2>2, UpdateKeeps
  <2> QED BY <1>1, <2>1, <2>3, AcceptProper, RefuseProper DEF Mutate, updateEntity
<1>2. CASE request.kind = "plan-delete"
  <2>1. state.entities[request.target].version \in Nat
    BY <1>2, PartTypes, VersionTypes, RequestTypes
  <2> DEFINE version == state.entities[request.target].version
             outcome == [state  |-> Cache(state, request, version),
                         answer |-> Result(request, version)]
  <2>2. outcome.state \in State /\ outcome.answer \in Answer
    BY <2>1, CacheTypes, ResultTypes
  <2>3. state.results[request.key] = None => Effective(state, request, outcome)
    BY DEF Effective, Cache, State
  <2>4. Proper(state, request, outcome)
    BY <2>2, <2>3 DEF Proper
  <2> QED BY <1>2, <2>4, RefuseProper DEF Mutate, planEntityDeletion
<1>3. CASE request.kind = "delete"
  <2> DEFINE entity == [version |-> 0, detail |-> None]
  <2>1. state.entities[request.target].version \in Nat
    BY <1>3, PartTypes, VersionTypes, RequestTypes
  <2>2. entity \in Entity
    BY DEF Entity
  <2>3. Keeps(state, [state EXCEPT !.entities[request.target] = entity])
    BY <1>3, <2>2, UpdateKeeps, RequestTypes
  <2> QED BY <1>3, <2>1, <2>3, AcceptProper, RefuseProper DEF Mutate, deleteEntity
<1>4. CASE request.kind = "create-user"
  <2> DEFINE user == [version |-> 1, status |-> "active", roles |-> {}]
  <2>1. user \in User
    BY DEF User, Statuses
  <2>2. Keeps(state, [state EXCEPT !.users[request.target] = user])
    BY <1>4, <2>1, UpdateKeeps, RequestTypes
  <2> QED BY <1>4, <2>2, AcceptProper, RefuseProper DEF Mutate, createUser
<1>5. CASE request.kind = "status"
  <2> DEFINE user  == state.users[request.target]
             after == [user EXCEPT !.status = request.detail, !.version = @ + 1]
  <2>1. user \in User /\ request.detail \in Statuses
    BY <1>5, PartTypes, RequestTypes
  <2>2. user.version \in Nat /\ user.version + 1 \in Nat
    BY <2>1, VersionTypes
  <2> HIDE DEF user
  <2>3. after \in User
    BY <2>1, <2>2 DEF User
  <2>4. Keeps(state, [state EXCEPT !.users[request.target] = after])
    BY <1>5, <2>3, UpdateKeeps, RequestTypes
  <2> QED BY <1>5, <2>2, <2>4, AcceptProper, RefuseProper
          DEF Mutate, setUserStatus, user
<1>6. CASE request.kind = "create-role"
  <2> DEFINE role == [version |-> 1, detail |-> request.detail]
  <2>1. request.detail \in Details /\ request.target \in Roles
    BY <1>6, RequestTypes
  <2>2. role \in Role
    BY <2>1 DEF Role
  <2>3. Keeps(state, [state EXCEPT !.roles[request.target] = role])
    BY <2>1, <2>2, UpdateKeeps
  <2> QED BY <1>6, <2>3, AcceptProper, RefuseProper DEF Mutate, createRole
<1>7. CASE request.kind = "rename-role"
  <2> DEFINE next == state.roles[request.target].version + 1
             role == [version |-> next, detail |-> request.detail]
  <2>1. next \in Nat /\ request.detail \in Details /\ request.target \in Roles
    BY <1>7, PartTypes, VersionTypes, RequestTypes
  <2>2. role \in Role
    BY <2>1 DEF Role
  <2>3. Keeps(state, [state EXCEPT !.roles[request.target] = role])
    BY <2>1, <2>2, UpdateKeeps
  <2> QED BY <1>7, <2>1, <2>3, AcceptProper, RefuseProper DEF Mutate, updateRole
<1>8. CASE request.kind \in {"assign", "revoke"}
  <2> DEFINE user  == state.users[request.target]
             held  == IF request.kind = "assign"
                      THEN user.roles \cup {request.detail}
                      ELSE user.roles \ {request.detail}
             after == [user EXCEPT !.roles = held, !.version = @ + 1]
  <2>1. user \in User /\ request.detail \in Roles
    BY <1>8, PartTypes, RequestTypes
  <2>2. held \in SUBSET Roles
    BY <2>1, VersionTypes
  <2>3. user.version + 1 \in Nat
    BY <2>1, VersionTypes
  <2>4. after \in User
    BY <2>1, <2>2, <2>3 DEF User
  <2>5. Keeps(state, [state EXCEPT !.users[request.target] = after])
    BY <1>8, <2>4, UpdateKeeps, RequestTypes
  <2> QED BY <1>8, <2>3, <2>5, AcceptProper, RefuseProper DEF Mutate, changeUserRole
<1>9. CASE request.kind = "cancel"
  <2> DEFINE next == state.run.version + 1
             run  == [version |-> next, state |-> "cancelled", leased |-> FALSE]
  <2>1. next \in Nat
    BY PartTypes, VersionTypes
  <2>2. run \in Run
    BY <2>1 DEF Run
  <2>3. Keeps(state, [state EXCEPT !.run = run])
    BY <2>2, UpdateKeeps
  <2> QED BY <1>9, <2>1, <2>3, AcceptProper, RefuseProper DEF Mutate, cancelRun
<1>10. CASE request.kind = "retry"
  <2> DEFINE task  == [version |-> state.task.version + 1,
                       attempt |-> state.task.attempt + 1]
             run   == [state.run EXCEPT !.version = @ + 1, !.state = "running"]
             after == [state EXCEPT !.task = task, !.run = run]
  <2>0. state.task \in Task /\ state.run \in Run
    BY PartTypes
  <2>1. task \in Task /\ run \in Run
    <3>1. task \in Task
      BY <2>0 DEF Task
    <3>2. run \in Run
      BY <2>0, RestartTypes
    <3> QED BY <3>1, <3>2
  <2>2. task.version \in Nat /\ run.version \in Nat
    BY <2>1, VersionTypes
  <2>3. Keeps(state, after)
    BY <2>1, UpdateKeeps
  <2> HIDE DEF task, run, after
  <2>4. Proper(state, request,
          [state  |-> Audit(Cache(after, request, run.version), request,
                            task.version),
           answer |-> Result(request, run.version)])
    BY <2>2, <2>3, RecordProper
  <2> QED BY <1>10, <2>4, RefuseProper DEF Mutate, retryTask, task, run, after
<1>11. CASE request.kind = "publish"
  <2> DEFINE next == state.plan.version + 1
             plan == [version |-> next, detail |-> request.detail]
  <2>1. next \in Nat /\ request.detail \in Details
    BY <1>11, PartTypes, VersionTypes, RequestTypes
  <2>2. plan \in Entity
    BY <2>1 DEF Entity
  <2>3. Keeps(state, [state EXCEPT !.plan = plan])
    BY <2>2, UpdateKeeps
  <2> QED BY <1>11, <2>1, <2>3, AcceptProper, RefuseProper DEF Mutate, publishPlan
<1> QED BY <1>1, <1>2, <1>3, <1>4, <1>5, <1>6, <1>7, <1>8, <1>9, <1>10, <1>11
        DEF Mutations, Confirmed

-----------------------------------------------------------------------------
(* Exactly what a mutation does *)

UserKinds == {"create-user", "status", "assign", "revoke"}
RoleKinds == {"create-role", "rename-role"}

(* The version of what a mutation is about.                                *)
Version(state, kind, target) ==
  CASE kind \in {"put", "plan-delete", "delete"} -> state.entities[target].version
    [] kind \in UserKinds -> state.users[target].version
    [] kind \in RoleKinds -> state.roles[target].version
    [] kind = "cancel"  -> state.run.version
    [] kind = "retry"   -> state.task.version
    [] kind = "publish" -> state.plan.version

(* The state admits a mutation: what it creates does not exist, and what   *)
(* it changes exists in the version the mutation was based on.             *)
Admits(state, request) ==
  LET version == Version(state, request.kind, request.target) IN
  /\ IF request.kind \in {"create-user", "create-role"}
     THEN version = 0
     ELSE version = request.expected
  /\ request.kind \in {"plan-delete", "delete", "status", "assign", "revoke",
                       "rename-role"} => version # 0
  /\ request.kind = "rename-role" => request.target \notin SystemRoles
  /\ request.kind \in {"assign", "revoke"} =>
       state.roles[request.detail].version # 0

(* Of these resources the target of a mutation of one of these kinds goes  *)
(* one version up, and nothing else changes.                               *)
Advances(kinds, request, before, after) ==
  IF request.kind \in kinds
  THEN \E resource :
         /\ after = [before EXCEPT ![request.target] = resource]
         /\ resource.version = before[request.target].version + 1
  ELSE after = before

(* What an admitted mutation does to the resources.                        *)
Moves(state, request, after) ==
  /\ IF request.kind = "delete"
     THEN after.entities = [state.entities EXCEPT ![request.target] =
                              [version |-> 0, detail |-> None]]
     ELSE Advances({"put"}, request, state.entities, after.entities)
  /\ Advances(UserKinds, request, state.users, after.users)
  /\ Advances(RoleKinds, request, state.roles, after.roles)
  /\ after.run.version =
       state.run.version + IF request.kind \in {"cancel", "retry"} THEN 1 ELSE 0
  /\ after.task.version =
       state.task.version + IF request.kind = "retry" THEN 1 ELSE 0
  /\ after.plan.version =
       state.plan.version + IF request.kind = "publish" THEN 1 ELSE 0

(* The version that is recorded: the one a save made, or a deletion ended. *)
Tells(state, request, version) ==
  /\ request.kind = "put" =>
       version = state.entities[request.target].version + 1
  /\ request.kind = "delete" =>
       version = state.entities[request.target].version

(* What it adds to the audit trail; a plan is not recorded.                *)
Records(state, request, after) ==
  IF request.kind = "plan-delete"
  THEN after.audits = state.audits
  ELSE \E version \in Nat :
         /\ after.audits = Append(state.audits,
                             [key |-> request.key, action |-> request.kind,
                              target |-> request.target, version |-> version])
         /\ Tells(state, request, version)

(* The whole effect of a mutation under a fresh key.                       *)
Exact(state, request, outcome) ==
  IF Admits(state, request)
  THEN /\ outcome.answer.status = "ok"
       /\ outcome.answer.target = request.target
       /\ outcome.answer.detail = request.detail
       /\ outcome.state.results =
            [state.results EXCEPT ![request.key] = outcome.answer]
       /\ Moves(state, request, outcome.state)
       /\ Records(state, request, outcome.state)
  ELSE outcome.state = state /\ outcome.answer.status # "ok"

LEMMA ResultFields ==
  ASSUME NEW request, NEW version
  PROVE  /\ Result(request, version).status = "ok"
         /\ Result(request, version).target = request.target
         /\ Result(request, version).detail = request.detail
BY DEF Result, Bare

(* Keeping the result and recording the mutation touch no resource.        *)
LEMMA RecordExact ==
  ASSUME NEW state \in State, NEW request \in Request, WellFormed(request),
         request.kind \in Mutations \ {"plan-delete"}, Admits(state, request),
         NEW after, Keeps(state, after), Moves(state, request, after),
         NEW version \in Nat, NEW recorded \in Nat,
         Tells(state, request, recorded)
  PROVE  Exact(state, request,
           [state  |-> Audit(Cache(after, request, version), request, recorded),
            answer |-> Result(request, version)])
<1> DEFINE record == [key |-> request.key, action |-> request.kind,
                      target |-> request.target, version |-> recorded]
           cached == Cache(after, request, version)
           audited == Audit(cached, request, recorded)
<1>1. /\ cached \in State
      /\ cached.results = [state.results EXCEPT ![request.key] =
                             Result(request, version)]
      /\ cached.audits = state.audits
      /\ cached.entities = after.entities /\ cached.users = after.users
      /\ cached.roles = after.roles /\ cached.run = after.run
      /\ cached.task = after.task /\ cached.plan = after.plan
  BY CacheTypes DEF Cache, State, Keeps
<1> HIDE DEF cached
<1>2. /\ audited.results = cached.results
      /\ audited.audits = Append(cached.audits, record)
      /\ audited.entities = cached.entities /\ audited.users = cached.users
      /\ audited.roles = cached.roles /\ audited.run = cached.run
      /\ audited.task = cached.task /\ audited.plan = cached.plan
  BY <1>1 DEF Audit, State
<1> HIDE DEF audited
<1>3. Moves(state, request, audited)
  BY <1>1, <1>2 DEF Moves
<1>4. Records(state, request, audited)
  BY <1>1, <1>2 DEF Records
<1> QED BY <1>1, <1>2, <1>3, <1>4, ResultFields DEF Exact, audited, cached

LEMMA AcceptExact ==
  ASSUME NEW state \in State, NEW request \in Request, WellFormed(request),
         request.kind \in Mutations \ {"plan-delete"}, Admits(state, request),
         NEW after, Keeps(state, after), Moves(state, request, after),
         NEW version \in Nat,
         Tells(state, request, version)
  PROVE  Exact(state, request, Accept(after, request, version))
BY RecordExact DEF Accept

LEMMA RefuseExact ==
  ASSUME NEW state, NEW request, ~Admits(state, request),
         NEW status \in {"invalid", "missing", "conflict"}
  PROVE  Exact(state, request, Refuse(state, status))
BY DEF Exact, Refuse, Bare

(* The resources of a state in which one was replaced.                     *)
LEMMA UpdateFields ==
  ASSUME NEW state \in State
  PROVE  /\ \A e, x : LET after == [state EXCEPT !.entities[e] = x] IN
              /\ after.entities = [state.entities EXCEPT ![e] = x]
              /\ after.users = state.users /\ after.roles = state.roles
              /\ after.run = state.run /\ after.task = state.task
              /\ after.plan = state.plan
         /\ \A u, x : LET after == [state EXCEPT !.users[u] = x] IN
              /\ after.users = [state.users EXCEPT ![u] = x]
              /\ after.entities = state.entities /\ after.roles = state.roles
              /\ after.run = state.run /\ after.task = state.task
              /\ after.plan = state.plan
         /\ \A r, x : LET after == [state EXCEPT !.roles[r] = x] IN
              /\ after.roles = [state.roles EXCEPT ![r] = x]
              /\ after.entities = state.entities /\ after.users = state.users
              /\ after.run = state.run /\ after.task = state.task
              /\ after.plan = state.plan
         /\ \A x, y : LET after == [state EXCEPT !.task = x, !.run = y] IN
              /\ after.task = x /\ after.run = y
              /\ after.entities = state.entities /\ after.users = state.users
              /\ after.roles = state.roles /\ after.plan = state.plan
         /\ \A x : LET after == [state EXCEPT !.run = x] IN
              /\ after.run = x
              /\ after.entities = state.entities /\ after.users = state.users
              /\ after.roles = state.roles /\ after.task = state.task
              /\ after.plan = state.plan
         /\ \A x : LET after == [state EXCEPT !.plan = x] IN
              /\ after.plan = x
              /\ after.entities = state.entities /\ after.users = state.users
              /\ after.roles = state.roles /\ after.task = state.task
              /\ after.run = state.run
BY DEF State

(* The resources of each family.                                           *)
LEMMA FamilyMoves ==
  ASSUME NEW state \in State, NEW request, NEW after,
         \/ /\ request.kind = "delete"
            /\ after.entities = [state.entities EXCEPT ![request.target] =
                                   [version |-> 0, detail |-> None]]
         \/ /\ request.kind # "delete"
            /\ Advances({"put"}, request, state.entities, after.entities),
         Advances(UserKinds, request, state.users, after.users),
         Advances(RoleKinds, request, state.roles, after.roles),
         request.kind \notin {"cancel", "retry", "publish"},
         after.run = state.run, after.task = state.task, after.plan = state.plan
  PROVE  Moves(state, request, after)
<1>1. /\ state.run.version \in Nat /\ state.task.version \in Nat
      /\ state.plan.version \in Nat
  BY PartTypes, VersionTypes
<1> QED BY <1>1 DEF Moves

(* What the handlers' updates move.                                        *)
LEMMA EntityMoves ==
  ASSUME NEW state \in State, NEW request, NEW entity,
         \/ request.kind = "delete" /\ entity = [version |-> 0, detail |-> None]
         \/ /\ request.kind = "put"
            /\ entity.version = state.entities[request.target].version + 1
  PROVE  Moves(state, request, [state EXCEPT !.entities[request.target] = entity])
<1> DEFINE after == [state EXCEPT !.entities[request.target] = entity]
<1>1. /\ after.entities = [state.entities EXCEPT ![request.target] = entity]
      /\ after.users = state.users /\ after.roles = state.roles
      /\ after.run = state.run /\ after.task = state.task
      /\ after.plan = state.plan
  BY UpdateFields
<1>2. request.kind \notin UserKinds \cup RoleKinds \cup {"cancel", "retry", "publish"}
  BY DEF UserKinds, RoleKinds
<1> HIDE DEF after
<1>3. request.kind = "put" =>
        Advances({"put"}, request, state.entities, after.entities)
  BY <1>1 DEF Advances
<1>4. /\ Advances(UserKinds, request, state.users, after.users)
      /\ Advances(RoleKinds, request, state.roles, after.roles)
  BY <1>1, <1>2 DEF Advances
<1>5. Moves(state, request, after)
  BY <1>1, <1>2, <1>3, <1>4, FamilyMoves
<1> QED BY <1>5 DEF after

LEMMA UserMoves ==
  ASSUME NEW state \in State, NEW request, request.kind \in UserKinds, NEW user,
         user.version = state.users[request.target].version + 1
  PROVE  Moves(state, request, [state EXCEPT !.users[request.target] = user])
<1> DEFINE after == [state EXCEPT !.users[request.target] = user]
<1>1. /\ after.users = [state.users EXCEPT ![request.target] = user]
      /\ after.entities = state.entities /\ after.roles = state.roles
      /\ after.run = state.run /\ after.task = state.task
      /\ after.plan = state.plan
  BY UpdateFields
<1>2. request.kind \notin RoleKinds \cup {"put", "delete", "cancel", "retry", "publish"}
  BY DEF UserKinds, RoleKinds
<1> HIDE DEF after
<1>3. Advances(UserKinds, request, state.users, after.users)
  BY <1>1 DEF Advances
<1>4. /\ Advances({"put"}, request, state.entities, after.entities)
      /\ Advances(RoleKinds, request, state.roles, after.roles)
  BY <1>1, <1>2 DEF Advances
<1>5. Moves(state, request, after)
  BY <1>1, <1>2, <1>3, <1>4, FamilyMoves
<1> QED BY <1>5 DEF after

LEMMA RoleMoves ==
  ASSUME NEW state \in State, NEW request, request.kind \in RoleKinds, NEW role,
         role.version = state.roles[request.target].version + 1
  PROVE  Moves(state, request, [state EXCEPT !.roles[request.target] = role])
<1> DEFINE after == [state EXCEPT !.roles[request.target] = role]
<1>1. /\ after.roles = [state.roles EXCEPT ![request.target] = role]
      /\ after.entities = state.entities /\ after.users = state.users
      /\ after.run = state.run /\ after.task = state.task
      /\ after.plan = state.plan
  BY UpdateFields
<1>2. request.kind \notin UserKinds \cup {"put", "delete", "cancel", "retry", "publish"}
  BY DEF UserKinds, RoleKinds
<1> HIDE DEF after
<1>3. Advances(RoleKinds, request, state.roles, after.roles)
  BY <1>1 DEF Advances
<1>4. /\ Advances({"put"}, request, state.entities, after.entities)
      /\ Advances(UserKinds, request, state.users, after.users)
  BY <1>1, <1>2 DEF Advances
<1>5. Moves(state, request, after)
  BY <1>1, <1>2, <1>3, <1>4, FamilyMoves
<1> QED BY <1>5 DEF after

(* Every mutation does exactly what it was admitted for, or it is refused  *)
(* and does nothing.                                                       *)
LEMMA MutateExact ==
  ASSUME NEW state \in State, NEW request \in Request, WellFormed(request),
         request.kind \in Mutations
  PROVE  Exact(state, request, Mutate(state, request))
<1> DEFINE old == Version(state, request.kind, request.target)
<1>1. CASE request.kind = "put"
  <2> DEFINE next   == state.entities[request.target].version + 1
             entity == [version |-> next, detail |-> request.detail]
  <2>1. next \in Nat /\ request.detail \in Details /\ request.target \in Entities
    BY <1>1, PartTypes, VersionTypes, RequestTypes
  <2>2. entity \in Entity
    BY <2>1 DEF Entity
  <2>3. Keeps(state, [state EXCEPT !.entities[request.target] = entity])
    BY <2>1, <2>2, UpdateKeeps
  <2>4. Moves(state, request, [state EXCEPT !.entities[request.target] = entity])
    BY <1>1, EntityMoves
  <2>5. Admits(state, request) <=>
          state.entities[request.target].version = request.expected
    BY <1>1 DEF Admits, Version, UserKinds, RoleKinds
  <2>6. request.kind \in Mutations \ {"plan-delete"}
    BY <1>1
  <2> QED BY <1>1, <2>1, <2>3, <2>4, <2>5, <2>6, AcceptExact, RefuseExact
          DEF Tells, Mutate, updateEntity
<1>2. CASE request.kind = "plan-delete"
  <2>1. state.entities[request.target].version \in Nat
    BY <1>2, PartTypes, VersionTypes, RequestTypes
  <2> DEFINE version == state.entities[request.target].version
             cached  == Cache(state, request, version)
             outcome == [state |-> cached, answer |-> Result(request, version)]
  <2>2. /\ cached.results = [state.results EXCEPT ![request.key] =
                               Result(request, version)]
        /\ cached.audits = state.audits
        /\ cached.entities = state.entities /\ cached.users = state.users
        /\ cached.roles = state.roles /\ cached.run = state.run
        /\ cached.task = state.task /\ cached.plan = state.plan
    BY DEF Cache, State
  <2>3. /\ state.run.version \in Nat /\ state.task.version \in Nat
        /\ state.plan.version \in Nat
    BY PartTypes, VersionTypes
  <2> HIDE DEF cached
  <2>4. Moves(state, request, cached) /\ Records(state, request, cached)
    BY <1>2, <2>2, <2>3 DEF Moves, Records, Advances, UserKinds, RoleKinds
  <2>5. Admits(state, request) <=> version # 0 /\ version = request.expected
    BY <1>2 DEF Admits, Version, UserKinds, RoleKinds
  <2>6. Admits(state, request) => Exact(state, request, outcome)
    BY <2>2, <2>4, ResultFields DEF Exact
  <2> QED BY <1>2, <2>5, <2>6, RefuseExact DEF Mutate, planEntityDeletion, cached
<1>3. CASE request.kind = "delete"
  <2> DEFINE entity == [version |-> 0, detail |-> None]
  <2>1. state.entities[request.target].version \in Nat
    BY <1>3, PartTypes, VersionTypes, RequestTypes
  <2>2. entity \in Entity
    BY DEF Entity
  <2>3. Keeps(state, [state EXCEPT !.entities[request.target] = entity])
    BY <1>3, <2>2, UpdateKeeps, RequestTypes
  <2>4. Moves(state, request, [state EXCEPT !.entities[request.target] = entity])
    BY <1>3, EntityMoves
  <2>5. Admits(state, request) <=>
          /\ state.entities[request.target].version # 0
          /\ state.entities[request.target].version = request.expected
    BY <1>3 DEF Admits, Version, UserKinds, RoleKinds
  <2>6. request.kind \in Mutations \ {"plan-delete"} /\ request.kind # "put"
    BY <1>3
  <2> QED BY <1>3, <2>1, <2>3, <2>4, <2>5, <2>6, AcceptExact, RefuseExact
          DEF Tells, Mutate, deleteEntity
<1>4. CASE request.kind = "create-user"
  <2> DEFINE user == [version |-> 1, status |-> "active", roles |-> {}]
  <2>1. user \in User
    BY DEF User, Statuses
  <2>2. Keeps(state, [state EXCEPT !.users[request.target] = user])
    BY <1>4, <2>1, UpdateKeeps, RequestTypes
  <2>3. Admits(state, request) <=> state.users[request.target].version = 0
    BY <1>4 DEF Admits, Version, UserKinds, RoleKinds
  <2>4. Admits(state, request) =>
          Moves(state, request, [state EXCEPT !.users[request.target] = user])
    BY <1>4, <2>3, UserMoves DEF UserKinds
  <2>6. request.kind \in Mutations \ {"plan-delete"} /\ request.kind # "put"
    BY <1>4
  <2> QED BY <1>4, <2>2, <2>3, <2>4, <2>6, AcceptExact, RefuseExact
          DEF Tells, Mutate, createUser
<1>5. CASE request.kind = "status"
  <2> DEFINE user  == state.users[request.target]
             after == [user EXCEPT !.status = request.detail, !.version = @ + 1]
  <2>1. user \in User /\ request.detail \in Statuses
    BY <1>5, PartTypes, RequestTypes
  <2>2. user.version \in Nat /\ user.version + 1 \in Nat
    BY <2>1, VersionTypes
  <2> HIDE DEF user
  <2>3. after \in User /\ after.version = user.version + 1
    BY <2>1, <2>2 DEF User
  <2>4. Keeps(state, [state EXCEPT !.users[request.target] = after])
    BY <1>5, <2>3, UpdateKeeps, RequestTypes
  <2>5. Admits(state, request) <=> Current(user, request)
    BY <1>5 DEF Admits, Version, UserKinds, RoleKinds, Current, user
  <2>6. Moves(state, request, [state EXCEPT !.users[request.target] = after])
    <3> HIDE DEF after
    <3> QED BY <1>5, <2>3, UserMoves DEF UserKinds, user
  <2>7. request.kind \in Mutations \ {"plan-delete"} /\ request.kind # "put"
    BY <1>5
  <2> QED BY <1>5, <2>2, <2>4, <2>5, <2>6, <2>7, AcceptExact, RefuseExact
          DEF Tells, Mutate, setUserStatus, user
<1>6. CASE request.kind = "create-role"
  <2> DEFINE role == [version |-> 1, detail |-> request.detail]
  <2>1. request.detail \in Details /\ request.target \in Roles
    BY <1>6, RequestTypes
  <2>2. role \in Role
    BY <2>1 DEF Role
  <2>3. Keeps(state, [state EXCEPT !.roles[request.target] = role])
    BY <2>1, <2>2, UpdateKeeps
  <2>4. Admits(state, request) <=> state.roles[request.target].version = 0
    BY <1>6 DEF Admits, Version, UserKinds, RoleKinds
  <2>5. Admits(state, request) =>
          Moves(state, request, [state EXCEPT !.roles[request.target] = role])
    BY <1>6, <2>4, RoleMoves DEF RoleKinds
  <2>6. request.kind \in Mutations \ {"plan-delete"} /\ request.kind # "put"
    BY <1>6
  <2> QED BY <1>6, <2>3, <2>4, <2>5, <2>6, AcceptExact, RefuseExact
          DEF Tells, Mutate, createRole
<1>7. CASE request.kind = "rename-role"
  <2> DEFINE next == state.roles[request.target].version + 1
             role == [version |-> next, detail |-> request.detail]
  <2>1. next \in Nat /\ request.detail \in Details /\ request.target \in Roles
    BY <1>7, PartTypes, VersionTypes, RequestTypes
  <2>2. role \in Role
    BY <2>1 DEF Role
  <2>3. Keeps(state, [state EXCEPT !.roles[request.target] = role])
    BY <2>1, <2>2, UpdateKeeps
  <2>4. Admits(state, request) <=>
          /\ Current(state.roles[request.target], request)
          /\ request.target \notin SystemRoles
    BY <1>7 DEF Admits, Version, UserKinds, RoleKinds, Current
  <2>5. Moves(state, request, [state EXCEPT !.roles[request.target] = role])
    BY <1>7, RoleMoves DEF RoleKinds
  <2>6. request.kind \in Mutations \ {"plan-delete"} /\ request.kind # "put"
    BY <1>7
  <2> QED BY <1>7, <2>1, <2>3, <2>4, <2>5, <2>6, AcceptExact, RefuseExact
          DEF Tells, Mutate, updateRole
<1>8. CASE request.kind \in {"assign", "revoke"}
  <2> DEFINE user  == state.users[request.target]
             held  == IF request.kind = "assign"
                      THEN user.roles \cup {request.detail}
                      ELSE user.roles \ {request.detail}
             after == [user EXCEPT !.roles = held, !.version = @ + 1]
  <2>1. user \in User /\ request.detail \in Roles
    BY <1>8, PartTypes, RequestTypes
  <2>2. held \in SUBSET Roles
    BY <2>1, VersionTypes
  <2>3. user.version + 1 \in Nat
    BY <2>1, VersionTypes
  <2>4. after \in User /\ after.version = user.version + 1
    BY <2>1, <2>2, <2>3 DEF User
  <2>5. Keeps(state, [state EXCEPT !.users[request.target] = after])
    BY <1>8, <2>4, UpdateKeeps, RequestTypes
  <2>6. Admits(state, request) <=>
          ~(~Current(user, request) \/ state.roles[request.detail].version = 0)
    BY <1>8 DEF Admits, Version, UserKinds, RoleKinds, Current
  <2>7. Moves(state, request, [state EXCEPT !.users[request.target] = after])
    <3> HIDE DEF after
    <3> QED BY <1>8, <2>4, UserMoves DEF UserKinds
  <2>8. request.kind \in Mutations \ {"plan-delete"} /\ request.kind # "put"
    BY <1>8
  <2> QED BY <1>8, <2>3, <2>5, <2>6, <2>7, <2>8, AcceptExact, RefuseExact
          DEF Tells, Mutate, changeUserRole
<1>9. CASE request.kind = "cancel"
  <2> DEFINE next == state.run.version + 1
             run  == [version |-> next, state |-> "cancelled", leased |-> FALSE]
             after == [state EXCEPT !.run = run]
  <2>1. next \in Nat /\ state.task.version \in Nat /\ state.plan.version \in Nat
    BY PartTypes, VersionTypes
  <2>2. run \in Run
    BY <2>1 DEF Run
  <2>3. Keeps(state, after)
    BY <2>2, UpdateKeeps
  <2>4. Moves(state, request, after)
    <3>1. /\ after.run = run
          /\ after.entities = state.entities /\ after.users = state.users
          /\ after.roles = state.roles /\ after.task = state.task
          /\ after.plan = state.plan
      BY UpdateFields
    <3> HIDE DEF after
    <3> QED BY <1>9, <2>1, <3>1 DEF Moves, Advances, UserKinds, RoleKinds
  <2>5. Admits(state, request) <=> state.run.version = request.expected
    BY <1>9 DEF Admits, Version, UserKinds, RoleKinds
  <2>6. request.kind \in Mutations \ {"plan-delete"} /\ request.kind # "put"
    BY <1>9
  <2> QED BY <1>9, <2>1, <2>3, <2>4, <2>5, <2>6, AcceptExact, RefuseExact
          DEF Tells, Mutate, cancelRun
<1>10. CASE request.kind = "retry"
  <2> DEFINE task  == [version |-> state.task.version + 1,
                       attempt |-> state.task.attempt + 1]
             run   == [state.run EXCEPT !.version = @ + 1, !.state = "running"]
             after == [state EXCEPT !.task = task, !.run = run]
  <2>0. /\ state.task \in Task /\ state.run \in Run
        /\ state.plan.version \in Nat
    BY PartTypes, VersionTypes
  <2>1. task \in Task /\ run \in Run /\ run.version = state.run.version + 1
    <3>1. task \in Task
      BY <2>0 DEF Task
    <3>2. run \in Run
      BY <2>0, RestartTypes
    <3>3. run.version = state.run.version + 1
      BY <2>0 DEF Run
    <3> QED BY <3>1, <3>2, <3>3
  <2>2. task.version \in Nat /\ run.version \in Nat
    BY <2>1, VersionTypes
  <2>3. Keeps(state, after)
    BY <2>1, UpdateKeeps
  <2>4. Moves(state, request, after)
    <3>1. /\ after.task = task /\ after.run = run
          /\ after.entities = state.entities /\ after.users = state.users
          /\ after.roles = state.roles /\ after.plan = state.plan
      BY UpdateFields
    <3> HIDE DEF after, run
    <3> QED BY <1>10, <2>0, <2>1, <3>1 DEF Moves, Advances, UserKinds, RoleKinds
  <2>5. Admits(state, request) <=> state.task.version = request.expected
    BY <1>10 DEF Admits, Version, UserKinds, RoleKinds
  <2>6. request.kind \in Mutations \ {"plan-delete"} /\ request.kind # "put"
    BY <1>10
  <2> HIDE DEF task, run, after
  <2>7. Admits(state, request) =>
          Exact(state, request,
            [state  |-> Audit(Cache(after, request, run.version), request,
                              task.version),
             answer |-> Result(request, run.version)])
    <3>1. Tells(state, request, task.version)
      BY <1>10 DEF Tells
    <3>. QED  BY <2>2, <2>3, <2>4, <2>6, <3>1, RecordExact
  <2> QED BY <1>10, <2>5, <2>7, RefuseExact DEF Mutate, retryTask, task, run, after
<1>11. CASE request.kind = "publish"
  <2> DEFINE next == state.plan.version + 1
             plan == [version |-> next, detail |-> request.detail]
             after == [state EXCEPT !.plan = plan]
  <2>1. /\ next \in Nat /\ request.detail \in Details
        /\ state.run.version \in Nat /\ state.task.version \in Nat
    BY <1>11, PartTypes, VersionTypes, RequestTypes
  <2>2. plan \in Entity
    BY <2>1 DEF Entity
  <2>3. Keeps(state, after)
    BY <2>2, UpdateKeeps
  <2>4. Moves(state, request, after)
    <3>1. /\ after.plan = plan
          /\ after.entities = state.entities /\ after.users = state.users
          /\ after.roles = state.roles /\ after.task = state.task
          /\ after.run = state.run
      BY UpdateFields
    <3> HIDE DEF after
    <3> QED BY <1>11, <2>1, <3>1 DEF Moves, Advances, UserKinds, RoleKinds
  <2>5. Admits(state, request) <=> state.plan.version = request.expected
    BY <1>11 DEF Admits, Version, UserKinds, RoleKinds
  <2>6. request.kind \in Mutations \ {"plan-delete"} /\ request.kind # "put"
    BY <1>11
  <2> QED BY <1>11, <2>1, <2>3, <2>4, <2>5, <2>6, AcceptExact, RefuseExact
          DEF Tells, Mutate, publishPlan
<1> QED BY <1>1, <1>2, <1>3, <1>4, <1>5, <1>6, <1>7, <1>8, <1>9, <1>10, <1>11
        DEF Mutations, Confirmed

(* What every request leaves behind, whatever it asks for and whatever the *)
(* state it finds (serveLoaded and the handlers it calls): a well-typed    *)
(* state and answer; and either nothing changed, an ok answer to a         *)
(* mutation being the kept result of its key, or the mutation took effect  *)
(* under a key that had no result, was kept, and was recorded once.        *)
THEOREM ServeOutcome ==
  ASSUME NEW state \in State, NEW request \in Request, WellFormed(request)
  PROVE  /\ Serve(state, request).state \in State
         /\ Serve(state, request).answer \in Answer
         /\ \/ Unchanged(state, request, Serve(state, request))
            \/ Effective(state, request, Serve(state, request))
<1>1. CASE request.kind \in Lists
  <2>1. Size(state, request.kind) \in Nat
    <3>1. Len(state.audits) \in Nat
      BY DEF State
    <3>2. /\ Cardinality(Existing(state.entities)) \in Nat
          /\ Cardinality(Existing(state.users)) \in Nat
          /\ Cardinality(Existing(state.roles)) \in Nat
      <4>1. /\ Existing(state.entities) \subseteq Entities
            /\ Existing(state.users) \subseteq Users
            /\ Existing(state.roles) \subseteq Roles
        BY DEF Existing, State
      <4> QED BY <4>1, FiniteAssumption, FS_Subset, FS_CardinalityType
    <3> QED BY <1>1, <3>1, <3>2 DEF Size, Lists
  <2>2. Listing(Size(state, request.kind)) \in Answer
    BY <2>1 DEF Listing, Bare, Answer
  <2>3. request.kind \notin Mutations
    BY <1>1 DEF Lists, Mutations, Confirmed
  <2> QED BY <1>1, <2>2, <2>3 DEF Serve, Unchanged
<1>2. CASE request.kind = "migrate"
  <2>1. request.kind \notin Lists \cup Mutations
    BY <1>2 DEF Lists, Mutations, Confirmed
  <2>2. Refuse(state, "ok").state = state
    BY DEF Refuse
  <2> QED BY <1>2, <2>1, <2>2, RefuseTypes DEF Serve, Unchanged
<1>3. CASE request.kind \in Mutations
  <2>1. request.key \in Keys
    BY <1>3 DEF WellFormed
  <2>2. state.results[request.key] \in Answer \cup {None}
    BY <2>1 DEF State
  <2>3. Proper(state, request, Mutate(state, request))
    BY <1>3, MutateProper
  <2>4. request.kind \notin Lists /\ request.kind # "migrate"
    BY <1>3 DEF Mutations, Confirmed, Lists
  <2>5. CASE request.kind \in Confirmed /\ ~request.confirmed
    BY <2>4, <2>5, RefuseTypes, RefuseOutcome DEF Serve
  <2>6. CASE /\ ~(request.kind \in Confirmed /\ ~request.confirmed)
             /\ state.results[request.key] # None
    BY <2>2, <2>4, <2>6 DEF Serve, Unchanged
  <2>7. CASE /\ ~(request.kind \in Confirmed /\ ~request.confirmed)
             /\ state.results[request.key] = None
    BY <2>3, <2>4, <2>7 DEF Serve, Proper
  <2> QED BY <2>5, <2>6, <2>7
<1> QED BY <1>1, <1>2, <1>3 DEF Request, Kinds

(* Exactly what a mutation does, whatever the state it finds (serveLoaded  *)
(* and the handlers it calls): without its typed confirmation, or under a  *)
(* key that has a result, nothing; otherwise it is admitted if and only if *)
(* the versions it rests on are current, an admitted one moves its target  *)
(* one version up and no other resource (a retry its run, too; a deletion  *)
(* takes its entity away), and a refused one does nothing.                 *)
THEOREM MutationsExact ==
  ASSUME NEW state \in State, NEW request \in Request, WellFormed(request),
         request.kind \in Mutations
  PROVE  LET outcome == Serve(state, request) IN
         IF request.kind \in Confirmed /\ ~request.confirmed
         THEN outcome.state = state /\ outcome.answer.status = "invalid"
         ELSE IF state.results[request.key] # None
         THEN outcome.state = state /\ outcome.answer = state.results[request.key]
         ELSE Exact(state, request, outcome)
<1>1. request.kind \notin Lists /\ request.kind # "migrate"
  BY DEF Mutations, Confirmed, Lists
<1>2. Exact(state, request, Mutate(state, request))
  BY MutateExact
<1>3. CASE request.kind \in Confirmed /\ ~request.confirmed
  BY <1>1, <1>3 DEF Serve, Refuse, Bare
<1>4. CASE ~(request.kind \in Confirmed /\ ~request.confirmed)
  BY <1>1, <1>2, <1>4 DEF Serve
<1> QED BY <1>3, <1>4

(* What a request that is no mutation leaves behind: everything.           *)
LEMMA ReadsOnly ==
  ASSUME NEW state, NEW request \in Request, request.kind \notin Mutations
  PROVE  Serve(state, request).state = state
BY DEF Serve, Refuse, Request, Kinds

=============================================================================
