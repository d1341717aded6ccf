--------------------------- MODULE ProviderStore ---------------------------
(***************************************************************************)
(* What one request does to the state of the reference provider            *)
(* (internal/localprovider): versioned resources, a table of idempotent    *)
(* results and an audit trail.  Serve is a function of the state that was  *)
(* loaded and of the request; LocalProvider puts the transaction around it *)
(* and MetadataWorkspace calls it from Studio's side.                      *)
(***************************************************************************)
EXTENDS Naturals, Sequences, FiniteSets

CONSTANTS
  Entities,     \* metadata entity codes
  Users,        \* identity user identifiers
  Roles,        \* identity role keys
  SystemRoles,  \* sampleRoleKeys
  Details,      \* what a mutation sets: a definition, a name or limits
  Keys,         \* idempotency keys
  SeedEntity,   \* the entity of initialState
  SeedUser,     \* the user of initialState
  None          \* absent

ASSUME SeedAssumption ==
  /\ SeedEntity \in Entities
  /\ SeedUser \in Users
  /\ SystemRoles \subseteq Roles

(* Codes, identifiers and keys are strings of bounded length.              *)
ASSUME FiniteAssumption ==
  IsFiniteSet(Entities) /\ IsFiniteSet(Users) /\ IsFiniteSet(Roles)

-----------------------------------------------------------------------------
(* Requests and answers.  A request names its target and carries the       *)
(* version it was based on, the detail it sets and, where the contract     *)
(* asks for one, the typed confirmation.                                   *)

Statuses == {"active", "disabled"}

Lists == {"entities", "users", "roles", "runs", "tasks", "plans", "audits"}

Confirmed == {"delete", "status", "cancel", "retry", "publish"}

Mutations ==
  Confirmed \cup {"put", "plan-delete", "create-user", "create-role",
                  "rename-role", "assign", "revoke"}

Kinds == Lists \cup Mutations \cup {"migrate"}

Targets == Entities \cup Users \cup Roles \cup {"run", "task", "quota"}

Request ==
  [kind : Kinds, key : Keys \cup {None}, target : Targets \cup {None},
   expected : Nat, detail : Details \cup Roles \cup Statuses \cup {None},
   confirmed : BOOLEAN]

(* What the routes and their bodies admit for a kind of request.           *)
TargetsOf(kind) ==
  CASE kind \in {"put", "plan-delete", "delete"} -> Entities
    [] kind \in {"create-user", "status", "assign", "revoke"} -> Users
    [] kind \in {"create-role", "rename-role"} -> Roles
    [] kind = "cancel"  -> {"run"}
    [] kind = "retry"   -> {"task"}
    [] kind = "publish" -> {"quota"}
    [] OTHER            -> {None}

DetailsOf(kind) ==
  CASE kind \in {"put", "create-role", "rename-role", "publish"} -> Details
    [] kind = "status" -> Statuses
    [] kind \in {"assign", "revoke"} -> Roles
    [] OTHER           -> {None}

WellFormed(request) ==
  /\ request.target \in TargetsOf(request.kind)
  /\ request.detail \in DetailsOf(request.kind)
  /\ request.kind \in Mutations => request.key \in Keys

(* version is the version the answer reports, items the length of the list *)
(* it carries.                                                             *)
Answer ==
  [status : {"ok", "invalid", "missing", "conflict"},
   target : Targets \cup {None}, version : Nat,
   detail : Details \cup Roles \cup Statuses \cup {None}, items : Nat]

ASSUME AbsentAssumption ==
  /\ None \notin Entities \cup Users \cup Roles \cup Details \cup Keys
  /\ None \notin Answer

Bare(status) ==
  [status |-> status, target |-> None, version |-> 0, detail |-> None,
   items |-> 0]

Listing(n) == [Bare("ok") EXCEPT !.items = n]

Result(request, version) ==
  [Bare("ok") EXCEPT !.target = request.target, !.version = version,
                     !.detail = request.detail]

-----------------------------------------------------------------------------
(* persistentState.  Version 0 stands for a resource that does not exist.  *)
(* The key of an audit record is not in the code's record: it is kept here *)
(* to tell which request the record is about, and no handler reads it.     *)

Entity == [version : Nat, detail : Details \cup {None}]
User   == [version : Nat, status : Statuses, roles : SUBSET Roles]
Role   == [version : Nat, detail : Details \cup {None}]
Run    == [version : Nat, state : {"running", "cancelled"}, leased : BOOLEAN]
Task   == [version : Nat, attempt : Nat]
Record == [key : Keys \cup {None}, action : Mutations \cup {"login"},
           target : Targets \cup {None}, version : Nat]

State ==
  [entities : [Entities -> Entity], users : [Users -> User],
   roles : [Roles -> Role], run : Run, task : Task, plan : Entity,
   results : [Keys -> Answer \cup {None}], audits : Seq(Record)]

initialState ==
  [entities |-> [e \in Entities |->
                   [version |-> IF e = SeedEntity THEN 1 ELSE 0, detail |-> None]],
   users    |-> [u \in Users |->
                   [version |-> IF u = SeedUser THEN 1 ELSE 0,
                    status |-> "active",
                    roles |-> IF u = SeedUser THEN SystemRoles ELSE {}]],
   roles    |-> [r \in Roles |->
                   [version |-> IF r \in SystemRoles THEN 1 ELSE 0, detail |-> None]],
   run      |-> [version |-> 1, state |-> "running", leased |-> TRUE],
   task     |-> [version |-> 1, attempt |-> 1],
   plan     |-> [version |-> 1, detail |-> None],
   results  |-> [k \in Keys |-> None],
   audits   |-> <<[key |-> None, action |-> "login", target |-> None,
                   version |-> 0]>>]

-----------------------------------------------------------------------------
(* Outcomes: the state a handler leaves and the answer it buffers.         *)

Refuse(state, status) == [state |-> state, answer |-> Bare(status)]

(* Mutant: the result of a mutation is not kept for its retries.           *)
CacheNothing(state, request, version) == state

(* The result is kept under the idempotency key.                           *)
Cache(state, request, version) ==
  [state EXCEPT !.results[request.key] = Result(request, version)]

(* Mutant: the arguments of the audit record are swapped.                  *)
AuditSwapped(state, request, version) ==
  [state EXCEPT !.audits =
     Append(@, [key |-> request.key, action |-> request.target,
                target |-> request.kind, version |-> version])]

(* The mutation is appended to the audit trail.                            *)
Audit(state, request, version) ==
  [state EXCEPT !.audits =
     Append(@, [key |-> request.key, action |-> request.kind,
                target |-> request.target, version |-> version])]

Accept(state, request, version) ==
  [state  |-> Audit(Cache(state, request, version), request, version),
   answer |-> Result(request, version)]

-----------------------------------------------------------------------------
(* Metadata *)

(* An update of the version it was based on, or the creation of an entity  *)
(* that does not exist, which has version 0.                               *)
updateEntity(state, request) ==
  LET code == request.target
      next == state.entities[code].version + 1
  IN
  IF state.entities[code].version # request.expected
  THEN Refuse(state, "conflict")
  ELSE Accept([state EXCEPT !.entities[code] =
                 [version |-> next, detail |-> request.detail]], request, next)

planEntityDeletion(state, request) ==
  LET version == state.entities[request.target].version IN
  IF version = 0 THEN Refuse(state, "missing")
  ELSE IF version # request.expected THEN Refuse(state, "conflict")
  ELSE [state  |-> Cache(state, request, version),
        answer |-> Result(request, version)]

deleteEntity(state, request) ==
  LET version == state.entities[request.target].version IN
  IF version = 0 THEN Refuse(state, "missing")
  ELSE IF version # request.expected THEN Refuse(state, "conflict")
  ELSE Accept([state EXCEPT !.entities[request.target] =
                 [version |-> 0, detail |-> None]], request, version)

-----------------------------------------------------------------------------
(* Identity *)

createUser(state, request) ==
  IF state.users[request.target].version # 0
  THEN Refuse(state, "conflict")
  ELSE Accept([state EXCEPT !.users[request.target] =
                 [version |-> 1, status |-> "active", roles |-> {}]], request, 1)

(* The resource exists and has the version the request was based on.       *)
Current(resource, request) ==
  resource.version # 0 /\ resource.version = request.expected

setUserStatus(state, request) ==
  LET user == state.users[request.target] IN
  IF ~Current(user, request)
  THEN Refuse(state, "conflict")
  ELSE Accept([state EXCEPT !.users[request.target] =
                 [user EXCEPT !.status = request.detail, !.version = @ + 1]],
              request, user.version + 1)

createRole(state, request) ==
  IF state.roles[request.target].version # 0
  THEN Refuse(state, "conflict")
  ELSE Accept([state EXCEPT !.roles[request.target] =
                 [version |-> 1, detail |-> request.detail]], request, 1)

updateRole(state, request) ==
  LET role == state.roles[request.target] IN
  IF ~Current(role, request) THEN Refuse(state, "conflict")
  ELSE IF request.target \in SystemRoles THEN Refuse(state, "invalid")
  ELSE Accept([state EXCEPT !.roles[request.target] =
                 [version |-> role.version + 1, detail |-> request.detail]],
              request, role.version + 1)

changeUserRole(state, request) ==
  LET user == state.users[request.target]
      held == IF request.kind = "assign"
              THEN user.roles \cup {request.detail}
              ELSE user.roles \ {request.detail}
  IN
  IF ~Current(user, request) \/ state.roles[request.detail].version = 0
  THEN Refuse(state, "conflict")
  ELSE Accept([state EXCEPT !.users[request.target] =
                 [user EXCEPT !.roles = held, !.version = @ + 1]],
              request, user.version + 1)

-----------------------------------------------------------------------------
(* Workflow and quota.  There is one run with one task, and one plan.      *)

cancelRun(state, request) ==
  LET next == state.run.version + 1 IN
  IF state.run.version # request.expected
  THEN Refuse(state, "conflict")
  ELSE Accept([state EXCEPT !.run = [version |-> next, state |-> "cancelled",
                                     leased |-> FALSE]], request, next)

(* Mutant: the version of the run stays.                                   *)
retryTaskAlone(state, request) ==
  LET task == [version |-> state.task.version + 1,
               attempt |-> state.task.attempt + 1]
  IN
  IF state.task.version # request.expected
  THEN Refuse(state, "conflict")
  ELSE Accept([state EXCEPT !.task = task, !.run.state = "running"], request,
              task.version)

(* The run restarts with its task and is the answer; its lease stays as it *)
(* is.  The audit names the version of the task.                           *)
retryTask(state, request) ==
  LET task  == [version |-> state.task.version + 1,
                attempt |-> state.task.attempt + 1]
      run   == [state.run EXCEPT !.version = @ + 1, !.state = "running"]
      after == [state EXCEPT !.task = task, !.run = run]
  IN
  IF state.task.version # request.expected
  THEN Refuse(state, "conflict")
  ELSE [state  |-> Audit(Cache(after, request, run.version), request,
                         task.version),
        answer |-> Result(request, run.version)]

publishPlan(state, request) ==
  LET next == state.plan.version + 1 IN
  IF state.plan.version # request.expected
  THEN Refuse(state, "conflict")
  ELSE Accept([state EXCEPT !.plan = [version |-> next,
                                      detail |-> request.detail]], request, next)

-----------------------------------------------------------------------------

Mutate(state, request) ==
  CASE request.kind = "put"         -> updateEntity(state, request)
    [] request.kind = "plan-delete" -> planEntityDeletion(state, request)
    [] request.kind = "delete"      -> deleteEntity(state, request)
    [] request.kind = "create-user" -> createUser(state, request)
    [] request.kind = "status"      -> setUserStatus(state, request)
    [] request.kind = "create-role" -> createRole(state, request)
    [] request.kind = "rename-role" -> updateRole(state, request)
    [] request.kind \in {"assign", "revoke"} -> changeUserRole(state, request)
    [] request.kind = "cancel"      -> cancelRun(state, request)
    [] request.kind = "retry"       -> retryTask(state, request)
    [] request.kind = "publish"     -> publishPlan(state, request)

Existing(resources) == {r \in DOMAIN resources : resources[r].version # 0}

(* Every list is returned whole: the page limit of the query is not read.  *)
Size(state, kind) ==
  CASE kind = "entities" -> Cardinality(Existing(state.entities))
    [] kind = "users"    -> Cardinality(Existing(state.users))
    [] kind = "roles"    -> Cardinality(Existing(state.roles))
    [] kind = "audits"   -> Len(state.audits)
    [] OTHER             -> 1

(* serveLoaded.  A migration is answered with a fixed plan.  The typed     *)
(* confirmation is read before the table of results.                       *)
Serve(state, request) ==
  IF request.kind \in Lists
  THEN [state |-> state, answer |-> Listing(Size(state, request.kind))]
  ELSE IF request.kind = "migrate" THEN Refuse(state, "ok")
  ELSE IF request.kind \in Confirmed /\ ~request.confirmed
  THEN Refuse(state, "invalid")
  ELSE IF state.results[request.key] # None
  THEN [state |-> state, answer |-> state.results[request.key]]
  ELSE Mutate(state, request)

=============================================================================
