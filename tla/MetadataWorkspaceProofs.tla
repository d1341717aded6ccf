----------------------- MODULE MetadataWorkspaceProofs -----------------------
(* Theorems about MetadataWorkspace for every value of its constants. *)
EXTENDS MetadataWorkspace, ProviderStoreProofs

USE WorkspaceNames

-----------------------------------------------------------------------------
(* What is known of a handler and an exchange when the keys drawn so far   *)
(* are drawn, the plans are plans and the provider's data are state.       *)

Draw == [session : Sessions, scope : Scope, key : Keys]

Review(s, op, target, version) ==
  [session |-> s, op |-> op, target |-> target, version |-> version]

Reviewed(reference, plans) ==
  reference \in References /\ plans[reference] \in Plan

(* A draw that a change of an entity is based on: the form that a session  *)
(* submitted for this version, or its confirmed plan.                      *)
Backs(draw, key, action, target, version, plans) ==
  /\ draw.key = key
  /\ action = "put" <=> draw.scope.op \in Saves
  /\ action = "delete" <=> draw.scope.op = "delete"
  /\ action = "put" =>
       draw.scope.target = target /\ draw.scope.version = version
  /\ action = "delete" =>
       /\ Reviewed(draw.scope.reference, plans)
       /\ plans[draw.scope.reference] =
            Review(draw.session, "plan-delete", target, version)

Backed(key, action, target, version, drawn, plans) ==
  \E draw \in drawn : Backs(draw, key, action, target, version, plans)

(* The trail has a record of the change.                                   *)
Audited(key, action, target, state) ==
  \E i \in DOMAIN state.audits :
    /\ state.audits[i].key = key
    /\ state.audits[i].action = action
    /\ state.audits[i].target = target

(* A handler is about the form or the plan that its session submitted.     *)
Owns(q, plans) ==
  /\ q.session \in Sessions /\ q.op \in Operations
  /\ q.op \in Saves \cup Plans => q.target \in Entities
  /\ q.op \in Saves => q.detail \in Details
  /\ q.op \in Applies /\ q.label # "load" =>
       /\ q.target \in Entities
       /\ Reviewed(q.reference, plans)
       /\ plans[q.reference] =
            Review(q.session, Planned[q.op], q.target, q.version)
  /\ q.label \in {"find", "store"} => q.op \in Plans
  /\ q.label = "load" => q.op \in Applies /\ q.reference \in References

(* It calls with the key that was drawn for its scope.                     *)
Holds(q, drawn) ==
  q.label \in {"call", "wait"} =>
    [session |-> q.session, scope |-> ScopeOf(q), key |-> q.key] \in drawn

(* A page is decided after the call and tells of a recorded change.        *)
Shows(q, state) ==
  /\ q.page # "none" => q.label \in {"idle", "drop plan", "drop plan key", "drop key"}
  /\ q.page = "saved" => Audited(q.key, "put", q.target, state)
  /\ q.page = "deleted" => Audited(q.key, "delete", q.target, state)

(* A request is backed by a draw, and an ok answer to a change by a record.*)
About(e, drawn, plans, state) ==
  /\ e.request \in Request /\ WellFormed(e.request) /\ e.request.key \in Keys
  /\ e.request.kind \in {"put", "plan-delete", "delete", "migrate"}
  /\ Backed(e.request.key, e.request.kind, e.request.target, e.request.expected,
            drawn, plans)
  /\ \/ e.stage = "asked"
     \/ /\ e.stage = "performed"
        /\ e.answer.status = "ok" /\ e.request.kind \in {"put", "delete"} =>
             Audited(e.request.key, e.request.kind, e.request.target, state)

Exchanged(e, drawn, plans, state) ==
  e = Provider!Nothing \/ About(e, drawn, plans, state)

Awaits(q, e) ==
  q.label = "wait" => e # Provider!Nothing /\ e.request = RequestFor(q)

Handled(q, e, drawn, plans, state) ==
  /\ q.label # "idle" => Owns(q, plans)
  /\ Holds(q, drawn)
  /\ Shows(q, state)
  /\ Exchanged(e, drawn, plans, state)
  /\ Awaits(q, e)

-----------------------------------------------------------------------------
(* The books *)

(* A key is drawn for one scope of one session.                            *)
KeysOnce(drawn) == \A a, b \in drawn : a.key = b.key => a = b

(* A deletion is drawn for a plan.                                         *)
PlansFirst(drawn, plans) ==
  \A draw \in drawn :
    draw.scope.op = "delete" => Reviewed(draw.scope.reference, plans)

(* A change whose result is kept is on record.                             *)
ResultsTold(drawn, plans, state) ==
  \A k \in Keys :
    state.results[k] # None =>
      /\ \E draw \in drawn : draw.key = k
      /\ \A draw \in drawn :
           draw.key = k =>
             /\ draw.scope.op \in Saves =>
                  Audited(k, "put", draw.scope.target, state)
             /\ draw.scope.op = "delete" =>
                  Audited(k, "delete", plans[draw.scope.reference].target, state)

(* What the recorded change was based on.                                  *)
TrailBacked(drawn, plans, state) ==
  \A i \in DOMAIN state.audits :
    LET record == state.audits[i] IN
    record.action \in {"put", "delete"} =>
      Backed(record.key, record.action, record.target,
             IF record.action = "put" THEN record.version - 1 ELSE record.version,
             drawn, plans)

Books(drawn, plans, state) ==
  /\ drawn \subseteq Draw
  /\ plans \in [References -> Plan \cup {None}]
  /\ state \in State
  /\ KeysOnce(drawn)
  /\ PlansFirst(drawn, plans)
  /\ ResultsTold(drawn, plans, state)
  /\ TrailBacked(drawn, plans, state)

(* What a session keeps is its own, and within the limit.                  *)
Kept(drafts, refs, s, drawn, plans) ==
  /\ \A draft \in drafts :
       [session |-> s, scope |-> draft.scope, key |-> draft.key] \in drawn
  /\ \A r \in refs : plans[r] \in Plan /\ plans[r].session = s
  /\ IsFiniteSet(drafts) /\ IsFiniteSet(refs)
  /\ Cardinality(drafts) + Cardinality(refs) <= MaxDrafts

-----------------------------------------------------------------------------
(* The inductive invariant *)

Shaped ==
  /\ active \subseteq Sessions
  /\ keys \in [Sessions -> SUBSET Draft]
  /\ stored \in [Sessions -> SUBSET References]
  /\ tab \in [Tabs -> Tab]
  /\ exchange = [t \in Tabs |-> exchange[t]]

Inv ==
  /\ Shaped
  /\ Books(issued, plan, data)
  /\ \A s \in Sessions : Kept(keys[s], stored[s], s, issued, plan)
  /\ \A t \in Tabs : Handled(tab[t], exchange[t], issued, plan, data)

-----------------------------------------------------------------------------
(* Operations and scopes *)

LEMMA OpSets ==
  /\ Applies = {"delete", "migrate"}
  /\ Planned["delete"] = "plan-delete" /\ Planned["migrate"] = "plan-migrate"
  /\ Plans = {"plan-delete", "plan-migrate"}
<1>1. /\ Applies = {"delete", "migrate"}
      /\ Planned["delete"] = "plan-delete" /\ Planned["migrate"] = "plan-migrate"
  BY DEF Applies, Planned
<1>. QED  BY <1>1 DEF Plans

LEMMA ScopeTypes ==
  ASSUME NEW q \in Tab, q.op \in Operations
  PROVE  /\ ScopeOf(q) \in Scope
         /\ ScopeOf(q).op = q.op
         /\ q.op \in Applies => ScopeOf(q).reference = q.reference
         /\ q.op \notin Applies => /\ ScopeOf(q).target = q.target
                                   /\ ScopeOf(q).version = q.version
BY DEF ScopeOf, Scope, Tab

(* What a request says of the handler that makes it.                       *)
LEMMA RequestTypesOf ==
  ASSUME NEW q \in Tab, NEW plans, Owns(q, plans), q.label # "load", q.key \in Keys
  PROVE  LET r == RequestFor(q) IN
         /\ r \in Request /\ WellFormed(r) /\ r.key = q.key
         /\ r.expected = q.version
         /\ r.kind \in {"put", "plan-delete", "delete", "migrate"}
         /\ r.kind = "put" <=> q.op \in Saves
         /\ r.kind = "delete" <=> q.op = "delete"
         /\ r.kind \in {"put", "delete"} => r.target = q.target
<1> DEFINE r == RequestFor(q)
<1>1. /\ q.op \in Saves \cup Plans \cup Applies
      /\ q.version \in Nat
      /\ q.target \in Entities
      /\ q.op \in Saves => q.detail \in Details
  BY OpSets DEF Owns, Operations, Tab
<1>2. CASE q.op \in Saves
  <2>1. /\ r.kind = "put" /\ r.key = q.key /\ r.target = q.target
        /\ r.expected = q.version /\ r.detail = q.detail
    BY <1>2 DEF RequestFor, Saves
  <2>2. r \in Request
    BY <1>1, <1>2, OpSets DEF RequestFor, Request, Kinds, Mutations, Targets, Saves
  <2> HIDE DEF r
  <2>3. WellFormed(r)
    BY <1>1, <1>2, <2>1 DEF WellFormed, TargetsOf, DetailsOf
  <2>. QED  BY <1>2, <2>1, <2>2, <2>3 DEF Saves, r
<1>3. CASE q.op \in {"plan-delete", "delete"}
  <2>1. /\ r.kind = q.op /\ r.key = q.key /\ r.target = q.target
        /\ r.expected = q.version /\ r.detail = None
    BY <1>3 DEF RequestFor, Saves
  <2>2. r \in Request
    BY <1>1, <1>3 DEF RequestFor, Request, Kinds, Mutations, Confirmed, Targets, Saves
  <2> HIDE DEF r
  <2>3. WellFormed(r)
    BY <1>1, <1>3, <2>1 DEF WellFormed, TargetsOf, DetailsOf
  <2>. QED  BY <1>3, <2>1, <2>2, <2>3 DEF Saves, r
<1>4. CASE q.op \in {"plan-migrate", "migrate"}
  <2>1. /\ r.kind = "migrate" /\ r.key = q.key /\ r.target = None
        /\ r.expected = q.version /\ r.detail = None
    BY <1>4 DEF RequestFor, Saves
  <2>2. r \in Request
    BY <1>1, <1>4 DEF RequestFor, Request, Kinds, Saves
  <2> HIDE DEF r
  <2>3. WellFormed(r)
    BY <1>1, <1>4, <2>1 DEF WellFormed, TargetsOf, DetailsOf, Mutations, Confirmed
  <2>. QED  BY <1>4, <2>1, <2>2, <2>3 DEF Saves, r
<1>. QED  BY <1>1, <1>2, <1>3, <1>4, OpSets

-----------------------------------------------------------------------------
(* The provider of this module is the one of ProviderStore.                *)

LEMMA SameServe ==
  /\ Provider!initialState = initialState
  /\ \A state : \A request \in Request :
       Provider!Serve(state, request) = Serve(state, request)
<1>1. Provider!initialState = initialState
  BY DEF Provider!initialState, initialState
<1>2. /\ Provider!Lists = Lists /\ Provider!Confirmed = Confirmed
      /\ \A n : Provider!Listing(n) = Listing(n)
  BY DEF Provider!Lists, Lists, Provider!Confirmed, Confirmed, Provider!Listing, Listing,
         Provider!Bare, Bare
<1>3. \A state : \A kind \in Lists : Provider!Size(state, kind) = Size(state, kind)
  <2>1. \A resources : Provider!Existing(resources) = Existing(resources)
    BY DEF Provider!Existing, Existing
  <2>2. \A S : Provider!Cardinality(S) = Cardinality(S)
    BY DEF Provider!Cardinality, Cardinality
  <2> QED BY <2>1, <2>2 DEF Provider!Size, Size, Lists
<1>4. \A state, status : Provider!Refuse(state, status) = Refuse(state, status)
  BY DEF Provider!Refuse, Refuse, Provider!Bare, Bare
<1>5. \A request, version : Provider!Result(request, version) = Result(request, version)
  BY DEF Provider!Result, Result, Provider!Bare, Bare
<1>6. \A state, request, version :
        /\ Provider!Cache(state, request, version) = Cache(state, request, version)
        /\ Provider!Audit(state, request, version) = Audit(state, request, version)
  BY <1>5 DEF Provider!Cache, Cache, Provider!Audit, Audit
<1>7. \A state, request, version :
        Provider!Accept(state, request, version) = Accept(state, request, version)
  BY <1>5, <1>6 DEF Provider!Accept, Accept
<1>8. \A state, request :
        /\ Provider!updateEntity(state, request) = updateEntity(state, request)
        /\ Provider!planEntityDeletion(state, request) = planEntityDeletion(state, request)
        /\ Provider!deleteEntity(state, request) = deleteEntity(state, request)
  BY <1>4, <1>5, <1>6, <1>7
     DEF Provider!updateEntity, updateEntity, Provider!planEntityDeletion,
         planEntityDeletion, Provider!deleteEntity, deleteEntity
<1>9. \A resource, request : Provider!Current(resource, request) = Current(resource, request)
  BY DEF Provider!Current, Current
<1>10. \A state, request :
         /\ Provider!createUser(state, request) = createUser(state, request)
         /\ Provider!setUserStatus(state, request) = setUserStatus(state, request)
         /\ Provider!changeUserRole(state, request) = changeUserRole(state, request)
  BY <1>4, <1>7, <1>9
     DEF Provider!createUser, createUser, Provider!setUserStatus, setUserStatus,
         Provider!changeUserRole, changeUserRole
<1>11. \A state, request :
         /\ Provider!createRole(state, request) = createRole(state, request)
         /\ Provider!updateRole(state, request) = updateRole(state, request)
  BY <1>4, <1>7, <1>9 DEF Provider!createRole, createRole, Provider!updateRole, updateRole
<1>12. \A state, request :
         /\ Provider!cancelRun(state, request) = cancelRun(state, request)
         /\ Provider!publishPlan(state, request) = publishPlan(state, request)
  BY <1>4, <1>7 DEF Provider!cancelRun, cancelRun, Provider!publishPlan, publishPlan
<1>13. \A state, request : Provider!retryTask(state, request) = retryTask(state, request)
  BY <1>4, <1>5, <1>6 DEF Provider!retryTask, retryTask
<1>14. ASSUME NEW state, NEW request, request.kind \in Mutations
       PROVE  Provider!Mutate(state, request) = Mutate(state, request)
  BY <1>8, <1>10, <1>11, <1>12, <1>13, <1>14
     DEF Provider!Mutate, Mutate, Mutations, Confirmed
<1>15. ASSUME NEW state, NEW request \in Request
       PROVE  Provider!Serve(state, request) = Serve(state, request)
  <2>1. request.kind \in Lists \cup Mutations \cup {"migrate"}
    BY DEF Request, Kinds
  <2> QED BY <1>2, <1>3, <1>4, <1>14, <2>1 DEF Provider!Serve, Serve
<1> QED BY <1>1, <1>15

-----------------------------------------------------------------------------
(* More keys, more plans, a longer trail *)

Grown(drawn, plans, state, later, reviewed, after) ==
  /\ drawn \subseteq later
  /\ \A r \in References : plans[r] \in Plan => reviewed[r] = plans[r]
  /\ \A key, action, target :
       Audited(key, action, target, state) => Audited(key, action, target, after)

LEMMA BackedStays ==
  ASSUME NEW drawn, NEW plans, NEW state, NEW later, NEW reviewed, NEW after,
         Grown(drawn, plans, state, later, reviewed, after),
         NEW key, NEW action, NEW target, NEW version,
         Backed(key, action, target, version, drawn, plans)
  PROVE  Backed(key, action, target, version, later, reviewed)
<1>1. PICK draw \in drawn : Backs(draw, key, action, target, version, plans)
  BY DEF Backed
<1>2. draw \in later
  BY DEF Grown
<1>3. Backs(draw, key, action, target, version, reviewed)
  BY <1>1 DEF Backs, Reviewed, Grown
<1>. QED  BY <1>2, <1>3 DEF Backed

LEMMA HandledStays ==
  ASSUME NEW drawn, NEW plans, NEW state, NEW later, NEW reviewed, NEW after,
         Grown(drawn, plans, state, later, reviewed, after),
         NEW q, NEW e, Handled(q, e, drawn, plans, state)
  PROVE  Handled(q, e, later, reviewed, after)
<1>1. q.label # "idle" => Owns(q, reviewed)
  BY DEF Handled, Owns, Reviewed, Grown
<1>2. Holds(q, later) /\ Shows(q, after) /\ Awaits(q, e)
  BY DEF Handled, Holds, Shows, Grown
<1>3. ASSUME About(e, drawn, plans, state)
      PROVE  About(e, later, reviewed, after)
  <2>1. Backed(e.request.key, e.request.kind, e.request.target, e.request.expected,
               later, reviewed)
    BY <1>3, BackedStays DEF About
  <2>. QED  BY <1>3, <2>1 DEF About, Grown
<1>4. Exchanged(e, later, reviewed, after)
  BY <1>3 DEF Handled, Exchanged
<1>. QED  BY <1>1, <1>2, <1>4 DEF Handled

LEMMA KeptStays ==
  ASSUME NEW drawn, NEW plans, NEW state, NEW later, NEW reviewed, NEW after,
         Grown(drawn, plans, state, later, reviewed, after),
         NEW drafts, NEW refs \in SUBSET References, NEW s,
         Kept(drafts, refs, s, drawn, plans),
         NEW fewer \in SUBSET drafts, NEW left \in SUBSET refs
  PROVE  Kept(fewer, left, s, later, reviewed)
<1>1. /\ IsFiniteSet(fewer) /\ IsFiniteSet(left)
      /\ Cardinality(fewer) + Cardinality(left) <= MaxDrafts
  <2>1. /\ IsFiniteSet(drafts) /\ IsFiniteSet(refs)
        /\ Cardinality(drafts) + Cardinality(refs) <= MaxDrafts
    BY DEF Kept
  <2>2. /\ IsFiniteSet(fewer) /\ Cardinality(fewer) <= Cardinality(drafts)
        /\ IsFiniteSet(left) /\ Cardinality(left) <= Cardinality(refs)
    BY <2>1, FS_Subset
  <2>3. /\ Cardinality(drafts) \in Nat /\ Cardinality(refs) \in Nat
        /\ Cardinality(fewer) \in Nat /\ Cardinality(left) \in Nat
    BY <2>1, <2>2, FS_CardinalityType
  <2> DEFINE a == Cardinality(drafts)
             b == Cardinality(refs)
             c == Cardinality(fewer)
             d == Cardinality(left)
  <2>4. /\ a \in Nat /\ b \in Nat /\ c \in Nat /\ d \in Nat
        /\ c <= a /\ d <= b /\ a + b <= MaxDrafts
    BY <2>1, <2>2, <2>3
  <2> HIDE DEF a, b, c, d
  <2>5. c + d <= MaxDrafts
    BY <2>4
  <2>. QED  BY <2>2, <2>5 DEF c, d
<1>. QED  BY <1>1 DEF Kept, Grown

-----------------------------------------------------------------------------
(* What performing a request of Studio does *)

(* The recorded change and the kept result of a request that is backed.    *)
LEMMA EffectKeeps ==
  ASSUME NEW drawn, NEW plans, NEW state, Books(drawn, plans, state),
         NEW r \in Request, WellFormed(r), r.kind \in {"put", "delete"},
         Backed(r.key, r.kind, r.target, r.expected, drawn, plans),
         NEW after \in State, NEW answer \in Answer, Admits(state, r),
         after.results = [state.results EXCEPT ![r.key] = answer],
         Records(state, r, after)
  PROVE  /\ Grown(drawn, plans, state, drawn, plans, after)
         /\ Books(drawn, plans, after)
         /\ Audited(r.key, r.kind, r.target, after)
<1> DEFINE n == Len(state.audits)
<1>1. /\ state \in State /\ r.key \in Keys /\ r.target \in Entities
      /\ r.expected \in Nat /\ state.audits \in Seq(Record) /\ n \in Nat
      /\ state.results \in [Keys -> Answer \cup {None}]
  BY RequestTypes DEF Books, WellFormed, Mutations, Confirmed, State
<1>2. PICK version \in Nat :
        /\ after.audits = Append(state.audits,
                            [key |-> r.key, action |-> r.kind,
                             target |-> r.target, version |-> version])
        /\ Tells(state, r, version)
  BY DEF Records
<1> DEFINE record == [key |-> r.key, action |-> r.kind,
                      target |-> r.target, version |-> version]
<1>3. /\ record.key = r.key /\ record.action = r.kind
      /\ record.target = r.target /\ record.version = version
  OBVIOUS
<1>4. state.entities[r.target].version = r.expected
  BY DEF Admits, Version, UserKinds, RoleKinds
<1>5. IF r.kind = "put" THEN version - 1 = r.expected ELSE version = r.expected
  BY <1>1, <1>2, <1>4 DEF Tells
<1> HIDE DEF record
<1>6. /\ DOMAIN state.audits = 1..n /\ DOMAIN after.audits = 1..(n + 1)
      /\ \A i \in 1..n : after.audits[i] = state.audits[i]
      /\ after.audits[n + 1] = record
  BY <1>1, <1>2 DEF record
<1>7. Audited(r.key, r.kind, r.target, after)
  BY <1>1, <1>3, <1>6 DEF Audited
<1>8. ASSUME NEW key, NEW action, NEW target, Audited(key, action, target, state)
      PROVE  Audited(key, action, target, after)
  <2>1. PICK i \in 1..n : /\ state.audits[i].key = key
                          /\ state.audits[i].action = action
                          /\ state.audits[i].target = target
    BY <1>6, <1>8 DEF Audited
  <2>2. i \in DOMAIN after.audits /\ after.audits[i] = state.audits[i]
    BY <1>1, <1>6
  <2>. QED  BY <2>1, <2>2 DEF Audited
<1>9. Grown(drawn, plans, state, drawn, plans, after)
  BY <1>8 DEF Grown
<1>10. PICK draw \in drawn :
         Backs(draw, r.key, r.kind, r.target, r.expected, plans)
  BY DEF Backed
<1>11. ResultsTold(drawn, plans, after)
  <2> SUFFICES ASSUME NEW k \in Keys, after.results[k] # None
               PROVE  /\ \E d \in drawn : d.key = k
                      /\ \A d \in drawn :
                           d.key = k =>
                             /\ d.scope.op \in Saves =>
                                  Audited(k, "put", d.scope.target, after)
                             /\ d.scope.op = "delete" =>
                                  Audited(k, "delete",
                                          plans[d.scope.reference].target, after)
    BY DEF ResultsTold
  <2>1. CASE k # r.key
    <3>1. state.results[k] # None
      BY <1>1, <2>1
    <3>. QED  BY <1>8, <3>1 DEF Books, ResultsTold
  <2>2. CASE k = r.key
    <3>1. \A d \in drawn : d.key = k => d = draw
      BY <1>10, <2>2 DEF Books, KeysOnce, Backs
    <3>2. /\ draw.key = k
          /\ draw.scope.op \in Saves => Audited(k, "put", draw.scope.target, after)
      BY <1>7, <1>10, <2>2 DEF Backs
    <3>3. draw.scope.op = "delete" =>
            Audited(k, "delete", plans[draw.scope.reference].target, after)
      BY <1>7, <1>10, <2>2 DEF Backs, Review
    <3>. QED  BY <3>1, <3>2, <3>3
  <2>. QED  BY <2>1, <2>2
<1>12. TrailBacked(drawn, plans, after)
  <2>1. ASSUME NEW i \in 1..n, after.audits[i].action \in {"put", "delete"}
        PROVE  Backed(after.audits[i].key, after.audits[i].action,
                      after.audits[i].target,
                      IF after.audits[i].action = "put"
                      THEN after.audits[i].version - 1 ELSE after.audits[i].version,
                      drawn, plans)
    BY <1>6, <2>1 DEF Books, TrailBacked
  <2>2. Backed(record.key, record.action, record.target,
               IF record.action = "put" THEN record.version - 1 ELSE record.version,
               drawn, plans)
    BY <1>3, <1>5
  <2>3. \A i \in 1..(n + 1) : i \in 1..n \/ i = n + 1
    BY <1>1
  <2>. QED  BY <1>6, <2>1, <2>2, <2>3 DEF TrailBacked
<1>. QED  BY <1>7, <1>9, <1>11, <1>12 DEF Books

(* A reviewed plan is kept as the result of its key and not recorded.      *)
LEMMA PlanKeeps ==
  ASSUME NEW drawn, NEW plans, NEW state, Books(drawn, plans, state),
         NEW r \in Request, r.key \in Keys, r.kind = "plan-delete",
         Backed(r.key, r.kind, r.target, r.expected, drawn, plans),
         NEW after \in State, NEW answer,
         after.results = [state.results EXCEPT ![r.key] = answer],
         after.audits = state.audits
  PROVE  /\ Grown(drawn, plans, state, drawn, plans, after)
         /\ Books(drawn, plans, after)
<1>1. \A key, action, target :
        Audited(key, action, target, state) => Audited(key, action, target, after)
  BY DEF Audited
<1>2. Grown(drawn, plans, state, drawn, plans, after)
  BY <1>1 DEF Grown
<1>3. PICK draw \in drawn :
        Backs(draw, r.key, r.kind, r.target, r.expected, plans)
  BY DEF Backed
<1>4. draw.key = r.key /\ draw.scope.op \notin Saves /\ draw.scope.op # "delete"
  BY <1>3 DEF Backs
<1>5. \A d \in drawn : d.key = r.key => d = draw
  BY <1>4 DEF Books, KeysOnce
<1>6. \A k \in Keys : k # r.key => after.results[k] = state.results[k]
  BY DEF Books, State
<1>7. ResultsTold(drawn, plans, after)
  <2> SUFFICES ASSUME NEW k \in Keys, after.results[k] # None
               PROVE  /\ \E d \in drawn : d.key = k
                      /\ \A d \in drawn :
                           d.key = k =>
                             /\ d.scope.op \in Saves =>
                                  Audited(k, "put", d.scope.target, after)
                             /\ d.scope.op = "delete" =>
                                  Audited(k, "delete",
                                          plans[d.scope.reference].target, after)
    BY DEF ResultsTold
  <2>1. CASE k # r.key
    BY <1>1, <1>6, <2>1 DEF Books, ResultsTold
  <2>2. CASE k = r.key
    BY <1>4, <1>5, <2>2
  <2>. QED  BY <2>1, <2>2
<1>8. TrailBacked(drawn, plans, after)
  BY DEF Books, TrailBacked
<1>. QED  BY <1>2, <1>7, <1>8 DEF Books

LEMMA PerformKeeps ==
  ASSUME NEW drawn, NEW plans, NEW state, Books(drawn, plans, state),
         NEW e, About(e, drawn, plans, state),
         NEW outcome, outcome = Serve(state, e.request)
  PROVE  /\ Grown(drawn, plans, state, drawn, plans, outcome.state)
         /\ Books(drawn, plans, outcome.state)
         /\ About([stage |-> "performed", request |-> e.request,
                   answer |-> outcome.answer], drawn, plans, outcome.state)
<1> DEFINE r == e.request
           after == outcome.state
           answer == outcome.answer
<1>1. /\ r \in Request /\ WellFormed(r) /\ r.key \in Keys
      /\ r.kind \in {"put", "plan-delete", "delete", "migrate"}
      /\ Backed(r.key, r.kind, r.target, r.expected, drawn, plans)
      /\ state \in State
  BY DEF About, Books
<1>2. after \in State /\ answer \in Answer
  BY <1>1, ServeOutcome
<1>3. ASSUME Grown(drawn, plans, state, drawn, plans, after), Books(drawn, plans, after),
             answer.status = "ok" /\ r.kind \in {"put", "delete"} =>
               Audited(r.key, r.kind, r.target, after)
      PROVE  /\ Grown(drawn, plans, state, drawn, plans, outcome.state)
             /\ Books(drawn, plans, outcome.state)
             /\ About([stage |-> "performed", request |-> e.request,
                       answer |-> outcome.answer], drawn, plans, outcome.state)
  BY <1>1, <1>3 DEF About
<1> HIDE DEF r, after, answer
<1>4. Grown(drawn, plans, state, drawn, plans, state)
  BY DEF Grown
<1>5. CASE r.kind = "migrate"
  <2>1. after = state
    BY <1>1, <1>5, ReadsOnly DEF Mutations, Confirmed, after, r
  <2>. QED  BY <1>3, <1>4, <1>5, <2>1
<1>6. CASE r.kind # "migrate"
  <2>1. r.kind \in Mutations
    BY <1>1, <1>6 DEF Mutations, Confirmed
  <2>2. CASE r.kind \in Confirmed /\ ~r.confirmed
    <3>1. after = state /\ answer.status = "invalid"
      BY <1>1, <2>1, <2>2, MutationsExact DEF after, answer, r
    <3>. QED  BY <1>3, <1>4, <3>1
  <2>3. CASE ~(r.kind \in Confirmed /\ ~r.confirmed) /\ state.results[r.key] # None
    <3>1. after = state /\ answer = state.results[r.key]
      BY <1>1, <2>1, <2>3, MutationsExact DEF after, answer, r
    <3>2. PICK draw \in drawn :
            Backs(draw, r.key, r.kind, r.target, r.expected, plans)
      BY <1>1 DEF Backed
    <3>3. r.kind \in {"put", "delete"} => Audited(r.key, r.kind, r.target, state)
      BY <1>1, <2>3, <3>2 DEF Books, ResultsTold, Backs, Review
    <3>. QED  BY <1>3, <1>4, <3>1, <3>3
  <2>4. CASE ~(r.kind \in Confirmed /\ ~r.confirmed) /\ state.results[r.key] = None
    <3>1. Exact(state, r, outcome)
      BY <1>1, <2>1, <2>4, MutationsExact DEF r
    <3>2. CASE ~Admits(state, r)
      <4>1. after = state /\ answer.status # "ok"
        BY <3>1, <3>2 DEF Exact, after, answer
      <4>. QED  BY <1>3, <1>4, <4>1
    <3>3. CASE Admits(state, r)
      <4>1. /\ after.results = [state.results EXCEPT ![r.key] = answer]
            /\ Records(state, r, after)
        BY <3>1, <3>3 DEF Exact, after, answer
      <4>2. CASE r.kind = "plan-delete"
        <5>1. after.audits = state.audits
          BY <4>1, <4>2 DEF Records
        <5>2. /\ Grown(drawn, plans, state, drawn, plans, after)
              /\ Books(drawn, plans, after)
          BY <1>1, <1>2, <4>1, <4>2, <5>1, PlanKeeps
        <5>. QED  BY <1>3, <4>2, <5>2
      <4>3. CASE r.kind \in {"put", "delete"}
        <5>1. /\ Grown(drawn, plans, state, drawn, plans, after)
              /\ Books(drawn, plans, after)
              /\ Audited(r.key, r.kind, r.target, after)
          BY <1>1, <1>2, <3>3, <4>1, <4>3, EffectKeeps
        <5>. QED  BY <1>3, <5>1
      <4>. QED  BY <1>1, <1>6, <4>2, <4>3
    <3>. QED  BY <3>2, <3>3
  <2>. QED  BY <2>2, <2>3, <2>4
<1>. QED  BY <1>5, <1>6

-----------------------------------------------------------------------------
(* Steps of handlers *)

LEMMA TabTypes ==
  /\ Idle \in Tab
  /\ \A s \in Sessions, op \in Operations, label \in Labels,
        target \in Entities, version \in Nat, detail \in Details \cup {None} :
       [Idle EXCEPT !.label = label, !.session = s, !.op = op, !.target = target,
                    !.version = version, !.detail = detail] \in Tab
  /\ \A s \in Sessions, op \in Operations, label \in Labels, r \in References :
       [Idle EXCEPT !.label = label, !.session = s, !.op = op, !.reference = r]
         \in Tab
  /\ \A q \in Tab :
       [Idle EXCEPT !.page = q.page, !.target = q.target, !.detail = q.detail,
                    !.key = q.key] \in Tab
<1>1. Idle \in Tab
  BY DEF Tab, Idle, Labels, Pages
<1>2. ASSUME NEW s \in Sessions, NEW op \in Operations, NEW label \in Labels,
             NEW target \in Entities, NEW version \in Nat,
             NEW detail \in Details \cup {None}
      PROVE  [Idle EXCEPT !.label = label, !.session = s, !.op = op,
                          !.target = target, !.version = version,
                          !.detail = detail] \in Tab
  BY <1>1 DEF Tab
<1>3. ASSUME NEW s \in Sessions, NEW op \in Operations, NEW label \in Labels,
             NEW r \in References
      PROVE  [Idle EXCEPT !.label = label, !.session = s, !.op = op,
                          !.reference = r] \in Tab
  BY <1>1 DEF Tab
<1>4. ASSUME NEW q \in Tab
      PROVE  [Idle EXCEPT !.page = q.page, !.target = q.target, !.detail = q.detail,
                          !.key = q.key] \in Tab
  BY <1>1 DEF Tab
<1>. QED  BY <1>1, <1>2, <1>3, <1>4

LEMMA TabSteps ==
  ASSUME NEW q \in Tab, NEW label \in Labels
  PROVE  /\ [q EXCEPT !.label = label] \in Tab
         /\ \A page \in Pages : [q EXCEPT !.label = label, !.page = page] \in Tab
         /\ \A key \in Keys : [q EXCEPT !.label = label, !.key = key] \in Tab
         /\ \A version \in Nat :
              [q EXCEPT !.label = label, !.version = version] \in Tab
         /\ \A target \in Entities, version \in Nat :
              [q EXCEPT !.label = label, !.target = target, !.version = version]
                \in Tab
BY DEF Tab

LEMMA IdleHandled ==
  ASSUME NEW e, NEW drawn, NEW plans, NEW state, Exchanged(e, drawn, plans, state)
  PROVE  Handled(Idle, e, drawn, plans, state)
BY DEF Handled, Holds, Shows, Awaits, Idle

LEMMA InvTypes ==
  ASSUME Inv, NEW t \in Tabs
  PROVE  /\ tab[t] \in Tab
         /\ data \in State
         /\ Handled(tab[t], exchange[t], issued, plan, data)
         /\ tab = [tab EXCEPT ![t] = tab[t]]
         /\ exchange = [exchange EXCEPT ![t] = exchange[t]]
         /\ keys \in [Sessions -> SUBSET Draft]
         /\ stored \in [Sessions -> SUBSET References]
         /\ \A s \in Sessions : keys[s] \subseteq keys[s]
         /\ \A s \in Sessions : stored[s] \subseteq stored[s]
         /\ \A s \in Sessions : Kept(keys[s], stored[s], s, issued, plan)
         /\ Grown(issued, plan, data, issued, plan, data)
BY DEF Inv, Shaped, Books, Grown

(* One handler moves on; the other handlers see more keys, plans and       *)
(* records at most.                                                        *)
LEMMA OneHandler ==
  ASSUME Inv, NEW t \in Tabs, NEW q \in Tab, NEW e,
         tab' = [tab EXCEPT ![t] = q], exchange' = [exchange EXCEPT ![t] = e],
         active' = active,
         keys' \in [Sessions -> SUBSET Draft],
         stored' \in [Sessions -> SUBSET References],
         Grown(issued, plan, data, issued', plan', data'),
         Books(issued', plan', data'),
         \A s \in Sessions : Kept(keys'[s], stored'[s], s, issued', plan'),
         Handled(q, e, issued', plan', data')
  PROVE  Inv'
<1>1. Shaped'
  BY DEF Inv, Shaped
<1>2. ASSUME NEW u \in Tabs
      PROVE  Handled(tab'[u], exchange'[u], issued', plan', data')
  <2>1. CASE u = t
    BY <2>1 DEF Inv, Shaped
  <2>2. CASE u # t
    <3>1. tab'[u] = tab[u] /\ exchange'[u] = exchange[u]
      BY <2>2 DEF Inv, Shaped
    <3>2. Handled(tab[u], exchange[u], issued, plan, data)
      BY InvTypes
    <3>. QED  BY <3>1, <3>2, HandledStays
  <2>. QED  BY <2>1, <2>2
<1>. QED  BY <1>1, <1>2 DEF Inv

(* A step of one handler that draws nothing, reviews nothing and changes   *)
(* nothing at the provider.                                                *)
LEMMA QuietHandler ==
  ASSUME Inv, NEW t \in Tabs, NEW q \in Tab, NEW e,
         tab' = [tab EXCEPT ![t] = q], exchange' = [exchange EXCEPT ![t] = e],
         UNCHANGED <<active, issued, plan, data>>,
         keys' \in [Sessions -> SUBSET Draft],
         stored' \in [Sessions -> SUBSET References],
         \A s \in Sessions : keys'[s] \subseteq keys[s],
         \A s \in Sessions : stored'[s] \subseteq stored[s],
         Handled(q, e, issued, plan, data)
  PROVE  Inv'
<1>1. Grown(issued, plan, data, issued', plan', data')
  BY DEF Grown
<1>2. Books(issued', plan', data')
  BY DEF Inv
<1>3. ASSUME NEW s \in Sessions
      PROVE  Kept(keys'[s], stored'[s], s, issued', plan')
  <2>1. Kept(keys[s], stored[s], s, issued, plan) /\ stored[s] \in SUBSET References
    BY InvTypes
  <2>2. keys'[s] \in SUBSET keys[s] /\ stored'[s] \in SUBSET stored[s]
    OBVIOUS
  <2>. QED  BY <1>1, <2>1, <2>2, KeptStays
<1>4. Handled(q, e, issued', plan', data')
  OBVIOUS
<1>. QED  BY <1>1, <1>2, <1>3, <1>4, OneHandler

(* After the call, a handler goes on with the same form or plan.           *)
LEMMA GoesOn ==
  ASSUME NEW q \in Tab, NEW next \in Tab, NEW e, NEW drawn, NEW plans, NEW state,
         Owns(q, plans), q.label # "load", Exchanged(e, drawn, plans, state),
         next.label \in {"refetch", "store", "drop plan", "drop plan key", "drop key"},
         next.label = "store" => q.op \in Plans,
         next.session = q.session, next.op = q.op, next.target = q.target,
         next.version = q.version, next.detail = q.detail,
         next.reference = q.reference,
         Shows(next, state)
  PROVE  Handled(next, e, drawn, plans, state)
<1>1. Owns(next, plans)
  BY DEF Owns
<1>. QED  BY <1>1 DEF Handled, Holds, Awaits

LEMMA GotoFields ==
  ASSUME NEW q \in Tab, NEW label \in Labels
  PROVE  LET next == [q EXCEPT !.label = label] IN
         /\ next \in Tab /\ next.label = label /\ next.page = q.page
         /\ next.session = q.session /\ next.op = q.op /\ next.target = q.target
         /\ next.version = q.version /\ next.detail = q.detail
         /\ next.reference = q.reference /\ next.key = q.key
BY DEF Tab

(* The handler returns without reporting anything.                         *)
LEMMA ReturnStep ==
  ASSUME Inv, NEW t \in Tabs,
         \/ Fail(t) \/ RejectDraft(t) \/ Lose(t) \/ Refetch(t)
  PROVE  Inv'
<1>1. /\ tab' = [tab EXCEPT ![t] = Idle] /\ exchange' = [exchange EXCEPT ![t] = exchange[t]]
      /\ UNCHANGED <<active, keys, stored, plan, issued, data>>
  BY InvTypes DEF Fail, RejectDraft, Lose, Refetch, Return, session, provider
<1>2. Handled(Idle, exchange[t], issued, plan, data)
  BY InvTypes, IdleHandled DEF Handled
<1>. QED  BY <1>1, <1>2, InvTypes, TabTypes, QuietHandler

LEMMA AbandonStep ==
  ASSUME Inv, NEW t \in Tabs, Abandon(t)
  PROVE  Inv'
<1>1. /\ tab' = [tab EXCEPT ![t] = tab[t]]
      /\ UNCHANGED <<active, keys, stored, plan, issued, data>>
      /\ At(t, "idle")
  BY InvTypes DEF Abandon, Provider!GiveUp, session
<1>2. exchange' = [exchange EXCEPT ![t] = Provider!Nothing]
  BY DEF Abandon, Provider!GiveUp, Inv, Shaped
<1>3. Handled(tab[t], Provider!Nothing, issued, plan, data)
  BY <1>1, InvTypes DEF Handled, Exchanged, Awaits, At
<1>. QED  BY <1>1, <1>2, <1>3, InvTypes, QuietHandler

LEMMA SubmitStep ==
  ASSUME Inv, NEW t \in Tabs, NEW s \in Sessions, NEW form \in Forms,
         Submit(t, s, form)
  PROVE  Inv'
<1> DEFINE label == IF form.op \in Plans THEN "find" ELSE "key"
           q == [Idle EXCEPT !.label = label, !.session = s, !.op = form.op,
                             !.target = form.target, !.version = form.version,
                             !.detail = form.detail]
<1>1. /\ tab' = [tab EXCEPT ![t] = q]
      /\ exchange' = [exchange EXCEPT ![t] = exchange[t]]
      /\ UNCHANGED <<active, keys, stored, plan, issued, data>>
  BY InvTypes DEF Submit, session, provider
<1>2. /\ form.op \in Saves \cup Plans /\ form.target \in Entities
      /\ form.version \in Nat /\ form.detail \in Details \cup {None}
      /\ form.op \in Saves => form.detail \in Details
  BY FormAssumption
<1>3. form.op \in Operations /\ label \in Labels
  BY <1>2 DEF Operations, Labels
<1>4. q \in Tab
  BY <1>2, <1>3, TabTypes
<1>5. /\ q.label = label /\ q.session = s /\ q.op = form.op
      /\ q.target = form.target /\ q.detail = form.detail /\ q.page = "none"
  BY DEF Idle
<1> HIDE DEF q
<1>6. Owns(q, plan)
  BY <1>2, <1>3, <1>5, OpSets DEF Owns, Saves
<1>7. Holds(q, issued) /\ Shows(q, data) /\ Awaits(q, exchange[t])
  BY <1>5 DEF Holds, Shows, Awaits
<1>8. Handled(q, exchange[t], issued, plan, data)
  BY <1>6, <1>7, InvTypes DEF Handled
<1>. QED  BY <1>1, <1>4, <1>8, InvTypes, QuietHandler

LEMMA SubmitApplyStep ==
  ASSUME Inv, NEW t \in Tabs, NEW s \in Sessions, NEW op \in Applies,
         NEW reference \in References, SubmitApply(t, s, op, reference)
  PROVE  Inv'
<1> DEFINE q == [Idle EXCEPT !.label = "load", !.session = s, !.op = op,
                             !.reference = reference]
<1>1. /\ tab' = [tab EXCEPT ![t] = q]
      /\ exchange' = [exchange EXCEPT ![t] = exchange[t]]
      /\ UNCHANGED <<active, keys, stored, plan, issued, data>>
  BY InvTypes DEF SubmitApply, session, provider
<1>2. op \in Operations /\ "load" \in Labels
  BY DEF Operations, Labels
<1>3. q \in Tab
  BY <1>2, TabTypes
<1>4. /\ q.label = "load" /\ q.session = s /\ q.op = op
      /\ q.reference = reference /\ q.page = "none"
  BY DEF Idle
<1> HIDE DEF q
<1>5. Owns(q, plan)
  BY <1>2, <1>4, OpSets DEF Owns, Saves
<1>6. Holds(q, issued) /\ Shows(q, data) /\ Awaits(q, exchange[t])
  BY <1>4 DEF Holds, Shows, Awaits
<1>7. Handled(q, exchange[t], issued, plan, data)
  BY <1>5, <1>6, InvTypes DEF Handled
<1>. QED  BY <1>1, <1>3, <1>7, InvTypes, QuietHandler

(* The plan that is loaded is the one its session reviewed.                *)
LEMMA LoadDraftStep ==
  ASSUME Inv, NEW t \in Tabs, LoadDraft(t)
  PROVE  Inv'
<1> DEFINE reviewed == plan[tab[t].reference]
           q == [tab[t] EXCEPT !.label = "key", !.target = reviewed.target,
                               !.version = reviewed.version]
<1>1. /\ At(t, "load") /\ tab[t].reference \in stored[tab[t].session]
      /\ reviewed.op = Planned[tab[t].op]
      /\ tab' = [tab EXCEPT ![t] = q]
      /\ exchange' = [exchange EXCEPT ![t] = exchange[t]]
      /\ UNCHANGED <<active, keys, stored, plan, issued, data>>
  BY InvTypes DEF LoadDraft, session, provider
<1>2. /\ tab[t] \in Tab /\ Owns(tab[t], plan) /\ Shows(tab[t], data)
      /\ Exchanged(exchange[t], issued, plan, data)
  BY <1>1, InvTypes DEF Handled, At
<1>3. /\ tab[t].session \in Sessions /\ tab[t].op \in Applies
      /\ tab[t].reference \in References
  BY <1>1, <1>2 DEF Owns, At
<1>4. reviewed \in Plan /\ reviewed.session = tab[t].session
  BY <1>1, <1>3, InvTypes DEF Kept
<1>5. /\ reviewed.target \in Entities /\ reviewed.version \in Nat
      /\ reviewed = Review(tab[t].session, Planned[tab[t].op], reviewed.target,
                           reviewed.version)
  BY <1>1, <1>4 DEF Plan, Review
<1>6. q \in Tab
  BY <1>2, <1>5, TabSteps DEF Labels
<1>7. /\ q.label = "key" /\ q.session = tab[t].session /\ q.op = tab[t].op
      /\ q.target = reviewed.target /\ q.version = reviewed.version
      /\ q.reference = tab[t].reference /\ q.page = tab[t].page
  BY <1>2 DEF Tab
<1> HIDE DEF q
<1>8. Owns(q, plan)
  BY <1>2, <1>3, <1>4, <1>5, <1>7, OpSets DEF Owns, Saves, Reviewed
<1>9. Holds(q, issued) /\ Shows(q, data) /\ Awaits(q, exchange[t])
  BY <1>1, <1>2, <1>7 DEF Holds, Shows, Awaits, At
<1>10. Handled(q, exchange[t], issued, plan, data)
  BY <1>2, <1>8, <1>9 DEF Handled
<1>. QED  BY <1>1, <1>6, <1>10, InvTypes, QuietHandler

LEMMA FindEntityStep ==
  ASSUME Inv, NEW t \in Tabs, FindEntity(t)
  PROVE  Inv'
<1> DEFINE version == data.entities[tab[t].target].version
           q == [tab[t] EXCEPT !.label = "key", !.version = version]
<1>1. /\ At(t, "find") /\ tab' = [tab EXCEPT ![t] = q]
      /\ exchange' = [exchange EXCEPT ![t] = exchange[t]]
      /\ UNCHANGED <<active, keys, stored, plan, issued, data>>
  BY InvTypes DEF FindEntity, session, provider
<1>2. /\ tab[t] \in Tab /\ Owns(tab[t], plan) /\ Shows(tab[t], data)
      /\ Exchanged(exchange[t], issued, plan, data)
  BY <1>1, InvTypes DEF Handled, At
<1>3. tab[t].op \in Plans /\ tab[t].target \in Entities
  BY <1>1, <1>2 DEF Owns, At
<1>4. version \in Nat
  BY <1>3, InvTypes, PartTypes, VersionTypes
<1>5. q \in Tab
  BY <1>2, <1>4, TabSteps DEF Labels
<1>6. /\ q.label = "key" /\ q.session = tab[t].session /\ q.op = tab[t].op
      /\ q.target = tab[t].target /\ q.page = tab[t].page
  BY <1>2 DEF Tab
<1> HIDE DEF q
<1>7. Owns(q, plan)
  BY <1>2, <1>3, <1>6, OpSets DEF Owns, Saves
<1>8. Holds(q, issued) /\ Shows(q, data) /\ Awaits(q, exchange[t])
  BY <1>1, <1>2, <1>6 DEF Holds, Shows, Awaits, At
<1>9. Handled(q, exchange[t], issued, plan, data)
  BY <1>2, <1>7, <1>8 DEF Handled
<1>. QED  BY <1>1, <1>5, <1>9, InvTypes, QuietHandler

(* A handler that disposes of drafts gives up its own.                     *)
LEMMA DropPlanStep ==
  ASSUME Inv, NEW t \in Tabs, DropPlan(t)
  PROVE  Inv'
<1> DEFINE q == [tab[t] EXCEPT !.label = "drop plan key"]
           s == tab[t].session
           later == [stored EXCEPT ![s] = @ \ {tab[t].reference}]
<1>1. /\ At(t, "drop plan") /\ tab' = [tab EXCEPT ![t] = q] /\ stored' = later
      /\ exchange' = [exchange EXCEPT ![t] = exchange[t]]
      /\ UNCHANGED <<active, keys, plan, issued, data>>
  BY InvTypes DEF DropPlan, Goto, provider
<1>2. /\ tab[t] \in Tab /\ Owns(tab[t], plan) /\ Shows(tab[t], data)
      /\ Exchanged(exchange[t], issued, plan, data)
      /\ stored \in [Sessions -> SUBSET References]
  BY <1>1, InvTypes DEF Handled, At
<1>3. s \in Sessions /\ tab[t].label = "drop plan" /\ tab[t].page \in Pages
  BY <1>1, <1>2 DEF Owns, At, Tab
<1>4. /\ later \in [Sessions -> SUBSET References]
      /\ \A x \in Sessions : later[x] \subseteq stored[x]
  BY <1>2, <1>3
<1>5. /\ q \in Tab /\ q.label = "drop plan key" /\ q.page = tab[t].page
      /\ q.session = s /\ q.op = tab[t].op /\ q.target = tab[t].target
      /\ q.version = tab[t].version /\ q.detail = tab[t].detail
      /\ q.reference = tab[t].reference /\ q.key = tab[t].key
  BY <1>2, <1>3, GotoFields DEF Labels
<1> HIDE DEF q, later, s
<1>6. Shows(q, data)
  BY <1>2, <1>5 DEF Shows
<1>7. Handled(q, exchange[t], issued, plan, data)
  BY <1>2, <1>3, <1>5, <1>6, GoesOn DEF s
<1>. QED  BY <1>1, <1>4, <1>5, <1>7, InvTypes, QuietHandler

LEMMA DropPlanKeyStep ==
  ASSUME Inv, NEW t \in Tabs, DropPlanKey(t)
  PROVE  Inv'
<1> DEFINE q == [tab[t] EXCEPT !.label = "drop key"]
           s == tab[t].session
           later == WithoutKey(s, PlanScope(tab[t].reference))
<1>1. /\ At(t, "drop plan key") /\ tab' = [tab EXCEPT ![t] = q] /\ keys' = later
      /\ exchange' = [exchange EXCEPT ![t] = exchange[t]]
      /\ UNCHANGED <<active, stored, plan, issued, data>>
  BY InvTypes DEF DropPlanKey, Goto, provider
<1>2. /\ tab[t] \in Tab /\ Owns(tab[t], plan) /\ Shows(tab[t], data)
      /\ Exchanged(exchange[t], issued, plan, data)
      /\ keys \in [Sessions -> SUBSET Draft]
  BY <1>1, InvTypes DEF Handled, At
<1>3. s \in Sessions /\ tab[t].label = "drop plan key" /\ tab[t].page \in Pages
  BY <1>1, <1>2 DEF Owns, At, Tab
<1>4. /\ later \in [Sessions -> SUBSET Draft]
      /\ \A x \in Sessions : later[x] \subseteq keys[x]
  BY <1>2, <1>3 DEF WithoutKey
<1>5. /\ q \in Tab /\ q.label = "drop key" /\ q.page = tab[t].page
      /\ q.session = s /\ q.op = tab[t].op /\ q.target = tab[t].target
      /\ q.version = tab[t].version /\ q.detail = tab[t].detail
      /\ q.reference = tab[t].reference /\ q.key = tab[t].key
  BY <1>2, <1>3, GotoFields DEF Labels
<1> HIDE DEF q, later, s
<1>6. Shows(q, data)
  BY <1>2, <1>5 DEF Shows
<1>7. Handled(q, exchange[t], issued, plan, data)
  BY <1>2, <1>3, <1>5, <1>6, GoesOn DEF s
<1>. QED  BY <1>1, <1>4, <1>5, <1>7, InvTypes, QuietHandler

(* The page is written, with what it reports.                              *)
LEMMA ClearDraftStep ==
  ASSUME Inv, NEW t \in Tabs, ClearDraft(t)
  PROVE  Inv'
<1> DEFINE p == tab[t]
           told == [Idle EXCEPT !.page = p.page, !.target = p.target,
                                !.detail = p.detail, !.key = p.key]
           q == IF p.page = "none" THEN Idle ELSE told
           s == p.session
           later == WithoutKey(s, ScopeOf(p))
<1>1. /\ At(t, "drop key") /\ tab' = [tab EXCEPT ![t] = q] /\ keys' = later
      /\ exchange' = [exchange EXCEPT ![t] = exchange[t]]
      /\ UNCHANGED <<active, stored, plan, issued, data>>
  BY InvTypes DEF ClearDraft, Report, provider
<1>2. /\ p \in Tab /\ Owns(p, plan) /\ Shows(p, data)
      /\ Exchanged(exchange[t], issued, plan, data)
      /\ keys \in [Sessions -> SUBSET Draft]
  BY <1>1, InvTypes DEF Handled, At
<1>3. s \in Sessions
  BY <1>2 DEF Owns
<1>4. /\ later \in [Sessions -> SUBSET Draft]
      /\ \A x \in Sessions : later[x] \subseteq keys[x]
  BY <1>2, <1>3 DEF WithoutKey
<1>5. /\ told \in Tab /\ told.label = "idle" /\ told.page = p.page
      /\ told.target = p.target /\ told.key = p.key
  BY <1>2, TabTypes DEF Idle
<1> HIDE DEF p, told, later
<1>6. Handled(told, exchange[t], issued, plan, data)
  BY <1>2, <1>5 DEF Handled, Holds, Shows, Awaits
<1>7. Handled(q, exchange[t], issued, plan, data)
  BY <1>2, <1>6, IdleHandled
<1>8. q \in Tab
  BY <1>5, TabTypes
<1> HIDE DEF q
<1>. QED  BY <1>1, <1>4, <1>7, <1>8, InvTypes, QuietHandler

(* A handler asks for what it holds a key for.                             *)
LEMMA CallStep ==
  ASSUME Inv, NEW t \in Tabs, Call(t)
  PROVE  Inv'
<1> DEFINE p == tab[t]
           q == [p EXCEPT !.label = "wait"]
           r == RequestFor(p)
           e == [stage |-> "asked", request |-> r, answer |-> None]
           draw == [session |-> p.session, scope |-> ScopeOf(p), key |-> p.key]
<1>1. /\ At(t, "call") /\ tab' = [tab EXCEPT ![t] = q]
      /\ exchange' = [exchange EXCEPT ![t] = e]
      /\ UNCHANGED <<active, keys, stored, plan, issued, data>>
  BY DEF Call, Goto, Provider!Ask, session
<1>2. /\ p \in Tab /\ Owns(p, plan) /\ Shows(p, data) /\ p.label = "call"
      /\ draw \in issued /\ issued \subseteq Draw
  BY <1>1, InvTypes DEF Handled, Holds, At, Inv, Books
<1>3. p.op \in Operations /\ p.key \in Keys
  <2>1. draw \in Draw /\ draw.key = p.key
    BY <1>2
  <2> HIDE DEF draw
  <2>. QED  BY <1>2, <2>1 DEF Owns, Draw
<1>4. /\ draw.session = p.session /\ draw.scope = ScopeOf(p) /\ draw.key = p.key
      /\ e.stage = "asked" /\ e.request = r /\ e # Provider!Nothing
  BY DEF Provider!Nothing
<1>5. /\ q \in Tab /\ q.label = "wait" /\ q.page = p.page
      /\ q.session = p.session /\ q.op = p.op /\ q.target = p.target
      /\ q.version = p.version /\ q.detail = p.detail
      /\ q.reference = p.reference /\ q.key = p.key
  BY <1>2, GotoFields DEF Labels
<1>6. ScopeOf(q) = ScopeOf(p) /\ RequestFor(q) = r
  BY <1>5 DEF ScopeOf, RequestFor
<1>7. /\ r \in Request /\ WellFormed(r) /\ r.key = p.key
      /\ r.expected = p.version
      /\ r.kind \in {"put", "plan-delete", "delete", "migrate"}
      /\ r.kind = "put" <=> p.op \in Saves
      /\ r.kind = "delete" <=> p.op = "delete"
      /\ r.kind \in {"put", "delete"} => r.target = p.target
  BY <1>2, <1>3, RequestTypesOf
<1>8. /\ ScopeOf(p).op = p.op
      /\ p.op \in Applies => ScopeOf(p).reference = p.reference
      /\ p.op \notin Applies => /\ ScopeOf(p).target = p.target
                                /\ ScopeOf(p).version = p.version
  BY <1>2, <1>3, ScopeTypes
<1> HIDE DEF q, r, e, draw, p
<1>9. Backs(draw, r.key, r.kind, r.target, r.expected, plan)
  <2>1. draw.key = r.key /\ draw.scope.op = p.op
    BY <1>4, <1>7, <1>8
  <2>2. r.kind = "put" =>
          draw.scope.target = r.target /\ draw.scope.version = r.expected
    BY <1>4, <1>7, <1>8, OpSets DEF Saves
  <2>3. r.kind = "delete" =>
          /\ Reviewed(draw.scope.reference, plan)
          /\ plan[draw.scope.reference] =
               Review(draw.session, "plan-delete", r.target, r.expected)
    BY <1>2, <1>4, <1>7, <1>8, OpSets DEF Owns
  <2>. QED  BY <1>7, <2>1, <2>2, <2>3 DEF Backs
<1>10. About(e, issued, plan, data)
  BY <1>2, <1>3, <1>4, <1>7, <1>9 DEF About, Backed
<1>11. Owns(q, plan)
  BY <1>2, <1>5 DEF Owns
<1>12. Holds(q, issued) /\ Shows(q, data) /\ Awaits(q, e)
  BY <1>2, <1>4, <1>5, <1>6 DEF Holds, Shows, Awaits, draw
<1>13. Handled(q, e, issued, plan, data)
  BY <1>10, <1>11, <1>12 DEF Handled, Exchanged
<1>. QED  BY <1>1, <1>5, <1>13, InvTypes, QuietHandler

(* What a handler makes of the answer to its call.                         *)
LEMMA ReceiveStep ==
  ASSUME Inv, NEW t \in Tabs, Receive(t)
  PROVE  Inv'
<1> DEFINE p == tab[t]
           e == exchange[t]
           status == e.answer.status
           draw == [session |-> p.session, scope |-> ScopeOf(p), key |-> p.key]
<1>1. /\ At(t, "wait") /\ e.stage = "performed"
      /\ exchange' = [exchange EXCEPT ![t] = Provider!Nothing]
      /\ UNCHANGED <<active, keys, stored, plan, issued, data>>
  BY DEF Receive, Provider!Tell, session
<1>2. /\ p \in Tab /\ p.label = "wait" /\ Owns(p, plan) /\ Shows(p, data)
      /\ Exchanged(e, issued, plan, data)
      /\ e # Provider!Nothing /\ e.request = RequestFor(p)
      /\ draw \in issued /\ issued \subseteq Draw
  BY <1>1, InvTypes DEF Handled, Holds, Awaits, At, Inv, Books
<1>3. p.op \in Operations /\ p.key \in Keys /\ p.page = "none"
  <2>1. draw \in Draw /\ draw.key = p.key
    BY <1>2
  <2> HIDE DEF draw
  <2>. QED  BY <1>2, <2>1 DEF Owns, Draw, Shows
<1> HIDE DEF draw
<1>4. About(e, issued, plan, data)
  BY <1>2 DEF Exchanged
<1>5. /\ RequestFor(p).key = p.key
      /\ RequestFor(p).kind = "put" <=> p.op \in Saves
      /\ RequestFor(p).kind = "delete" <=> p.op = "delete"
      /\ RequestFor(p).kind \in {"put", "delete"} => RequestFor(p).target = p.target
  BY <1>2, <1>3, RequestTypesOf
<1>6. status = "ok" =>
        /\ p.op \in Saves => Audited(p.key, "put", p.target, data)
        /\ p.op = "delete" => Audited(p.key, "delete", p.target, data)
  BY <1>1, <1>2, <1>4, <1>5 DEF About
<1>7. ASSUME NEW q \in Tab, tab' = [tab EXCEPT ![t] = q],
             Handled(q, Provider!Nothing, issued, plan, data)
      PROVE  Inv'
  BY <1>1, <1>7, InvTypes, QuietHandler
<1>8. Exchanged(Provider!Nothing, issued, plan, data)
  BY DEF Exchanged
<1>9. ASSUME Return(t) PROVE Inv'
  BY <1>7, <1>8, <1>9, IdleHandled, TabTypes DEF Return
<1>10. ASSUME NEW q \in Tab, tab' = [tab EXCEPT ![t] = q],
              q.label \in {"refetch", "store", "drop plan", "drop key"},
              q.label = "store" => p.op \in Plans,
              q.session = p.session, q.op = p.op, q.target = p.target,
              q.version = p.version, q.detail = p.detail,
              q.reference = p.reference, q.key = p.key,
              q.page # "none" => q.label \in {"drop plan", "drop key"},
              q.page = "saved" => Audited(p.key, "put", p.target, data),
              q.page = "deleted" => Audited(p.key, "delete", p.target, data)
       PROVE  Inv'
  <2> HIDE DEF p
  <2>1. Shows(q, data)
    BY <1>10 DEF Shows
  <2>2. Handled(q, Provider!Nothing, issued, plan, data)
    BY <1>2, <1>8, <1>10, <2>1, GoesOn
  <2>. QED  BY <1>7, <1>10, <2>2
<1>11. ASSUME NEW label \in {"refetch", "store", "drop plan", "drop key"},
              label = "store" => p.op \in Plans, Goto(t, label)
       PROVE  Inv'
  <2> DEFINE q == [p EXCEPT !.label = label]
  <2>1. tab' = [tab EXCEPT ![t] = q] /\ label \in Labels
    BY <1>11 DEF Goto, Labels
  <2>2. /\ q \in Tab /\ q.label = label /\ q.page = p.page
        /\ q.session = p.session /\ q.op = p.op /\ q.target = p.target
        /\ q.version = p.version /\ q.detail = p.detail
        /\ q.reference = p.reference /\ q.key = p.key
    BY <1>2, <2>1, GotoFields
  <2> HIDE DEF q, p
  <2>. QED  BY <1>3, <1>10, <1>11, <2>1, <2>2
<1>12. ASSUME NEW label \in {"drop plan", "drop key"}, NEW page \in Pages,
              page = "saved" => Audited(p.key, "put", p.target, data),
              page = "deleted" => Audited(p.key, "delete", p.target, data),
              Dispose(t, label, page)
       PROVE  Inv'
  <2> DEFINE q == [p EXCEPT !.label = label, !.page = page]
  <2> HIDE DEF p
  <2>1. tab' = [tab EXCEPT ![t] = q] /\ label \in Labels
    BY <1>12 DEF Dispose, Labels, p
  <2>2. /\ q \in Tab /\ q.label = label /\ q.page = page
        /\ q.session = p.session /\ q.op = p.op /\ q.target = p.target
        /\ q.version = p.version /\ q.detail = p.detail
        /\ q.reference = p.reference /\ q.key = p.key
    BY <1>2, <2>1 DEF Tab
  <2> HIDE DEF q
  <2>. QED  BY <1>10, <1>12, <2>1, <2>2
<1>13. /\ "saved" \in Pages /\ "deleted" \in Pages /\ "applied" \in Pages
       /\ "saved" # "deleted" /\ "applied" # "saved" /\ "applied" # "deleted"
  BY DEF Pages
<1>14. CASE p.op \in Saves
  <2>1. AfterSave(t, status)
    BY <1>14, OpSets DEF Receive, Saves
  <2>2. CASE status = "ok"
    BY <1>6, <1>13, <1>12, <1>14, <2>1, <2>2 DEF AfterSave
  <2>3. CASE status = "conflict"
    BY <1>11, <2>1, <2>3 DEF AfterSave
  <2>4. CASE status \notin {"ok", "conflict"}
    BY <1>9, <2>1, <2>4 DEF AfterSave
  <2>. QED  BY <2>2, <2>3, <2>4
<1>15. CASE p.op \in Plans
  <2>1. AfterPlan(t, status)
    BY <1>15, OpSets DEF Receive, Saves
  <2>. QED  BY <1>9, <1>15, <1>11, <2>1 DEF AfterPlan
<1>16. CASE p.op \in Applies
  <2>1. AfterApply(t, status)
    BY <1>16, OpSets DEF Receive, Saves
  <2>2. CASE status = "ok"
    <3>1. CASE p.op = "delete"
      BY <1>6, <1>13, <1>12, <2>1, <2>2, <3>1 DEF AfterApply
    <3>2. CASE p.op # "delete"
      BY <1>13, <1>12, <2>1, <2>2, <3>2 DEF AfterApply
    <3>. QED  BY <3>1, <3>2
  <2>3. CASE status = "conflict"
    BY <1>11, <2>1, <2>3 DEF AfterApply
  <2>4. CASE status \notin {"ok", "conflict"}
    BY <1>9, <2>1, <2>4 DEF AfterApply
  <2>. QED  BY <2>2, <2>3, <2>4
<1>. QED  BY <1>3, <1>14, <1>15, <1>16 DEF Operations

-----------------------------------------------------------------------------
(* Steps that draw a key, keep a plan or change the provider *)

(* One more draft within the limit.                                        *)
LEMMA OneMore ==
  ASSUME NEW S, NEW x, IsFiniteSet(S), NEW m \in Nat,
         Cardinality(S) + m < MaxDrafts
  PROVE  IsFiniteSet(S \cup {x}) /\ Cardinality(S \cup {x}) + m <= MaxDrafts
<1> DEFINE c == Cardinality(S)
           d == Cardinality(S \cup {x})
<1>1. /\ IsFiniteSet(S \cup {x}) /\ c \in Nat /\ c + m < MaxDrafts
      /\ d = c \/ d = c + 1
  BY FS_AddElement, FS_CardinalityType
<1> HIDE DEF c, d
<1>2. d + m <= MaxDrafts
  BY <1>1
<1>. QED  BY <1>1, <1>2 DEF d

(* A fresh key is drawn for what its session submitted.                    *)
LEMMA DrawKeeps ==
  ASSUME NEW drawn, NEW plans, NEW state, Books(drawn, plans, state),
         NEW draw \in Draw, \A d \in drawn : d.key # draw.key,
         draw.scope.op = "delete" => Reviewed(draw.scope.reference, plans)
  PROVE  /\ Grown(drawn, plans, state, drawn \cup {draw}, plans, state)
         /\ Books(drawn \cup {draw}, plans, state)
<1> DEFINE later == drawn \cup {draw}
<1>1. Grown(drawn, plans, state, later, plans, state)
  BY DEF Grown
<1>2. KeysOnce(later)
  BY DEF Books, KeysOnce
<1>3. PlansFirst(later, plans)
  BY DEF Books, PlansFirst
<1>4. ASSUME NEW k \in Keys, state.results[k] # None
      PROVE  k # draw.key /\ \E d \in drawn : d.key = k
  BY <1>4 DEF Books, ResultsTold
<1>5. ResultsTold(later, plans, state)
  BY <1>4 DEF Books, ResultsTold
<1> HIDE DEF later
<1>6. TrailBacked(later, plans, state)
  BY <1>1, BackedStays DEF Books, TrailBacked
<1>7. later \subseteq Draw
  BY DEF Books, later
<1>. QED  BY <1>1, <1>2, <1>3, <1>5, <1>6, <1>7 DEF Books, later

(* A plan takes a reference that named nothing.                            *)
LEMMA ReviewKeeps ==
  ASSUME NEW drawn, NEW plans, NEW state, Books(drawn, plans, state),
         NEW r \in References, plans[r] = None, NEW review \in Plan
  PROVE  LET reviewed == [plans EXCEPT ![r] = review] IN
         /\ Grown(drawn, plans, state, drawn, reviewed, state)
         /\ Books(drawn, reviewed, state)
<1> DEFINE reviewed == [plans EXCEPT ![r] = review]
<1>1. /\ plans \in [References -> Plan \cup {None}] /\ None \notin Plan
      /\ reviewed \in [References -> Plan \cup {None}]
      /\ \A x \in References \ {r} : reviewed[x] = plans[x]
  BY DEF Books
<1> HIDE DEF reviewed
<1>2. \A x \in References : plans[x] \in Plan => reviewed[x] = plans[x]
  BY <1>1
<1>3. Grown(drawn, plans, state, drawn, reviewed, state)
  BY <1>2 DEF Grown
<1>4. \A draw \in drawn :
        draw.scope.op = "delete" =>
          /\ Reviewed(draw.scope.reference, reviewed)
          /\ reviewed[draw.scope.reference] = plans[draw.scope.reference]
  BY <1>2 DEF Books, PlansFirst, Reviewed
<1>5. PlansFirst(drawn, reviewed) /\ ResultsTold(drawn, reviewed, state)
  BY <1>4 DEF Books, PlansFirst, ResultsTold
<1>6. TrailBacked(drawn, reviewed, state)
  BY <1>3, BackedStays DEF Books, TrailBacked
<1>. QED  BY <1>1, <1>3, <1>5, <1>6 DEF Books, reviewed

(* A handler finds the key of its draft, or has one drawn.                 *)
LEMMA DraftKeyStep ==
  ASSUME Inv, NEW t \in Tabs, DraftKey(t)
  PROVE  Inv'
<1> DEFINE p == tab[t]
           e == exchange[t]
           s == p.session
           scope == ScopeOf(p)
           kept == {draft \in keys[s] : draft.scope = scope}
           Q(key) == [p EXCEPT !.label = "call", !.key = key]
           Draft1(key) == [scope |-> scope, key |-> key]
           Draw1(key) == [session |-> s, scope |-> scope, key |-> key]
<1>1. PICK key \in IF kept # {} THEN {draft.key : draft \in kept}
                   ELSE Keys \ {i.key : i \in issued} :
        /\ kept = {} => Drafts(s) < MaxDrafts
        /\ keys' = [keys EXCEPT ![s] = @ \cup {Draft1(key)}]
        /\ issued' = issued \cup {Draw1(key)}
        /\ tab' = [tab EXCEPT ![t].label = "call", ![t].key = key]
  BY DEF DraftKey
<1>2. /\ At(t, "key") /\ UNCHANGED <<active, stored, plan, data>>
      /\ exchange' = [exchange EXCEPT ![t] = e]
  BY InvTypes DEF DraftKey, provider
<1>3. /\ p \in Tab /\ p.label = "key" /\ Owns(p, plan) /\ Shows(p, data)
      /\ Exchanged(e, issued, plan, data)
      /\ keys \in [Sessions -> SUBSET Draft] /\ issued \subseteq Draw
      /\ Books(issued, plan, data)
  BY <1>2, InvTypes DEF Handled, At, Inv, Books
<1>4. /\ s \in Sessions /\ p.op \in Operations /\ p.page = "none"
      /\ p.op \in Applies => Reviewed(p.reference, plan)
  BY <1>3 DEF Owns, Shows
<1>5. /\ scope \in Scope /\ scope.op = p.op
      /\ p.op \in Applies => scope.reference = p.reference
  BY <1>3, <1>4, ScopeTypes
<1>6. kept # {} => \E draft \in keys[s] : draft.scope = scope /\ draft.key = key
  BY <1>1
<1>7. key \in Keys
  BY <1>1, <1>3, <1>4 DEF Draft
<1>8. /\ Q(key) \in Tab /\ Q(key).label = "call" /\ Q(key).key = key
      /\ Q(key).session = s /\ Q(key).op = p.op /\ Q(key).target = p.target
      /\ Q(key).version = p.version /\ Q(key).detail = p.detail
      /\ Q(key).reference = p.reference /\ Q(key).page = "none"
  BY <1>3, <1>4, <1>7 DEF Tab, Labels
<1>9. Draft1(key) \in Draft /\ Draw1(key) \in Draw
  BY <1>4, <1>5, <1>7 DEF Draft, Draw
<1>10. /\ Draft1(key).scope = scope /\ Draft1(key).key = key
       /\ Draw1(key).session = s /\ Draw1(key).scope = scope /\ Draw1(key).key = key
  OBVIOUS
<1>11. ASSUME NEW drawn, Draw1(key) \in drawn, Exchanged(e, drawn, plan, data)
       PROVE  Handled(Q(key), e, drawn, plan, data)
  <2>1. ScopeOf(Q(key)) = scope
    BY <1>8 DEF ScopeOf
  <2> HIDE DEF Q, p, e, scope, s
  <2>2. Owns(Q(key), plan)
    BY <1>3, <1>8 DEF Owns, s
  <2>3. Holds(Q(key), drawn) /\ Shows(Q(key), data) /\ Awaits(Q(key), e)
    BY <1>8, <1>11, <2>1 DEF Holds, Shows, Awaits
  <2>. QED  BY <1>11, <2>2, <2>3 DEF Handled
<1>12. tab' = [tab EXCEPT ![t] = Q(key)]
  BY <1>1
<1> HIDE DEF Q
<1>13. CASE kept # {}
  <2>1. PICK draft \in keys[s] : draft.scope = scope /\ draft.key = key
    BY <1>6, <1>13
  <2>2. draft = Draft1(key)
    BY <1>3, <1>4, <2>1 DEF Draft
  <2>3. Draw1(key) \in issued
    BY <1>4, <2>1, InvTypes DEF Kept
  <2>4. keys' = keys
    BY <1>1, <1>3, <1>4, <2>1, <2>2
  <2>5. issued' = issued
    BY <1>1, <2>3
  <2>6. Handled(Q(key), e, issued, plan, data)
    BY <1>3, <1>11, <2>3
  <2>. QED  BY <1>2, <1>8, <1>12, <2>4, <2>5, <2>6, InvTypes, QuietHandler
<1>14. CASE kept = {}
  <2> HIDE DEF p, s, scope, kept, e
  <2>1. /\ \A d \in issued : d.key # Draw1(key).key
        /\ Drafts(s) < MaxDrafts
    BY <1>1, <1>14
  <2>2. Draw1(key).scope.op = "delete" =>
          Reviewed(Draw1(key).scope.reference, plan)
    BY <1>4, <1>5, OpSets
  <2> HIDE DEF Draw1
  <2>3. /\ Grown(issued, plan, data, issued', plan', data')
        /\ Books(issued', plan', data')
    <3>1. /\ Grown(issued, plan, data, issued \cup {Draw1(key)}, plan, data)
          /\ Books(issued \cup {Draw1(key)}, plan, data)
      BY <1>3, <1>9, <2>1, <2>2, DrawKeeps
    <3>. QED  BY <1>1, <1>2, <3>1
  <2>4. Draw1(key) \in issued'
    BY <1>1
  <2>5. Handled(tab[t], e, issued', plan, data)
    BY <1>2, <2>3, InvTypes, HandledStays DEF e
  <2>6. Handled(Q(key), e, issued', plan', data')
    BY <1>2, <1>11, <2>4, <2>5 DEF Handled
  <2>7. /\ keys'[s] = keys[s] \cup {Draft1(key)}
        /\ \A x \in Sessions \ {s} : keys'[x] = keys[x]
        /\ keys' \in [Sessions -> SUBSET Draft]
    BY <1>1, <1>3, <1>4, <1>9
  <2>8. ASSUME NEW x \in Sessions
        PROVE  Kept(keys'[x], stored'[x], x, issued', plan')
    <3>1. /\ Kept(keys[x], stored[x], x, issued, plan)
          /\ stored[x] \in SUBSET References /\ stored'[x] = stored[x]
      BY <1>2, InvTypes
    <3>2. Kept(keys[x], stored[x], x, issued', plan')
      BY <2>3, <3>1, KeptStays
    <3>3. CASE x # s
      BY <2>7, <3>1, <3>2, <3>3
    <3>4. CASE x = s
      <4>1. IsFiniteSet(keys[s]) /\ Cardinality(stored[s]) \in Nat
        BY <3>1, <3>4, FS_CardinalityType DEF Kept
      <4>2. /\ IsFiniteSet(keys'[s])
            /\ Cardinality(keys'[s]) + Cardinality(stored[s]) <= MaxDrafts
        <5> HIDE DEF Draft1
        <5>1. Cardinality(keys[s]) + Cardinality(stored[s]) < MaxDrafts
          BY <2>1 DEF Drafts
        <5>2. /\ IsFiniteSet(keys[s] \cup {Draft1(key)})
              /\ Cardinality(keys[s] \cup {Draft1(key)}) + Cardinality(stored[s])
                   <= MaxDrafts
          BY ONLY <4>1, <5>1, OneMore
        <5>. QED  BY <2>7, <5>2
      <4>3. [session |-> s, scope |-> Draft1(key).scope, key |-> Draft1(key).key]
              \in issued'
        BY <1>10, <2>4 DEF Draw1
      <4>4. \A draft \in keys'[s] :
              [session |-> s, scope |-> draft.scope, key |-> draft.key] \in issued'
        BY <2>7, <3>2, <3>4, <4>3 DEF Kept
      <4>. QED  BY <3>1, <3>2, <3>4, <4>2, <4>4 DEF Kept
    <3>. QED  BY <3>3, <3>4
  <2>. QED  BY <1>2, <1>8, <1>12, <2>3, <2>6, <2>7, <2>8, InvTypes, OneHandler
<1>. QED  BY <1>13, <1>14

(* The reviewed plan is kept for the session that asked for it.            *)
LEMMA StoreDraftStep ==
  ASSUME Inv, NEW t \in Tabs, StoreDraft(t)
  PROVE  Inv'
<1> DEFINE p == tab[t]
           e == exchange[t]
           s == p.session
           review == Review(s, p.op, p.target, p.version)
<1>1. PICK r \in References :
        /\ plan[r] = None
        /\ stored' = [stored EXCEPT ![s] = @ \cup {r}]
        /\ plan' = [plan EXCEPT ![r] = review]
  BY DEF StoreDraft, Review
<1>2. /\ At(t, "store") /\ Drafts(s) < MaxDrafts
      /\ UNCHANGED <<active, keys, issued, data>>
      /\ tab' = [tab EXCEPT ![t] = Idle] /\ exchange' = [exchange EXCEPT ![t] = e]
  BY InvTypes DEF StoreDraft, Return, provider
<1>3. /\ p \in Tab /\ p.label = "store" /\ Owns(p, plan)
      /\ stored \in [Sessions -> SUBSET References]
      /\ Books(issued, plan, data)
  BY <1>2, InvTypes DEF Handled, At, Inv
<1>4. /\ s \in Sessions /\ p.op \in Plans /\ p.target \in Entities
      /\ p.version \in Nat
  BY <1>3 DEF Owns, Tab
<1>5. review \in Plan /\ review.session = s
  BY <1>4 DEF Plan, Review
<1> HIDE DEF review, p, s, e
<1>6. /\ Grown(issued, plan, data, issued', plan', data')
      /\ Books(issued', plan', data')
  <2>1. LET reviewed == [plan EXCEPT ![r] = review] IN
        /\ Grown(issued, plan, data, issued, reviewed, data)
        /\ Books(issued, reviewed, data)
    BY <1>1, <1>3, <1>5, ReviewKeeps
  <2>. QED  BY <1>1, <1>2, <2>1
<1>7. Handled(Idle, e, issued', plan', data')
  <2>1. Handled(tab[t], e, issued', plan', data')
    BY <1>6, InvTypes, HandledStays DEF e
  <2>. QED  BY <2>1, IdleHandled DEF Handled
<1>8. /\ stored'[s] = stored[s] \cup {r}
      /\ \A x \in Sessions \ {s} : stored'[x] = stored[x]
      /\ stored' \in [Sessions -> SUBSET References]
  BY <1>1, <1>3, <1>4
<1>9. plan'[r] = review
  BY <1>1, <1>3 DEF Books
<1>10. ASSUME NEW x \in Sessions
       PROVE  Kept(keys'[x], stored'[x], x, issued', plan')
  <2>1. /\ Kept(keys[x], stored[x], x, issued, plan)
        /\ stored[x] \in SUBSET References /\ keys'[x] = keys[x]
    BY <1>2, InvTypes
  <2>2. Kept(keys[x], stored[x], x, issued', plan')
    BY <1>6, <2>1, KeptStays
  <2>3. CASE x # s
    BY <1>8, <2>1, <2>2, <2>3
  <2>4. CASE x = s
    <3>1. IsFiniteSet(stored[s]) /\ IsFiniteSet(keys[s])
      BY <2>1, <2>4 DEF Kept
    <3>2. /\ Cardinality(keys[s]) \in Nat /\ Cardinality(stored[s]) \in Nat
          /\ Cardinality(stored[s]) + Cardinality(keys[s]) < MaxDrafts
      BY <1>2, <3>1, FS_CardinalityType DEF Drafts
    <3>3. /\ IsFiniteSet(stored'[s])
          /\ Cardinality(stored'[s]) + Cardinality(keys[s]) <= MaxDrafts
      <4>1. /\ IsFiniteSet(stored[s] \cup {r})
            /\ Cardinality(stored[s] \cup {r}) + Cardinality(keys[s]) <= MaxDrafts
        BY ONLY <3>1, <3>2, OneMore
      <4>. QED  BY <1>8, <4>1
    <3>4. Cardinality(stored'[s]) \in Nat
      BY <3>3, FS_CardinalityType
    <3>5. Cardinality(keys[s]) + Cardinality(stored'[s]) <= MaxDrafts
      BY <3>2, <3>3, <3>4
    <3>6. \A y \in stored'[s] : plan'[y] \in Plan /\ plan'[y].session = s
      BY <1>5, <1>8, <1>9, <2>2, <2>4 DEF Kept
    <3>. QED  BY <2>1, <2>2, <2>4, <3>3, <3>5, <3>6 DEF Kept
  <2>. QED  BY <2>3, <2>4
<1>. QED  BY <1>2, <1>6, <1>7, <1>8, <1>10, InvTypes, TabTypes, OneHandler

(* The provider performs what it was asked for.                            *)
LEMMA PerformStep ==
  ASSUME Inv, NEW t \in Tabs, Perform(t)
  PROVE  Inv'
<1> DEFINE asked == exchange[t]
           outcome == Serve(data, asked.request)
           e == [stage |-> "performed", request |-> asked.request,
                 answer |-> outcome.answer]
<1>1. /\ asked.stage = "asked"
      /\ UNCHANGED <<active, keys, stored, plan, issued>>
      /\ tab' = [tab EXCEPT ![t] = tab[t]]
  BY InvTypes DEF Perform, Provider!Perform, session
<1>2. /\ Exchanged(asked, issued, plan, data) /\ Awaits(tab[t], asked)
      /\ Books(issued, plan, data)
  BY InvTypes DEF Handled, Inv
<1>3. About(asked, issued, plan, data)
  BY <1>1, <1>2 DEF Exchanged, Provider!Nothing
<1>4. Provider!Serve(data, asked.request) = outcome
  BY <1>3, SameServe DEF About
<1>5. data' = outcome.state /\ exchange' = [exchange EXCEPT ![t] = e]
  BY <1>4 DEF Perform, Provider!Perform
<1>6. e # Provider!Nothing /\ e.request = asked.request
  BY DEF Provider!Nothing
<1>7. /\ Grown(issued, plan, data, issued, plan, outcome.state)
      /\ Books(issued, plan, outcome.state)
      /\ About(e, issued, plan, outcome.state)
  BY <1>2, <1>3, PerformKeeps
<1> HIDE DEF outcome, e, asked
<1>8. /\ Grown(issued, plan, data, issued', plan', data')
      /\ Books(issued', plan', data')
      /\ About(e, issued', plan', data')
  BY <1>1, <1>5, <1>7
<1>9. Handled(tab[t], e, issued', plan', data')
  <2>1. Handled(tab[t], asked, issued', plan', data')
    BY <1>8, InvTypes, HandledStays DEF asked
  <2>2. Awaits(tab[t], e)
    BY <1>2, <1>6 DEF Awaits
  <2>. QED  BY <1>8, <2>1, <2>2 DEF Handled, Exchanged
<1>10. \A s \in Sessions : Kept(keys'[s], stored'[s], s, issued', plan')
  BY <1>1, InvTypes
<1>. QED  BY <1>1, <1>5, <1>8, <1>9, <1>10, InvTypes, OneHandler

LEMMA TeardownStep ==
  ASSUME Inv, NEW s \in Sessions, Teardown(s)
  PROVE  Inv'
<1>1. /\ active' = active \ {s} /\ keys' = [keys EXCEPT ![s] = {}]
      /\ stored' = [stored EXCEPT ![s] = {}]
      /\ UNCHANGED <<plan, issued, tab, data, exchange>>
  BY DEF Teardown, provider
<1>2. /\ keys \in [Sessions -> SUBSET Draft]
      /\ stored \in [Sessions -> SUBSET References]
  BY DEF Inv, Shaped
<1>3. /\ keys' \in [Sessions -> SUBSET Draft]
      /\ stored' \in [Sessions -> SUBSET References]
      /\ \A x \in Sessions : keys'[x] \in SUBSET keys[x]
      /\ \A x \in Sessions : stored'[x] \in SUBSET stored[x]
  BY <1>1, <1>2
<1>4. Grown(issued, plan, data, issued', plan', data')
  BY <1>1 DEF Grown
<1>5. ASSUME NEW x \in Sessions
      PROVE  Kept(keys'[x], stored'[x], x, issued', plan')
  <2>1. Kept(keys[x], stored[x], x, issued, plan) /\ stored[x] \in SUBSET References
    BY <1>2 DEF Inv
  <2>. QED  BY <1>3, <1>4, <2>1, KeptStays
<1>6. Shaped'
  BY <1>1, <1>3 DEF Inv, Shaped
<1>7. /\ Books(issued', plan', data')
      /\ \A t \in Tabs : Handled(tab'[t], exchange'[t], issued', plan', data')
  BY <1>1 DEF Inv
<1>. QED  BY <1>5, <1>6, <1>7 DEF Inv

LEMMA InvInit == Init => Inv
<1> SUFFICES ASSUME Init PROVE Inv
  OBVIOUS
<1>1. /\ data = initialState /\ exchange = [t \in Tabs |-> Provider!Nothing]
  BY SameServe DEF Init, Provider!Init
<1>2. /\ active = Sessions /\ keys = [s \in Sessions |-> {}]
      /\ stored = [s \in Sessions |-> {}]
      /\ plan = [r \in References |-> None]
      /\ issued = {} /\ tab = [t \in Tabs |-> Idle]
  BY DEF Init
<1>3. Shaped
  BY <1>1, <1>2, TabTypes DEF Shaped
<1>4. \A k \in Keys : data.results[k] = None
  BY <1>1 DEF initialState
<1>5. \A i \in DOMAIN data.audits : data.audits[i].action = "login"
  BY <1>1 DEF initialState
<1>6. Books(issued, plan, data)
  <2>1. data \in State /\ plan \in [References -> Plan \cup {None}]
    BY <1>1, <1>2, InitialTypes
  <2>2. ResultsTold(issued, plan, data) /\ TrailBacked(issued, plan, data)
    BY <1>4, <1>5 DEF ResultsTold, TrailBacked
  <2>. QED  BY <1>2, <2>1, <2>2 DEF Books, KeysOnce, PlansFirst
<1>7. ASSUME NEW s \in Sessions
      PROVE  Kept(keys[s], stored[s], s, issued, plan)
  <2>1. keys[s] = {} /\ stored[s] = {}
    BY <1>2
  <2>2. IsFiniteSet({}) /\ Cardinality({}) = 0 /\ 0 + 0 <= MaxDrafts
    BY FS_EmptySet
  <2>. QED  BY <2>1, <2>2 DEF Kept
<1>8. \A t \in Tabs : Handled(tab[t], exchange[t], issued, plan, data)
  BY <1>1, <1>2, IdleHandled DEF Exchanged
<1>. QED  BY <1>3, <1>6, <1>7, <1>8 DEF Inv

LEMMA InvStep == Inv /\ [Next]_vars => Inv'
<1> SUFFICES ASSUME Inv, [Next]_vars PROVE Inv'
  OBVIOUS
<1>1. ASSUME NEW t \in Tabs, NEW s \in Sessions, NEW form \in Forms,
             Submit(t, s, form)
      PROVE  Inv'
  BY <1>1, SubmitStep
<1>2. ASSUME NEW t \in Tabs, NEW s \in Sessions, NEW op \in Applies,
             NEW reference \in References, SubmitApply(t, s, op, reference)
      PROVE  Inv'
  BY <1>2, SubmitApplyStep
<1>3. ASSUME NEW t \in Tabs, Step(t) PROVE Inv'
  <2>1. CASE Fail(t) \/ RejectDraft(t) \/ Lose(t) \/ Refetch(t)
    BY <2>1, ReturnStep
  <2>2. CASE DraftKey(t) \/ StoreDraft(t) \/ LoadDraft(t)
    BY <2>2, DraftKeyStep, StoreDraftStep, LoadDraftStep
  <2>3. CASE DropPlan(t) \/ DropPlanKey(t) \/ ClearDraft(t)
    BY <2>3, DropPlanStep, DropPlanKeyStep, ClearDraftStep
  <2>4. CASE FindEntity(t) \/ Call(t) \/ Perform(t) \/ Receive(t) \/ Abandon(t)
    BY <2>4, FindEntityStep, CallStep, PerformStep, ReceiveStep, AbandonStep
  <2>. QED  BY <1>3, <2>1, <2>2, <2>3, <2>4 DEF Step
<1>4. ASSUME NEW s \in Sessions, Teardown(s) PROVE Inv'
  BY <1>4, TeardownStep
<1>5. ASSUME UNCHANGED vars PROVE Inv'
  BY <1>5 DEF vars, session, provider, Inv, Shaped
<1>. QED  BY <1>1, <1>2, <1>3, <1>4, <1>5 DEF Next

-----------------------------------------------------------------------------
(* Studio as a client of the provider *)

(* What a step of a handler, a call or a teardown is for the provider.     *)
LEMMA ProviderStep ==
  Inv /\ [Next]_vars => [Provider!Next]_<<data, exchange, heard>>
<1> SUFFICES ASSUME Inv, [Next]_vars
             PROVE  [Provider!Next]_<<data, exchange, heard>>
  OBVIOUS
<1>1. ASSUME NEW t \in Tabs, Call(t) PROVE Provider!Next
  <2> DEFINE p == tab[t]
             r == RequestFor(p)
             draw == [session |-> p.session, scope |-> ScopeOf(p), key |-> p.key]
  <2>1. p \in Tab /\ Owns(p, plan) /\ p.label = "call" /\ draw \in Draw
    BY <1>1, InvTypes DEF Call, Handled, Holds, At, Inv, Books
  <2>2. p.key \in Keys
    <3>1. draw.key = p.key
      OBVIOUS
    <3> HIDE DEF draw
    <3>. QED  BY <2>1, <3>1 DEF Draw
  <2>3. r \in Request /\ WellFormed(r)
    BY <2>1, <2>2, RequestTypesOf
  <2>4. Provider!Ask(t, r)
    BY <1>1 DEF Call
  <2>. QED  BY <2>3, <2>4 DEF Provider!Next
<1>2. ASSUME NEW t \in Tabs, Perform(t) PROVE Provider!Next
  BY <1>2 DEF Perform, Provider!Next
<1>3. ASSUME NEW t \in Tabs, Receive(t) PROVE Provider!Next
  BY <1>3 DEF Receive, Provider!Next
<1>4. ASSUME NEW t \in Tabs, Abandon(t) PROVE Provider!Next
  <2>1. {t} \in SUBSET Tabs /\ Provider!GiveUp({t})
    BY <1>4 DEF Abandon
  <2>. QED  BY <2>1 DEF Provider!Next
<1>5. ASSUME NEW t \in Tabs,
             \/ Fail(t) \/ DraftKey(t) \/ StoreDraft(t) \/ LoadDraft(t)
             \/ RejectDraft(t) \/ DropPlan(t) \/ DropPlanKey(t) \/ ClearDraft(t)
             \/ FindEntity(t) \/ Lose(t) \/ Refetch(t)
      PROVE  UNCHANGED provider
  BY <1>5 DEF Fail, DraftKey, StoreDraft, LoadDraft, RejectDraft, DropPlan,
              DropPlanKey, ClearDraft, FindEntity, Lose, Refetch
<1>6. ASSUME NEW t \in Tabs, NEW s \in Sessions,
             \/ \E form \in Forms : Submit(t, s, form)
             \/ \E op \in Applies, reference \in References :
                  SubmitApply(t, s, op, reference)
      PROVE  UNCHANGED provider
  BY <1>6 DEF Submit, SubmitApply
<1>7. ASSUME NEW s \in Sessions, Teardown(s) PROVE UNCHANGED provider
  BY <1>7 DEF Teardown
<1>8. CASE UNCHANGED vars
  BY <1>8 DEF vars, provider
<1>9. UNCHANGED provider => UNCHANGED <<data, exchange, heard>>
  BY DEF provider
<1>. QED  BY <1>1, <1>2, <1>3, <1>4, <1>5, <1>6, <1>7, <1>8, <1>9 DEF Next, Step

-----------------------------------------------------------------------------
(* Theorems *)

(* The inductive invariant: what a handler asks the provider for follows   *)
(* from a key that was drawn for a submitted form or for a plan of the     *)
(* same session, and the trail and the kept results follow from what was   *)
(* asked for.                                                              *)
THEOREM AlwaysInv == Spec => []Inv
BY InvInit, InvStep, PTL DEF Spec

(* Every reachable state is well typed, and no session has more drafts,    *)
(* keys and plans together, than maxSessionDrafts.                         *)
THEOREM AlwaysTypeOK == Spec => []TypeOK
<1>1. Inv => TypeOK
  <2> SUFFICES ASSUME Inv PROVE TypeOK
    OBVIOUS
  <2>1. \A s \in Sessions : Drafts(s) <= MaxDrafts
    BY DEF Inv, Kept, Drafts
  <2>. QED  BY <2>1 DEF Inv, Shaped, Books, Draw, TypeOK
<1>. QED  BY <1>1, AlwaysInv, PTL

(* Whatever interleaves, is lost or arrives late, an entity only ever      *)
(* changes on the version that a form of the operator or the plan reviewed *)
(* by the same session was based on.                                       *)
THEOREM AlwaysChangesFollowReview == Spec => []ChangesFollowReview
<1>1. Inv => ChangesFollowReview
  <2> SUFFICES ASSUME Inv, NEW i \in DOMAIN data.audits
               PROVE  LET record == data.audits[i] IN
                      /\ record.action = "put" =>
                           \E draw \in issued :
                             /\ draw.key = record.key
                             /\ draw.scope.op \in Saves
                             /\ draw.scope.target = record.target
                             /\ draw.scope.version = record.version - 1
                      /\ record.action = "delete" =>
                           \E draw \in issued :
                             /\ draw.key = record.key
                             /\ draw.scope.op = "delete"
                             /\ plan[draw.scope.reference] =
                                  [session |-> draw.session, op |-> "plan-delete",
                                   target |-> record.target,
                                   version |-> record.version]
    BY DEF ChangesFollowReview
  <2> DEFINE record == data.audits[i]
             version == IF record.action = "put" THEN record.version - 1
                        ELSE record.version
  <2>1. record.action \in {"put", "delete"} =>
          Backed(record.key, record.action, record.target, version, issued, plan)
    BY DEF Inv, Books, TrailBacked
  <2>2. record.action = "put" => version = record.version - 1
    OBVIOUS
  <2>3. record.action = "delete" => version = record.version
    OBVIOUS
  <2> HIDE DEF record, version
  <2>. QED  BY <2>1, <2>2, <2>3 DEF Backed, Backs, Review, record
<1>. QED  BY <1>1, AlwaysInv, PTL

(* A page that reports an entity as saved or deleted is about a change     *)
(* that the provider recorded under the key of this very request.          *)
THEOREM AlwaysPagesTellTruth == Spec => []PagesTellTruth
<1>1. Inv => PagesTellTruth
  BY DEF Inv, Handled, Shows, Audited, PagesTellTruth
<1>. QED  BY <1>1, AlwaysInv, PTL

(* The handlers meet the provider only through the exchanges that          *)
(* AtomicProvider describes, and ask it only for well-formed requests, the *)
(* ones that the local provider is proved to serve atomically.             *)
THEOREM UsesProvider == Spec => Provider!Spec
<1>1. Init => Provider!Init
  BY DEF Init
<1>. QED  BY <1>1, ProviderStep, AlwaysInv, PTL DEF Spec, Provider!Spec

=============================================================================
