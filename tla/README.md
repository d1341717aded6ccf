# Jimu Studio in TLA+

Jimu Studio is a server-rendered back end for browsers (`cmd/studio`): it signs
operators in with OIDC, keeps their sessions in memory, and lets them change the
metadata, identities, workflow runs and quota plans of a *provider* over HTTP. The
repository has a PostgreSQL-backed reference provider (`cmd/local-provider`). This
directory holds TLA+ models of both, the TLC runs that check them on small
instances, and proofs checked by TLAPS for every value of the constants.

## Inventory

Paths are relative to `src/internal`.

| Part | State | Operations | What is hard about it |
| --- | --- | --- | --- |
| Authentication broker (`auth/broker.go`, `session.go`, `operations.go`, `draft.go`, `types.go`) | pending authorizations, sessions with tokens, provider client, drafts; `broker.mu`, one `mu` per session | Begin, Complete, Session (with refresh), WithClient, Switch, Logout, DraftKey, StoreDraft, LoadDraft, DeleteDraft, ClearDraft | decisions under one mutex are carried out under another; network calls between or inside critical sections; bounded maps; lazy expiry |
| OIDC adapter (`auth/oidc.go`) | none | Exchange, Refresh, AuthorizationURL | outcomes only |
| Browser shell (`server/authenticated.go`, `server.go`) | none of its own; the browser keeps two cookies and pages with CSRF proofs | index, login, callback, switch, logout, routing | tabs share cookies, pages and answers are older than the cookies they meet, sessions end behind the browser's back |
| Metadata workspace (`server/metadata.go`, `metadata_delete.go`, `migration.go`) | drafts in the session: idempotency keys and reviewed plans | save, create, plan and apply a deletion, plan and apply a migration | several critical sections per request, answers lost or late, double submission, conflicts |
| Identity and operations workspaces (`server/identity.go`, `operations.go`) | drafts in the session: one key for each form | create, enable, disable users; create and rename roles; assign, revoke; cancel a run, retry a task; publish a plan; audit page | as above, and every error of the provider is shown alike, in lists that are read again; a retry that changes two resources |
| Provider client (`provider/*.go`) | an open or closed context | one call per contract operation, validation of answers | closed under work in flight; strict decoding |
| Local provider (`localprovider/server.go`, `operations.go`) | one PostgreSQL row with resources, idempotent results, audit trail; `requestMu`; memory | one transaction per request | two locks, several processes, crash, rollback, ambiguous commit, lost answer |
| Contract manifest, release gate, scorecard (`contract`, `release`, `scorecard`) | files of the repository that name each other's digests, gates and operations | Verify, three times | each compares only some of the files; completeness is counted |
| Configuration, commands (`config`, `cmd`) | none after start | Load, Validate, Build, start and shutdown | sequential |

How they interact: a browser request reaches the shell, which resolves the session
with the broker; a workspace handler draws or loads drafts from the broker, and
calls the provider through the session's client inside `WithClient`; the broker
closes that client on logout, switch, refresh, expiry and eviction, which cancels
the call. The provider knows keys, versions and confirmations, but no sessions.

What makes each part correct:

* broker: every live session owns exactly one open client and nothing else is
  open; an authorization is used once; the maps stay bounded; a withdrawn session is
  always torn down and never comes back; one refresh of a session at a time; every
  request is answered;
* provider: each key takes effect once, an answer that was heard is durable, no
  update is lost, the audit trail accounts for what happened, every request ends,
  and all of it together looks atomic;
* metadata workspace: only what was reviewed is changed, on the version that was
  reviewed, and a page that reports success is right;
* identity and operations workspaces: a page that reports success is right, a version
  conflict is right and stays right and shows something to reconcile with, an error
  keeps the key for the next try, and a form takes effect once however often it is
  submitted;
* browser shell: a form acts only where its page was shown, a sign-in ends in the
  tenant that was chosen for it, and nobody is locked out by a dead cookie;
* release gate: what the validators let through is complete, each alone and together.

## Modules

| Module | What it is |
| --- | --- |
| `SessionLifecycle` | abstract: what the broker promises about a session (unborn, listed, condemned, dead) |
| `SessionBroker` | `internal/auth`, step by critical section and network call; the refinement mapping `Lifecycle` |
| `SessionBrokerProofs` | theorems about `SessionBroker` |
| `ProviderStore` | pure: the state of the reference provider and `Serve`, the outcome of one request on it |
| `AtomicProvider` | abstract: what a caller of a provider may rely on |
| `LocalProvider` | the locks, transaction, crashes and lost answers around `Serve`; the refinement mapping `Atomic` |
| `ProviderStoreProofs`, `LocalProviderProofs` | theorems about them; the workspaces' proofs use the former too |
| `MetadataWorkspace` | Studio's metadata handlers over a session's drafts, composed with `AtomicProvider` |
| `OperationsWorkspace` | Studio's identity, workflow and quota handlers over a session's drafts, composed with `AtomicProvider` |
| `MetadataWorkspaceProofs`, `OperationsWorkspaceProofs` | theorems about them |
| `BrowserShell` | Studio's shell, a browser with several tabs and its cookie jar, composed with `SessionLifecycle` |
| `BrowserShellProofs` | theorems about `BrowserShell` |
| `ReleaseGate` | the three validators as predicates on a repository that is edited file by file |
| `ReleaseGateProofs` | theorems about `ReleaseGate` |
| `MCSessionBroker`, `MCLocalProvider`, `MCMetadataWorkspace`, `MCOperationsWorkspace`, `MCReleaseGate` | instances for TLC: requests, forms and contract versions, symmetry, views |

What composes with what: `SessionBroker` implements `SessionLifecycle`, and
`BrowserShell` is built on the latter; `LocalProvider` implements `AtomicProvider`, and
both workspaces are built on the latter, with `ProviderStore` as its data. A detail of a
broker or a provider is thus checked once and used as a promise everywhere else. The
joint between the workspaces and the local provider is proved from both sides:
`ProviderIsAtomic` says that the local provider is an `AtomicProvider` for callers that
make well-formed requests, and `UsesProvider`, once for each workspace, that Studio's
handlers are such callers and do nothing to a provider but what `AtomicProvider` allows.

A definition whose comment begins with "Mutant" is not part of a model: it is a
plausible bug of the definition that follows it, kept to show that the property
listed for it in `PROJECT.json` notices.

### SessionBroker

A thread is a goroutine that serves a browser request. Its record has the label at
which it can be interrupted and the locals that survive an interruption: the `now`
it read, the session it looked up, the sessions it took out of the registry, the
client it captured. `broker.mu` is never held across a call, so one of its critical
sections is one action; a session's `mu` is held across the refresh and is the
field `holder`. `created`, `issued`, `opened` and the session records that stay
behind are history: Go's heap and its random generator never hand out the same
object or identifier twice in one run (`BeginCollides` is the drawn identifier
that is taken). `Begin`, `Complete`, `Session`, `WithClient`, `Switch`, `Logout`,
`DraftKey`, `StoreDraft`, `ClearDraft` and `DeleteDraft` are the actions that carry
their lines in the map; `LoadDraft` and `ValidateCSRF` change nothing. The requests
of the shell's routes are the alternatives of `Arrive`.

Not in this model: the contents of tokens, roles and drafts (`origin` stands for
everything a session takes from its authorization), and cookies (`BrowserShell`).

### ProviderStore and LocalProvider

`ProviderStore` translates one handler to one operator, with the code's names. A
resource that does not exist has version 0, so that the code's `(exists && version
differs) || (!exists && expected != 0)` is one comparison. Names, fields and limits
are one `detail`. `key` in an audit record is history: the code's record does not
have it. What the routes and body decoders let through is `WellFormed`; requests they
refuse change nothing, except a missing confirmation, which is kept because it is
read before the table of results.

`LocalProvider` is `servePersisted`: Acquire (`requestMu`), Load (`SELECT ... FOR
UPDATE` and the handler), Commit, Reply, with `BeginFails`, `SaveFails` and
`ReplyLost` for the error paths. The handler and the load are one step since
`requestMu` and the row lock keep everybody else away from both the memory and the
row; that a transaction which failed leaves changed memory behind is visible in
`memory`. `Start` runs the migration of `NewHandler`, `Crash` ends a process, its
requests and, through PostgreSQL, its transactions.

### MetadataWorkspace

A tab is a request being served. Each draft operation is one action, as the
handlers enter the session's mutex anew for each; a call is `Call`, the provider's
`Perform`, and `Receive` or `Lose`. After `Lose` the handler is gone, and the call
may still take effect, until `Abandon` ends it; the operator may have submitted the
form again by then. `FindEntity` and `Refetch` are read-only calls and one action
each. `Teardown` is all the broker does to a session here; `SessionBroker` says
when it happens. Checks before the first step (same site, role, CSRF, form) change
nothing and are left out, and so is the role that separates save from apply. A
confirmation that is not typed exactly is the same refusal as an unknown plan.

A migration's answer comes from the reference provider, which returns one fixed
plan and keeps no result for it. `blocked` deletion plans come from other providers
(`plan.Deletable`), hence the second alternative of `AfterPlan`.

### OperationsWorkspace

The handlers `identityMutate`, `workflowMutate` and `quotaPublish` have one shape, and
so a form is a request of `ProviderStore` without its key and the model has one action
for each step of that shape: `FindRole` (renaming a role only), `DraftKey`, `Call`, the
provider's `Perform`, an outcome of the call, `Reload` after an error, `ClearDraft` after
a success. The key belongs to the whole form (`Kept`; the code hashes all its fields but
the CSRF proof). `shown` is the version that the list read again by `Reload` displays,
and `issued` remembers which form a key was drawn for; it is history.

The outcomes of a call follow `identity.go:174-182` and `operations.go:308-319`: whatever
the provider answers with a status is an `APIError` and is shown with the list, and what
has no status is a page that says nothing.

| Action | What happened | Page |
| --- | --- | --- |
| `Receive` | the answer of the handler of the reference provider | `done`; `conflict` for its 409; `rejected` for its 400 and 404 |
| `Reject`, `RefuseSystemRole` | another provider refuses by policy or permission (401, 403, the 409 `last_admin` of `identity_test.go:94`), or Studio itself does for a system role; no effect, and the key may be accepted later | `rejected` |
| `Fault` | 500 or 503; the call took effect if only the commit's outcome was lost (`localprovider/server.go:267-269`), or still may | `failed` |
| `Lose` | no answer, or none that can be read | `none` |

An operator cannot tell `conflict`, `rejected` and `failed` apart but by the message; the
properties do, since only a version conflict promises anything about the future.

A form may carry anything (`Submit` has no guard but a live session). `seen` is auxiliary:
it says whether the form rested on what lists displayed when it was submitted
(`Displayed`: resources that exist, at a version that is not ahead of the current one). A quota
plan's version is typed (`quota.html:9`), and one typed ahead is refused now and accepted
under the same key once the plan has arrived there; hence `RefusedMeansUntouched` and
`ConflictShowsCurrent` speak of displayed forms only.

A page that is not about the outcome (a text, an error page) and an idle tab are the
same here. Checks that change nothing and come before `FindRole` are left out. A
request whose session is torn down during the call still gets its answer, and its
`ClearDraft` finds no drafts.

### BrowserShell

A tab has a page and at most one request. `Send` takes the cookies of that moment and
the CSRF proof in the page's form; a handler of `Serve` answers from what the request
carries; `Deliver` sets the answer's cookies when it arrives, and `Drop` is an answer
that does not, although its handler ran (or a request that never arrived). The CSRF
proof of a session and its identifier are both drawn for it alone, so a page's proof is
named by its session. The callback is a request of the page that led to the identity
provider, with the state of that authorization and the pending cookie of the jar, which
another tab may have overwritten. The session cookie is `SameSite=Strict`: on the
redirect that ends a callback a browser may leave it out, hence the choice in
`Deliver`. `View` and `Mutate` stand for all pages and all forms of the workspaces, with their
errors (a missing role, a refused query or form, a provider that does not answer),
`Expire` for every end of a session that this browser did not ask for. `Restart` forgets
all sessions and authorizations while the cookies stay.

Cookies end after ten minutes and eight hours in the code; here they do not, which is
harder on `DeadCookiesHeal` and the same for the others. Requests from other sites are
refused before anything changes.

### ReleaseGate

`ContractVerified`, `ReleaseVerified` and `ScorecardVerified` are the three `Verify`
functions. A digest stands for the contents it was taken of. The loops with a `seen` map
are "none before it has the same name". Comparisons with literals (versions, tags, the
supported matrix, nine known limitations, the rollback) are left out. The actions are what
maintainers and the provider's tool do to the files; they are not code of the
repository and are mapped as external. A behaviour starts with records that agree and is
followed for `MaxEdits` edits.

## Runs

Deadlock is checked in the runs of the broker, the provider and the shell. The workspace
runs say `CHECK_DEADLOCK FALSE`: when every session of the instance was torn down
and no call is left, nothing happens until somebody logs in, which is the broker's
business; and the release run ends after its edits.

| Run | Question | Bounds |
| --- | --- | --- |
| `broker_requests` | every kind of request against full maps: `TypeOK`, `NobodyForgotten`, `SingleUseState`, `WithinBounds`, `SwitchLeavesFirst`, `ClientOwnership`, `SingleFlightRefresh`, `WorkOnOwnClient`, `TeardownIsFinal` | 2 goroutines, 2 authorizations, 2 sessions, 3 clients, all capacities 1, 2 ticks |
| `broker_eviction` | whom does a login evict: `EvictionSparesLive` | 3 authorizations and sessions, registry of 2, 3 ticks |
| `broker_liveness` | `RequestsFinish`, `ImplementsLifecycle` | 2 goroutines, 2 sessions |
| `broker_expiry` (violation) | `ExpiryDestroysState`, after DEC-004 | 1 session |
| `provider_requests` | `TypeOK`, `AppliedOnce`, `TruthfulAnswers`, `NoLostUpdate`, `RequestsFinish`, `ImplementsAtomicProvider`, `ResultsAreDurable` | 2 processes with restarts, 2 callers, 3 requests on one entity (two creations, a deletion), any number of repetitions and crashes |
| `provider_audit` (violation) | `PagesBounded`, after DEC-006 | page limit 2 in place of 50 |
| `workspace_metadata` | `TypeOK`, `ChangesFollowReview`, `PagesTellTruth` | 2 tabs, 2 sessions, one entity, 3 keys, 1 plan, 3 drafts in place of 128 |
| `workspace_save` (violation) | `SavedMeansStored`, after the page's text | 2 tabs, 1 session, 2 definitions of one version |
| `workspace_migration` (violation) | `StableApplyKey`, after DEC-004 | 2 tabs, 1 session, 1 plan |
| `operations` | `TypeOK`, `DoneMeansStored`, `RefusedMeansUntouched`, `FormsApplyOnce`, `ConflictShowsCurrent`, `AuditTellsVersions`, `FailuresKeepTheKey` | 2 tabs, 2 sessions, 11 forms on 2 users, 2 roles, run, task and plan, 2 keys, 2 drafts in place of 128 |
| `browser_shell` | `TypeOK`, `FormsActWhereShown`, `SessionFromOwnChoice`, `DeadCookiesHeal` | 2 tabs, 2 sessions, 2 authorizations |
| `release_gate` | `GatesSucceeded`, `ArtifactsPinned`, `OperationsScored` | 2 artifacts, 2 versions of the contract with 2 and 3 operations, 3 gates, 2 dimensions, every 2 edits |

Why the bounds are enough to be interesting. A race in this code needs two
requests that share an object: a login that evicts a session during its refresh, two
tabs on one key. Capacities of 1 make every insertion meet a full map. Two keys and two
versions make a retry, a conflict and a lost update possible; one entity suffices since
handlers never relate two, and the forms of `operations` are on all the resources that
one request can relate (a user and a role, a task and its run). Two tabs and two
sessions are a page of an old session and a cookie of a new one. Two edits are a file and
one record that followed it, with the others left behind; `Regenerate` counts as one.
The clock of the broker is bounded because only differences with the lifetimes of 1 or 2
ticks matter; keys, identifiers and plans are drawn from finite sets and an action that
needs a fresh one is not taken when none is left, which ends a behaviour early but
excludes no prefix. `operations` identifies states that differ only in `heard` or in what a
returned handler's page is about when the page is no promise (`VIEW Read`): no action and
no property reads these. Its forms include one on a version the plan will only have after
the next publication. In `provider_requests` an entity that is deleted and created again
returns to version 1, so that two accepted saves with one version are heard, with the
deletion between them that `NoLostUpdate` asks for. Symmetry is used in runs without liveness,
on sets of model values that no definition tells apart.

## Fairness

* Broker: `WF_vars(Step(t))` for every goroutine. Go's scheduler runs each runnable
  goroutine, and the steps that are network calls end within the 15 seconds of their
  context. Arrivals and the clock are not fair. `Step` is enabled for a goroutine
  that waits for a session's `mu` only when it is free; weak fairness suffices
  because a session is refreshed at most while one request holds it and the runs are
  finite in sessions and time.
* Provider: weak fairness for every exchange, and strong fairness of `Acquire` and
  of `Load \/ BeginFails`. `sync.Mutex` hands over to the longest waiter after one
  millisecond (starvation mode), PostgreSQL queues the waiters of a row lock, and a
  caller's deadline makes the wait end as `BeginFails`. Starting, crashing and
  sending are not fair.
* Shell: weak fairness of "some request is served, delivered or given up": a server and
  a network at work. Strong fairness of asking for `/`, of its handler and of the
  delivery of its answer, in some tab: the operator keeps coming back, and not every
  such request is lost. Without it a dead cookie stays, since only an answer clears it.
* The workspaces and the release gate have safety properties only.

## Findings

1. `broker_expiry`: DEC-004 says expiry destroys a session's state. It does so only
   when the session's browser returns or another login completes; there is no timer.
2. `provider_audit`: DEC-006 says every list is capped at 50 items. The reference
   provider returns its whole audit trail, and Studio refuses such a page.
3. `workspace_save`: after a lost answer the key of a save is used again for other
   content on the same version. The provider repeats the old result and Studio
   reports the new definition as updated.
4. `workspace_migration`: a second apply that falls between the critical sections of
   the first one sends the same plan under another key. Deletions have the same
   window; for them the provider's version check refuses the second one, unless the
   entity was created again with the reviewed version meanwhile.

## What is proved

Every safety property that a passing run checks is a theorem, for every value of the
constants: any number of goroutines, tabs, sessions, keys, entities, gates, any
capacities and any length of a behaviour. The theorems rest on the assumptions named in
the modules and on nothing else:

* `CapacityAssumption`, `TimeAssumption`, `NameAssumption`, `ShellNames`, `ProviderNames`,
  `WorkspaceNames`, `AbsentAssumption`: numbers are numbers, and `None` is not one of the
  values it is used beside (in `WorkspaceNames`, neither a plan nor a form).
* `SeedAssumption`, `FiniteAssumption`: the seeded resources exist; codes, identifiers and
  keys are strings of bounded length, so that there are finitely many.
* `RequestAssumption`: callers of the local provider make well-formed requests. For Studio
  this is itself proved (`UsesProvider`).
* `FormAssumption` (twice): a browser submits what the form's inputs and the handler's
  parser allow.
* `GateNames`, `ContractAssumption`: the lists of artifacts, gates and dimensions are finite
  and not empty, and OpenAPI demands unique operation identifiers.

Each of these modules is extended by that of a run, so TLC evaluates its assumptions.

### SessionBrokerProofs

* `TypeCorrect`: `TypeOK`. By itself it is not inductive, since a step reads the
  record of the session its goroutine looked up: `Typed` adds that a goroutine at such
  a label has one.
* `ClientsOwned`, `NoSessionForgotten`, `WorkIsOwned`, `RefreshIsExclusive`:
  `ClientOwnership`, `NobodyForgotten`, `WorkOnOwnClient`, `SingleFlightRefresh`. None
  of them survives a step without the others and four more facts, conjoined in
  `Owned`: a goroutine works on an allocated session (`SubjectsAllocated`), a refresh
  holds its session's mutex (`RefreshLocks`), a session waiting to be deactivated is not
  listed (`DoomedUnlisted`), and a captured client was opened, so that no later session
  is given it (`ClientsOpened`).
* `StatesAreSingleUse`, `BoundsHold`, `SwitchesLeaveFirst`: `SingleUseState`,
  `WithinBounds`, `SwitchLeavesFirst`, from `Steady`, which is inductive given `Owned`: an
  authorization is in one place, pending, in one callback's hands, or the origin of one
  session (`OnePlace`); what a goroutine has on its list follows from the request it serves
  (`Errands`); a session's drafts go with it (`DraftsDie`); and the maps are finite and
  bounded (`Bounded`).
* `TeardownsAreFinal`, `EvictionsSpareLive`: the action properties `TeardownIsFinal` and
  `EvictionSparesLive`, from both invariants. The second needs `now <= clock` of `Errands`: a
  login compares with a time it read before the code exchange.
* `ImplementsLifecycleSteps`: the initial states of `SessionBroker` are initial for
  `SessionLifecycle` under the mapping `Lifecycle`, and every step is one of its steps or
  a stutter. The fairness half of `ImplementsLifecycle` stays with TLC.

### ProviderStoreProofs

* `ServeOutcome`: an outcome of `Serve` is well typed and either changes nothing or
  adds one result under the unused key of the request and at most one audit record
  with that key. Everything about the data rests on this theorem and the next.
* `MutationsExact`: exactly what a mutation does. `Admits` is the specification of the
  version checks of all eleven handlers in one predicate, `Moves` that of their effects
  (the target one version up, a retry's run too, everything else as it was) and `Records`
  that of the audit trail. Under a key with a result, or without its typed confirmation, a
  mutation does nothing.

### LocalProviderProofs

* `ProviderTypeCorrect`: `TypeOK`, within `Disciplined`: an exchange inside
  `servePersisted` belongs to a process that is up and whose `requestMu` it holds
  (`Attended`), a running process has seeded the row (`Migrated`), at most one exchange
  is past its load (`OneInside`), and what it will commit is what `Serve` makes of the row
  as it is (`ServedOnRow`). The last is the point of `FOR UPDATE`: it fails without it.
* `KeysApplyOnce`: `AppliedOnce`, from `Accountable` (the row's audited keys are unique
  and have results).
* `NoSaveIsLost`: `NoLostUpdate`, which is about what callers heard: a lost update takes the
  first save's audit record and result back with it, and the trail alone would not show it.
  What was heard is known to the row (`Honest`), a kept result of a save has its audit
  record (`Recorded`), and two recorded saves of one version have a deletion between them
  (`Ledger`, inductive with the addition that no recorded save is newer than its entity unless
  a deletion followed).
* `AnswersAreTruthful`: `TruthfulAnswers`, from `Honest` (an answer that is committed but
  not heard yet is known to the row too).
* `ResultsStayDurable`: `ResultsAreDurable`, as an action property of each step.
* `ProviderIsAtomic`: `ImplementsAtomicProvider`. The mapping shows an exchange as asked
  until its commit and as performed after it; Commit maps to Perform, Reply to Tell, the
  failures and Crash to GiveUp, locks and loads to stuttering.

### MetadataWorkspaceProofs

`AlwaysTypeOK`, `AlwaysChangesFollowReview` and `AlwaysPagesTellTruth`, from one invariant
(`AlwaysInv`) with four parts, of which none survives a step alone:

* `Handled`, for each handler: it is about a form or a plan of its own session (`Owns`);
  from the call on, the key that was drawn for its scope is in its hands (`Holds`); the
  request under way is its own (`Awaits`) and is backed by a draw, and an ok answer to a
  change by an audit record (`About`); what its page reports is on record (`Shows`).
* `Books`, for everything that outlives a handler: a key is drawn for one scope of one
  session (`KeysOnce`), a deletion only for a plan (`PlansFirst`), a kept result was recorded
  when it was made (`ResultsTold`), and every record is backed by a draw (`TrailBacked`).
* `Kept`: the drafts in a session were drawn or reviewed by it, and are within the limit.
* `Shaped`: types.

A call that nobody waits for any more is not lost sight of, because `About` speaks of the
exchange and not of the handler; and the plan of a torn-down session stays in `plan`, which is
why a deletion that arrives after the logout is still accounted for. `Grown` says how one
handler's step looks to the others (more keys, plans and records, never fewer), and
`HandledStays` that nothing they rely on is disturbed.

### OperationsWorkspaceProofs

`AlwaysDoneMeansStored`, `AlwaysRefusedMeansUntouched`, `AlwaysFormsApplyOnce`,
`AlwaysConflictShowsCurrent`, `AlwaysAuditTellsVersions`, `AlwaysFailuresKeepTheKey` and
`AlwaysTypeOK`. The argument turns on versions, which never go back: a displayed form is at most
as new as what it is about; if such a form meets a version conflict its version has passed
(`Overtaken`), and it can never take effect under a key without a result (`Barred`), which is
why the conflict stays true whatever call is still on its way. Nothing of the kind is claimed
of the other errors (`Outdated` is the conflict on a displayed form). A key leaves the drafts
only in `ClearDraft`, whose handler has an ok answer, which is on record (`Knows`, `Books`);
hence `AlwaysFailuresKeepTheKey`. Every record is about a form whose version has passed (`TrailPassed`), so no form is
recorded twice (`TrailOnce`), under whatever keys. `TrailTells` counts the trail: each
version is the seed's plus the cardinality of its records.

### BrowserShellProofs

`AlwaysFormsActWhereShown`, `AlwaysSessionFromOwnChoice` and `AlwaysTypeOK`, from an invariant about cookies in flight: an answer sets each cookie to
something of its kind (`Fits`), the answer of a sign-in names a session that was granted to
the tab's own authorization (`OwnSession`), a handler acted only for what its page was about
(`Sound`), and an authorization that made a session is never open again (`UsedUp`).

### ReleaseGateProofs

* `AlwaysGatesSucceeded`: a list as long as the set of gates, without repetitions and within
  it, has every gate: the pigeonhole principle, for any number of gates.
* `AlwaysArtifactsPinned`: two comparisons that look in one direction only (`EqualMap`), with
  their sizes, chain to equality of three maps if no digest is empty.
* `AlwaysOperationsScored`: the gate adds up points; that no dimension lacks more than a tenth
  follows because all others are at most full (`Shortfall`).

The sum is a fold over a finite set and the induction over it is done without a theorem that takes
an operator: `BySubsets` takes the set of the subsets for which the claim holds, and
`PartialAdds` states one unfolding of the fold.

## What is only model-checked

* Liveness: `RequestsFinish` of the broker and of the provider, `DeadCookiesHeal`, and the
  liveness of `ImplementsLifecycle`. TLAPS 1.4.5 does not reason about fairness and ENABLED.
* The four disagreements under *Findings*: a counterexample is the whole of it.

## What is not modelled

* `auth/oidc.go`: stateless; the broker takes every outcome of it.
* Configuration: a file is read and validated once; there is no state and no order to
  explore. `docs/configuration.md:23` says that development mode permits HTTP only for
  loopback endpoints; `Validate` accepts HTTP for any host, and the function that would
  confine it (`validEndpointScheme`) has no caller.
* The commands: they start a server. Studio's process ends without waiting for its
  shutdown, which is `Restart` and lost answers in the models.
* The bounds that the provider client puts on single fields of requests and answers: an
  answer that is refused for them is an unknown outcome (`Lose`).
* Templates, paging and search, the static page of `server.go`.

PostgreSQL, HTTP and Go's runtime are assumed to do what their documentation says.
Sequence numbers and versions are unbounded here; `int64` does not overflow in practice.

Hazards without a property, each listed in `PROJECT.json` with its line: an entity that
is deleted and created again is at version 1 again (a version check cannot tell the two
apart); abandoned keys and plans fill a session's 128 drafts; a late answer that clears
a cookie can hit a newer session's, and a lost callback answer leaves a session that
nobody can reach, until it expires; requests under way are cut when Studio stops;
`equalMap` takes an empty digest under any name for the digest of an artifact that the
record does not have (`ArtifactsPinned` excepts such records).

## Plan

What is left:

1. the leads-to properties, as lemmas about single steps that a liveness argument would use:
   what disables a step of a handler, and that a dead cookie stays dead until an answer
   clears it;
2. the two findings about drafts, `SavedMeansStored` and `StableApplyKey`: the weaker
   statements that do hold (the definition stored for a key is one that was submitted
   under it; two applies of a plan whose sections do not interleave share a key), as invariants with
   proofs.
