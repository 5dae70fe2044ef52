# Karajan in TLA+

Karajan (`src/backend/karajan`) is a personal platform that lets several agents
work on one project under recorded authority. A *project* owns *workflows*,
compiled and frozen as *deployments*; a *Run* of a deployment is driven by roles
that hold *grants*, publish *task graphs* by *decisions*, and hand the tasks to
*execution consumers* by *claims*. Everything durable is in SQLite, and every
public operation of a store is one `BEGIN IMMEDIATE` transaction unless stated
otherwise below.

This directory holds the specification of its control plane: TLA+ modules, TLC
configurations, and TLAPS proofs. `PROJECT.json` maps every definition to the
source lines it models.

## 1. Inventory

| Component | State | Operations | What is hard |
|---|---|---|---|
| `scheduling` grants and credentials (`grants.py`, `credentials.py`, `store.py`) | `scheduler_grants`, `scheduling_credentials` | issue, delegate, revoke with cascade, issue a credential, expiry | authority over a chain decided from the parent alone; revocation against delegation; clocks |
| `scheduling` task graph (`graph.py`, `store.py`) | `scheduling_tasks`, `task_expansions`, `scheduling_task_versions`, `task_graph_current` | create an expansion set; a decision of expand, supersede, bind, depend, prioritise, dispatch, seal | batches that edit what they seal; replacement of running tasks; which version a seal names |
| `scheduling` claims (`store.py`, `values.py`) | `budget_consumption`, `task_claims`, policies, observations | claim, observe, reconcile, admit against a pool | an execution outlives its graph node; untrusted and late reports; shared ceilings |
| `scheduling` receipts (`store.py`) | `scheduling_decisions`, `scheduling_decision_rejections` | submit a decision, replay it, record its refusal | two transactions per refusal; concurrent and retried submissions; losses in between |
| `scheduling` run creation | `workflow_runs`, `workflow_run_keys` | `create_run` | key check and deployment acceptance outside the inserting transaction |
| `resources/broker.py` | budgets, attempts, calls, receipts, usage | reserve, submit, settle, recover, finish, revoke | a crash between reservation, send intent, answer and settlement; late and corrected usage |
| `execution/host.py`, `_supervisor.py` | executions, controls, results, cancellations | prepare, start, cancel, receive_result, usage | crash around a process spawn; fencing; cancel against late results |
| `delivery/coordinator.py`, `git.py` | deliveries, run controls, run PRs | plan, advance, reconcile, set_control | remote steps with unknown outcome; snapshots used after the transaction that read them |
| `capacity/store.py`, `facts.py` | pools, policies, reservations, usage, failures | observe, admit, activate, guard, reconcile, cancel | one pool shared by attempts; facts that age between admission and activation |
| `workflows/compiler.py`, `registry.py` | none | `compile_workflow` | a document valid in every part and not runnable as a whole |
| `workflows/store.py` | bundles, revisions and their directories, commands | create, revise, edit, author | files before rows; edits of a head read earlier |
| `workflows/deployments.py`, `loader.py` | intents, packages, deployments, slots | deploy, roll back, resume, accept | overlapping executions of one command |
| `projects/registry.py`, `publication.py` | project, previews, catalog, versions, policies | update, preview, apply, publish, register | three transactions between reading and publishing |
| `projects/qualification.py`, `credential_sources.py`, the suites | credentials, starts, records | register, revoke, four kinds of qualification, facts | minutes of probing between two transactions |
| `runs/planning.py`, `validation.py` | Run, intents, plans, approvals, hand-overs | create, submit, approve, hand over | impact computed at submission and used at approval |
| `orchestration/planning_execution.py`, `planning_admission.py` | executions, admissions, budget | begin, advance, recover, reconcile, submit, cancel | three stores without a common transaction; lost answers |
| `adapters/opencode/go_relay.py`, `go_journal.py` | grant, calls, handlers | handle, revoke, close | threads between guard, journal and provider |
| `candidates/store.py`, `_review_binding.py` | append-only candidates, checks, reviews | freeze, rebind, record, gate | evidence about what is no longer current |
| `orchestration/serial.py`, `binding.py` | one worker, its reviewer, their attempts | enqueue, advance, retry, control | other stores commit inside its transaction |
| `routing/*`, `orchestration/routing.py`, `projects/demand.py` | rulebook, assessments, estimates | compile, select, assess, reserve, cross a boundary | a route used long after its facts were read |
| `orchestration/admission.py`, `go_execution_intent.py`, `go_task_execution.py`, `execution_budget.py`, `workspace.py`, `go_task_collector.py` | operations with their executions, claims | enqueue, advance, activate, cancel, launch, claim, collect | lost answers of Capacity and of the host; a child that acts after its guards |
| `orchestration/reviewer_execution_intent.py` | reviews | prepare, freeze_launch, claim, cancel | the work reviewed may be cancelled or moved |
| `orchestration/candidate_checks.py`, `candidate_subjects.py`, `reviewer_binding.py`, `isolation/check_runner.py` | subject, rows of checks, transition, result directories | advance, consume, observe, submit, rebind, clean up | a change of subject while a check is on its way |
| `conversations.py`, `conversation_projection.py` | conversations, drafts, messages, events | create, settings, message, draft, bind, migrate, snapshot, follow | snapshot and cursor of different moments |
| `gateway`, other `adapters`, `isolation`, `contracts`, `web` | little or none | provider I/O, sandboxes, schemas, routes | I/O; `web` runs handlers on a thread pool, which is where submissions race |

How they interact: `web` resolves a credential to a principal and calls a store.
`scheduling` reads the frozen deployment of `workflows` at run creation and its
own tables afterwards; a decision's grant chain is re-read inside its
transaction. A Run of the orchestration freezes the project's configuration; its
commander's planning execution is admitted by Capacity, sends through the relay
and submits a plan to the Run store; an approved task is routed, admitted,
executed by a child of the runner host, captured as a candidate, checked,
reviewed and delivered. Every arrow of that chain is a call from one store into
another without a common transaction: an intent is committed, the call made, its
receipt recorded, and a lost answer looked up by the intent's key. Guards that
must hold *during* a call keep the write locks of the stores they read.

What makes each part correct: authority never widens and dies with its ancestors;
no decision is lost or applied twice and each command has one answer; a running
execution keeps its directory and its slot until the owner settles it; a sealed
set names readable versions for ever and a join runs on exactly those; money,
quota and remote effects are never spent twice nor forgotten; nothing new is done
for what was cancelled, replaced or not approved.

## 2. Modules

`SchedulingGrants` - the authority chain. State: `grants`, `creds`, `now`.
Actions: `IssueGrant`, `DelegateGrant` (with `RequireSubset` and
`RequireDelegationDepth` called exactly as the code calls them: without root and
without ancestors), `RevokeGrant` (cascade over `Affected`, credentials of the
named grant only), `IssueCredential`, `Tick`. The set-valued dimensions of a
grant (inputs, outcomes, tools, roles, scopes...) are all compared by the same
containment and stand as one set `acts`. `chain` records the ancestors the code
finds by walking `parent_grant_id`, which never changes.

`TaskGraph` - decisions. State: `head`, `tasks`, `sets`, `archive`, `draft`,
`dead`. A decision is compiled on copies inside one transaction: `BeginDecision`
takes the copy, each action of the batch is one step on `draft`, and
`CommitDecision` or `RefuseDecision` ends it; no other operation is enabled while
`draft` exists, as under the write lock. The digest of a task document is the
counter `ver`, raised by every `Reseal`; `rev` is the revision, raised by edits
only - supersession, claims and reports rewrite a document without raising it.
An `expand_graph` action with several members is several steps here, which also
allows batches the code would write as several actions; they end in the same
documents. Two limits: the bound on members is then checked against the set as
rewritten so far, and `GrantDies` stands for `SchedulingGrants`.

`TaskScheduling` EXTENDS `TaskGraph` with the ledger (`ledger`, whose index is the
claim id), one pool's `policy` and latest trusted `reading`, and the actions
`Claim`, `ObserveTask`, `Reconcile`, `ActivatePolicy`, `ObserveResource`. Write
zones are sequences of path segments, so nesting is real. Occupancy, zones and
settled versions are read from the ledger, dependencies from the graph, as in
`_zone_holder`, `_admit`, `_resolved_versions` and `_waiting_reason`. A claim in
state `unknown` goes through, as in the code. The least `max_active_claims` of the chain
is the constant `CapOf`.

`WriteZones` - the abstract promise of the ledger: zones in use are taken and
given back one at a time, and never overlap between tasks. `TaskScheduling`
implements it with `held` read from the live rows (`ImplementsWriteZones`).

`DecisionReceipts` - `submit_decision` over threads. State: `head`, `decisions`,
`rejections`, `refusing` (a thread that still has to record its refusal),
`barred` (payloads that the present task states, grants and terms refuse on the
merits), `losses`. `Accept` is the accepting transaction; `Refuse` is the one
that rolls back; `RecordRejection` is the second transaction, write-once per
key; `LoseRefusal` is a stop or a failure in between. Refusals of malformed
requests are not recorded by the code and are not modelled.

The stores below are modelled one transaction (or one external effect) per action.
A call that spans several keeps its place in a `pc`, so that other callers, stops
and cancellations fall between; where the code holds a write lock across an
effect, the guard and the effect are one action.

`ResourceBroker` - cash. `submit` is `PrepareCall`, `RecordIntent` or
`AbandonIntent`, `Post`, `SettleAnswer` or `GiveUp`; the process may stop between
any two (`BrokerStops`), `Recover` is the next start, and `SettleReport` is a
provider's figure arriving late, again, or higher.

`RunnerHost` - one attempt's process. `StartAccept`, `StartActivate`, `StartSpawn`,
`StartAcknowledge` are the steps of `start`, replayed after a stop; the supervisor
registers, launches, records, watches and finishes as a process of its own, and
may be killed. `Cancel` and `ReceiveResult` fall anywhere.

`DeliveryCoordinator` - push and pull request of one Run. `advance` is
`BeginAdvance` (the snapshot), the validation, the activating transaction, the
remote effect and the recording one; a pull request may land after the service's
answer was lost (`PublishLands`), and others move the repository.

`CapacityStore` - one account with one pool: readings that are old when they are
observed, receipts that trail consumption, admission, activation, the guard of the
effect, cancellation and reconciliation. `Available` is the code's conservative
balance: the reading less what is held and what receipts do not cover. A demand is
an estimate: `Consume` charges a sent attempt beyond it, and `RecordReceipt` takes
what was used, as `record_usage` does (`over_estimate_pools`). Several readings may
be on their way and are applied in any order.

`WorkflowCompiler` - `compile_workflow` as one predicate `Compiles`, a conjunction
with one conjunct per check of the compiler; `Runnable` is the reference it is
compared with. `WorkflowBundles` publishes what compiles; `WorkflowDeployments`
EXTENDS it with deploy commands executed by overlapping workers and with
`create_run`. A digest is the document it was taken of, `Altered` any other. The
inputs of a step are named, and `set_step_input` replaces or adds the one it names.

`ProjectRegistry`, `ProjectQualification`, `RunPlanning` - the project's
configuration in previews, the credentials and the facts of profiles, the plans
of a Run. `PlanningExecutions` - the saga between planning admission, Capacity
and the Run store; `advancing` is the writer that admission holds.
`GoRelay` - the request handlers of one grant between guard, journal and provider.

`CandidateGate` - the append-only evidence, the objects (contents and logs) it
refers to, and the gate computed from both. An object is missing (`lost`) or
overwritten (`altered`); `Writes` is `_artifact`, which `freeze`, `record_check` and
`record_review` call before anything else: it writes a missing object again, also
when the key turns out to be one already used, and refuses an altered one.
`Decided` is what the records say, `Relied` the objects the gate reads. The files
of a manifest stand as one object.
`SerialCoordinator` EXTENDS it with the coordinator, whose calls of the host and
of the candidate store commit on their own: `StopsBefore` takes its own commit
away from any of them. `Running` are the processes of attempts it committed,
`Strays` those of checks started in a transaction that never committed.

`Conversations` - events and snapshots of a conversation and its browsers. A follow
delivers a prefix of the batch after the cursor (`Delivered`), and the browser
resumes after the last event it received.
`TaskRouting` - the rulebook compiler and the evaluator as operators (`Overlap`,
`SelectRule`, `Selected`), and the assessment, reservation and boundary of a
worker and of its reviewer; `fence` is the boundary at which the code holds Run,
project and Capacity.
`TaskExecutions` - operations of the admission ledger, with Capacity and the host
as that ledger sees them (`capacity`, `hosts`), the Run's budget of processes and
the child. A reservation expires, an active hold becomes overdue (`HoldExpires`), and
whoever serves Capacity may reconcile either at any time (`ReconcileHold`), whatever
runs under it. `ReviewerExecutions` EXTENDS it with the reviews.
`CandidateChecks` - the subject in force, the rows of its checks, the runner's
result directory and the transition that a rebinding of reviewers makes.

`Common` holds `None` and the row operator the stores share.

`SumTheorems` holds what the proofs need of sums over finite sets, of least elements
and of sets that grow round by round; the theorems are in `SchedulingGrantsProofs`, `DecisionReceiptsProofs`,
`TaskSchedulingProofs` (with the decisions of `TaskGraph`), `ExecutionProofs` (host,
broker, candidate checks), `SharedProofs` (capacity, delivery, conversations, routing,
task executions, reviews),
`OrchestrationProofs` (gate, serial coordinator, planning, planning executions,
registry, qualification, relay) and `WorkflowProofs` (compiler, bundle store,
deployments). `MC*` modules hold the constants of the runs.

## 3. Runs

| Run | Instance | Shows |
|---|---|---|
| `grants` | 4 grants (symmetric), 6 bodies that differ in one dimension each, 1 credential, clock 0..2 | chains of depth 3, siblings and forests under every order of delegation, revocation, expiry |
| `claims` | 2 tasks in `docs` and `docs/api`, 2 sets, 1 grant, 2 decisions of up to 2 actions, 2 claims, 5 versions | supersession while running, second claims, corrections; refinement of `WriteZones` |
| `joins` | 3 tasks (member, replacement, join), 1 set with and without a member limit, 2 grants with different actions and ceilings, 2 decisions of up to 3 actions, 2 claims, an enforcing and an unknown reading | edits around the seal, pins, fan-in, ceilings |
| `receipts` | 2 commands against revisions 0 and 1, 2 keys, 2 threads, 2 losses | retries, races, losses; liveness |
| `execution` | broker: 1 attempt, 2 calls of 1 logical call, 2 reports, amounts 1..2 of 2; host: 1 attempt, 2 fences; checks: 2 subjects, 2 transitions, 1 check each, 2 processes | stops anywhere, late and higher figures, cancellation against launch, a subject that changes under its check; liveness |
| `shared` | delivery: 2 revisions, 2 callers, 2 pull requests; capacity: 2 attempts that ask for 1 or 2 and use up to 2 of a quota of 2, 2 readings under way, 2 receipts, 3 instants; conversations: 2 projects, 2 Runs, 2 browsers, 3 events; routing: 513 rulebooks, 4 profiles, a worker and its reviewer, 4 instants; tasks: 2 workers' and 1 reviewer's operation | lost and late answers, old facts, cancellations |
| `workflows` | 3 revisions, 2 conversations, 5 edits, 2 deploy commands on 2 workers, 1 Run | authors racing, stopped publications, overlapping deployments, a deployment replaced under `create_run` |
| `orchestration` | planning: 5 plans of a chain of 3 tasks, 2 creators; executions: 2 with 1 submitter, budget 1; candidates: 2, 3 pieces of evidence, 1 object missing or altered at a time; serial: 4 attempts, 1 retry; registry: 2 previews, 3 rulebooks; qualification: 4 suites, 2 calls; relay: 4 requests on a grant of 2 and 3 | sagas, recoveries, races between authors |
| `revoked_credentials`, `one_unit_of_work`, `sealable_sets`, `receipts_agree` | as above | four comments of the code that its behaviour contradicts (section 6) |

`execution`, `shared` and `orchestration` check several components in one model, one
at a time: `part` is chosen at the start, and the others stay as they began. Their
tables are disjoint, so no behaviour is lost by this; the calls between them are
modelled on the caller's side.

Bounds of the scheduling runs: `MaxHead` decisions, `MaxBatch` actions,
`MaxVersion` writes of a document, `MaxClaims` ledger rows, `MaxTime`,
`MaxLosses`. Each violation of a mutated definition appears well inside them: two
decisions are needed to edit, replace or seal what an earlier one created; two
claims are what two writers, a repeated claim, or a member and its join need;
three actions let a batch edit, seal and edit again; depth 3 is the least at which
an ancestor is neither the parent nor the root. The theorems of section 5 hold
without the bounds on the sets of identities and for every value of the others.

Bounds of the others, beyond the sizes of the sets: `ChecksBound` (one
disturbance, or changes of qualification), `MCBound` (the remote is moved and the
Run paused during the first revision; one of `CapacityTroubles` - a policy, a provider
failure, readings that overtake each other, a second receipt, usage above an
estimate - and before the last tick; `Troubles` and `Cancellations` of a task: two,
one of them a cancellation, where a hold that expired or was reconciled is a trouble),
`RoutingBound` (one change of facts, or one new reading; every rulebook is
compiled and asked, one is used), `PlanningBound` (five entries of a Run's lists),
`Disturbances` (two per serial Run), `RegistryBound`, `QualificationBound` (two
changes, lapses or revocations; one scenario for each suite), `RelayBound` (requests in the order of their
names, two at a time), `FirstAtRest` (equal callers start in order), `MaxSends`,
`MaxCycles`, `MaxStops`, `MaxSource`. Two independent disturbances are what the
recoveries of this code are about - a stop or a lost answer, and a cancellation or
a change before the recovery - and every mutant needs at most that.

Fairness. `DecisionReceipts`: `WF` of `RecordRejection` per thread (a started
handler runs on) and `SF` of `Submit` per key (a client without an answer submits
again, and the thread pool serves it now and then between the others);
`EveryKeyIsSettled` says nothing about a client that stops. `BrokerFairness`: `WF`
of each step of a started `submit`, whose thread runs on unless the process stops,
and of `Recover`, which the service calls when it starts again. `HostFairness`:
`WF` of the supervisor's loop while it lives. No other module claims liveness:
claims, reports, `advance` and `reconcile` are called by clients that may never
call again.

## 4. Properties

- `LiveGrantHasLiveChain`, `DelegationBounded`, `AuthorityNarrows`,
  `RevocationIsFinal`: the chain is right although every check looks at the parent
  (or the root) only.
- `OneWriterPerZone`, `EndedIsReleased`, `ReleasedByReconciliation`,
  `ImplementsWriteZones`: an execution holds its directory until the owner
  reconciles it, whatever is reported, superseded or corrected meanwhile.
- `OccupancyWithinCeiling`: the ceiling of the grant served last is kept.
- `PinsAreArchived`, `SealIsFinal`, `JoinSeesPinnedResults`: what a seal means.
- `EveryRevisionHasOneDecision`, `ReceiptsAreFinal`, `EveryKeyIsSettled`: no lost
  update, one answer per command, an answer in the end.
- `MoneyIsAccounted`, `CallsAreResolved` (broker): what may have been sent stays
  held, the budget is exceeded by reported figures only, and no call stays open.
- `OneRunner`, `AttemptsEndOnce`, `CancelledStops` (host): one process, one outcome,
  nothing after a cancellation, and an end to it.
- `DeliveriesAreSafe`: one pull request per Run, one unresolved step at a time, no
  completion of a Run that is not active. `QuotaNotOverspent`: true consumption,
  which the store never sees, exceeds the quota by no more than attempts used above
  their own estimates; what was reported above an estimate counts against every later
  effect.
- `PublishedIsRunnable`, `BundlesAreSound`, `DeploymentsAreSound`: what is
  published can be run, keeps its text and owner, and what is active, its commands'
  answers and the Runs made from it agree; a Run is inserted only from the deployment
  that is active at that moment (without the recheck in `create_run` TLC finds one
  that is not).
- `ConfigurationsAreReviewed`, `FactsAreEarned`, `ApprovedPlansAreSound`: an
  author's, a probe's and a user's decision hold for what they saw.
- `PlansArePaidFor`, `SendsAreBounded`: no plan without a claimed budget, nothing
  after a cancellation; no send unrecorded, unauthorized, or after a failure. One
  failure does not stop the relay: a client that cannot be closed after its answer
  passed turns the receipt to failed (`go_relay.py:1250`), and later calls begin.
- `GateOpensByReview`, `SerialRunsAreSound`: a gate opens by a passing review of an
  approved reviewer, or again when the object whose loss had shut it is written back
  (a repeated check or freeze does that, without new evidence); only an open gate
  completes a worker. One process of a *committed* attempt runs at a time. Beside it
  may run strays, at most one per stop of the coordinator, all of them checks and
  never beside a writer; nobody watches or stops these (section 6).
- `RoutesAreSound`, `TaskEffectsAreOwned`, `ReviewsAreCurrent`, `ChecksAreCurrent`,
  `ConversationsAreFollowed`: selection is unambiguous and the profile at work is
  the one assessed and still qualified; effects belong to one live, approved,
  funded operation, starts and sends also to the Run's time and to a hold that is
  active *then*, neither overdue nor reconciled, while the collection of a candidate
  asks neither Capacity nor the deadline (`go_task_collector.py:109`); reviews and
  checks are of the subject in force and count once; a client that follows a
  conversation in batches that break off anywhere misses nothing.

`QuotaNotOverspent`, `DeploymentsAreSound`, `PlansArePaidFor`, `SerialRunsAreSound`, `TaskEffectsAreOwned`, `ReviewsAreCurrent` and
`ChecksAreCurrent` join an invariant and an action property of one component.

## 5. Proofs

All theorems are checked by TLAPS for arbitrary sets of identities, specs, zones,
plans, policies and bounds. They rest on assumptions named in the modules that
declare the constants, which TLC evaluates on every run:

- types of constants: `GrantsAssumption`, `GraphAssumption`, `SchedulingAssumption`,
  `ReceiptsAssumption`, `BrokerAssumption`, `CapacityAssumption`, `DeliveryAssumption`,
  `RoutingAssumption` (priorities are integers, a request names known facts),
  `TasksAssumption` (an id is a worker's or a reviewer's operation and not both, every
  approval names a budget), `ChecksAssumption` (there is a first qualification);
- that `None` differs from the values it stands beside: also `HostAssumption`,
  `ConversationsAssumption`, `PlanningAssumption`, `RelayAssumption`;
- what the documents are: `PlansAssumption` (a plan has finitely many tasks),
  `BundlesAssumption` (a workflow has finitely many steps, an edit is one of the
  operations `edit` accepts),
  `PlanningAssumption` (finitely many executions), `QualificationAssumption` (a suite
  has a scenario), `IdsAssumption` (attempt numbers suffice for the attempts).

The argument is always the same: an inductive invariant, one lemma per action, the
property from the invariant. What each invariant adds to the property it proves:

- `SchedulingGrantsProofs`: `IInv` adds to `TypeOK` that a chain is closed under
  ancestors, that depths are counted along it, that a revoked ancestor means a
  revoked descendant, and the narrowing of bodies with the *remaining* depth
  (an ancestor's bound less the distance). Containment in the parent alone then
  gives containment in every ancestor (`NarrowingHolds`, `DepthsBounded`), and
  narrowed expiry plus the cascade gives `LiveChains`.
- `TaskSchedulingProofs`: a step of a decision keeps the draft well-formed, each of
  its documents continues an earlier one (same claim, same reconciliation, the same
  state or superseded) or is fresh, and sealed sets are untouched.
  `OneWriterPerZone` is inductive with `TypeOK`, but `EndedIsReleased` is not: `IInv`
  adds `ClaimsTrue`, of the stored tasks and of the draft - a document's claim is a
  row of its task, an ending as state *or* as reconciliation means that row is
  released, and a reconciled ending is not claimable (otherwise a new claim could
  be reported away by an untrusted ending). From it: `ZonesExclusive`,
  `EndedTasksReleased`, `ReleasesAreReconciled`, `SealsStand`, `JoinsSeePins` and the
  refinement `LedgerRefinement`, where a claim is `Acquire`, a releasing
  reconciliation is `Release` and the rest stutters. `PinsCanBeRead` adds
  `ArchiveInv`: what a sealed set, or the draft of one, pins is archived or will be
  when the draft commits. `BackpressureHolds` adds `CeilingInv`: each live row, with
  the live rows before it, is within the ceiling of *its own* grant, so that a
  release keeps the fact and a claim checks the whole.
- `DecisionReceiptsProofs`: `TypeCorrect`, `NoLostUpdate`, `ReceiptsStand`.
- `SumTheorems`: `SumFunctionOnSet` over a finite set does not depend on the order of
  the fold; adding, removing or rewriting an element changes the sum by that much; a
  sum is monotone. Induction principles with an operator parameter cannot be used,
  so each is shown by a least counterexample (`MinimalSubset`, `MinOfNat`).
- `ExecutionProofs`: `HostInv` ties the caller of `start`, the supervisor and the row
  of one execution together: before the spawn there is no process, a supervisor
  registers before it launches, a launch leaves the launching state
  (`OneRunnerHolds`, `AttemptsEnd`). `BrokerInv`: a call is settled exactly when
  some report is not above its figure; what was sent is held; an overdraft is
  covered by reported excess (`MoneyIsKept`, with the sums of all calls).
  `ChecksInv` for `ChecksStayCurrent`: a child past its claim means that the row is
  claimed, a result that the process was started by that child, and a stop is
  confirmed only of a process that ended; what runs belongs to the subject in force
  and no transition is pending (a transition is staged only when the cycle is quiet);
  and the phase of a transition says whether its candidate is in the series, also
  when the caller that claimed it is gone.
- `SharedProofs`: `CapacityInv` bounds the sum of *exposures* (the demand of what may
  still spend, the true spending of the rest up to its demand) by the quota - spending
  is exposure plus excess - and says that a reading promises no more than the quota
  less what it covers, whenever it arrives (`QuotaIsKept`). `DeliveryInv`: what a call may rely on although its
  snapshot is old, and that a pull request on its way is some revision's open
  question (`DeliveriesStaySafe`). `ConversationsInv`: the last event of a
  conversation is its own and its last, so a cursor stays the number of an event,
  and what a browser received are the events up to its cursor, batch after batch
  (`EventsAreSeen`). `RoutingInv`: a held route suits its task, and the boundary's
  facts were current when it was drawn (`RoutesStaySound`; that an unambiguous
  rulebook has one highest rule is a lemma about the compiler's operators).
  `TasksInv` for `TaskEffectsStayOwned`: capacity is gained only by a queued operation
  and held only by one in a pending state, whatever receipt the ledger has missed, so
  the refresh in `enqueue` sees it; a hold once activated is never a mere reservation
  again, and no cancellation releases it (`WasActivated`), so a host vouches for an
  activation and a child for a host, whether or not the hold still stands; every
  execution has its claim in the budget. `ReviewsInv` for `ReviewsStayCurrent`: a
  claim means a host, hence an activation, hence an operation that was not cancelled
  for good, however late the ledger of reviews learns of it; and the steps of the
  reviews keep `TasksInv`.
- `OrchestrationProofs`: `ExecutionsInv` (the phase of an admission says whether its
  claim was made; an execution past its output has the transport effect behind it)
  for `PlansPaidFor`; `QualificationInv` (a call observes with the secret sealed by
  the generation of its own start) for `FactsEarned`; `RelayInv` (a request inside
  the guard has the authority; one that ends badly, the close of its client aside,
  closes the relay before its thread is done) for `SendsBounded`; `RegistryInv` (what was read at the present
  revision is still in force) for `ConfigurationsReviewed`.
  Of the Run itself: `GateInv` (a passing review saw only earlier evidence, and the
  one under way is of an approved reviewer who did not write) with `GateMoves` (what is altered stays so or is lost) for
  `GatesOpenByReview`, under any callers of the store; `SerialInv` (what runs of the
  committed attempts is the first that is not over, the one `advance` looks at) and
  `StrayInv` (a stop adds one stray at most, and while there is one the worker is
  neither unqueued nor failed, so no writer is started) for
  `SerialStaysSound` and `SerialGatesOpenByReview`; `PlanningInv` for
  `ApprovalsStaySound`: every submitted plan - not only the approved ones - is its
  commander's, entitled by its intent, and sound towards the plan it was computed
  against, and the newest plan is based on the active one until it is approved.
  That `plan_impact` reaches a closed set after as many rounds as there are tasks
  (`RoundsClose`) is by counting: a round that is not the last adds a task.
- `WorkflowProofs`: `CompiledIsRunnable` is about the compiler alone - a document that
  `Compiles` is `Runnable`. The steps that never end would be a set in which every
  step waits for another, which `DependenciesAcyclic` excludes; that the rounds of
  endings stop at a closed set is `RoundsClose` again, so no induction over documents
  is needed. `BundlesInv` adds to the properties that every revision compiled with
  the bindings pinned beside it, that an edit under way holds the text of its base
  (an edit keeps the bindings and recompiles, so compilation is inductive), and that
  all owners are one (`PublishedStaysRunnable`, `BundlesStaySound`). `DeployInv`: an
  execution's intent and the one persisted under its key freeze the same revision,
  persisted intents only gain steps - so what *another* execution of the command
  recorded is there when this one activates - and a recorded load means that every
  kind has an adapter; the slot's revision counts the deployments, and each made a
  revision up to it (`DeploymentsStaySound`).

Only model-checked:

- `EveryKeyIsSettled`, `CallsAreResolved`, `CancelledStops`: liveness under fairness is
  out of the prover's reach. Every other property of a passing run is a theorem.

## 6. Where comments and code disagree

1. `store.py:1210` - "Every credential issued for a revoked grant is revoked with
   it": the cascade revokes descendants' grants and not their credentials.
2. `store.py:3318` - "a second claim never creates a second unit of work": a task
   reconciled as `unknown` is handed out again while its first claim is live, and
   no report can release that one afterwards.
3. `store.py:2177` - an open set "follows the replacement": only the set being
   expanded does; another open set that names the task cannot be sealed.
4. `store.py:1920` - "a replay is coherent": a refusal recorded after the same
   command was accepted leaves it with two contradicting receipts.

Each has a run that shows the trace and an entry under `findings`.

Others, whose formulas are in the modules (TLC refutes the first three on the
constants of `orchestration`, the third with two submitters of one execution) or
that were met while reading:

- `EveryProcessIsKnown` (`SerialCoordinator`): `docs/implementation/m1-serial-orchestration.md:31`
  says an attempt is committed before its start is consumed; the host commits the
  start inside the coordinator's transaction, and a stop before that transaction's
  commit leaves a process of an attempt it does not know (`serial.py:431`, `_queue_check`).
  The next `advance` queues and starts another check beside it.
- `InvalidatedNeverCompletes`: line 33 of the same document; a task whose
  invalidation was recorded is completed by a review that was already running
  (`serial.py`, `_record_validation`).
- `CancelledHasNoPlan` (`PlanningExecutions`): the comment at
  `planning_execution.py:818`; with two submitters of one execution, one records the
  cancellation of a submission the other has carried into the Run.
- `serial.py:706` copies the raised fence of a retry into a check queued before it.
- A rebinding of reviewers whose caller stops between claim and effect stays
  `rebind_claimed`: no caller may send it again, and no other transition is staged.
- The operation of an execution stays in a pending state for good, so the same task
  gets no second operation; cancelling an old, expired operation makes it pending
  for a moment.
- `_save_observation` puts a recorded row back to `observed`, and a late
  `freeze_launch` a claimed review back to `host_prepared`; the once-claims protect
  both (`ChecksAreCurrent`, `ReviewsAreCurrent`).

## 7. Not modelled

Formatting, digests and schemas (a digest is a counter or an identity); read-only
queries (`queue`, `graph`, lists); several Runs, projects and pools at once (the
stores key every row by project and Run); reset windows of a quota and money in
Capacity; the grant containment of a single task spec (`validate_task_spec` against
scopes and references), YAML shapes and refused field names of the compiler, which
are validation without state; what a qualification scenario or a check looks at;
the compilation of a reviewer's input, of planning snapshots and of the transport's
messages, which are functions of stored documents; native clean-up of planning
executions; `gateway`, the adapters other than the relay, `isolation` other than
the check runner, `contracts` and `web`: provider I/O, sandboxes, schemas, routes.

Several checks of one cycle are in `CandidateChecks` but not in its run, a suite
has one scenario in the run of `ProjectQualification` (the theorem has any number),
and a profile other than one worker and one reviewer is not executed.

## 8. Plan

1. Abstract specifications of at-most-once effects (broker, delivery, task
   executions) and the refinements that show them.
2. Compositions: `TaskExecutions` with `CapacityStore` and `RunnerHost` in place of
   what it sees of them; `DeliveryCoordinator` with `CandidateGate`.
3. `planning_transport` and `planning_snapshot`, the reviewer's input and bootstrap.
