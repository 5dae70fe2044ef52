----------------------------- MODULE TaskRouting -----------------------------
(***************************************************************************)
(* The routing of approved tasks: the rulebook compiler, rule selection    *)
(* and evaluator of backend/karajan/routing, and ApprovedRunRouting of     *)
(* orchestration/routing.py, which builds their inputs from the Run, the   *)
(* project's qualifications and estimates (projects/demand.py) and the     *)
(* Capacity store, records an assessment, and rebuilds it under the locks  *)
(* of each later boundary.                                                 *)
(*                                                                         *)
(* The controller routes the normal stage only, knows no remaining cash    *)
(* and no confidence of a pool: metered profiles are refused, and the      *)
(* conservative limits of an unknown quota always apply.                   *)
(***************************************************************************)
EXTENDS Common, Integers, FiniteSets, FiniteSetsExt

CONSTANTS
    Rulebooks,      \* rulebooks a Run may freeze: rule id -> rule
    Requests,       \* classifications the rulebooks are asked about
    RiskClass,      \* risk_policy.mapping
    Profiles,       \* profile references, numbers in their canonical order
    Registered,     \* roles, family, maxClass, scope, billing, completion of each
    Groups,         \* profile_groups of the rulebooks
    Granted,        \* profiles of the plan's grants, the ceiling and the constraints
    Tasks,          \* tasks of the approved plan
    Plans,          \* approved plans: the classification of each task; a reviewer's names its worker
    Limits,         \* Capacity policy: active, lead, age, unknownActive, unknownAge, margin
    Amount,         \* demand of one attempt on the pool
    Readings,       \* values the provider may report as remaining
    Lifetime,       \* validity of a qualification or an estimate
    RouteTimes,     \* values of the clock
    Generations     \* bound on qualifications, estimates and readings

VARIABLES
    rulebook,       \* rules of the frozen configuration
    plan,           \* the approved plan
    clock,
    withdrawn,      \* profiles the current catalog no longer approves as frozen
    qualified,      \* qualification of each profile: generation, from, until; or None
    estimated,      \* estimate of each profile for its task: generation, from, until; or None
    pool,           \* newest reading: remaining, at
    lineage,        \* checks of the worker's candidate, and the sources its reviewers are bound to
    assessments,    \* approved_routing_assessments: the selected route of each task, or None
    held,           \* tasks with a reservation in the Capacity store
    fence,          \* the boundary a reviewer is at, holding Run, project and Capacity, or None
    crossings       \* history of effects: what was current as each began

routingVars ==
    <<rulebook, plan, clock, withdrawn, qualified, estimated, pool, lineage, assessments, held, fence, crossings>>

worldVars == <<withdrawn, qualified, estimated, pool, lineage>>

Window(generation) == [generation |-> generation, from |-> clock, until |-> clock + Lifetime]

RoutingInit ==
    /\ rulebook = None /\ plan = None /\ clock = 0 /\ withdrawn = {}
    /\ qualified = [p \in Profiles |-> Window(1)]
    /\ estimated = [p \in Profiles |-> Window(1)]
    /\ pool = [generation |-> 1, remaining |-> Max(Readings), at |-> 0]
    /\ lineage = [checks |-> "none", sources |-> << >>]
    /\ assessments = [t \in Tasks |-> None]
    /\ held = {} /\ fence = None /\ crossings = {}

-----------------------------------------------------------------------------
(* Compilation of a rulebook.  An empty set of classes or risks accepts all. *)
Classes == 1 .. 3

(* What the schemas and validate_classification ensure. *)
Classified(task) == task.complexity \in Classes /\ task.floors \subseteq Classes
Mapped(task) == Classified(task) /\ task.risk \in DOMAIN RiskClass
Asked(task) ==
    /\ Mapped(task) /\ \A author \in task.authors : Mapped(author)
    /\ task.readiness \in {"ready", "T0"}
    /\ task.purpose \in IF task.role = "commander" THEN {"lead", "advice"} ELSE {None}

ASSUME RoutingAssumption ==
    /\ None \notin {"ready", "T0", "lead", "advice"}
    /\ RiskClass \in [DOMAIN RiskClass -> Classes]
    /\ \A book \in Rulebooks : \A i \in DOMAIN book :
          book[i].priority \in Int /\ None \notin book[i].risks
    /\ \A request \in Requests : Asked(request)
    /\ \A p \in Plans : \A t \in Tasks :
          Classified(p[t]) /\ (p[t].role = "reviewer" => p[t].worker \in Tasks)
    /\ \A p \in Granted : Registered[p].maxClass \in Int
    /\ RouteTimes \subseteq Int /\ Limits.age \in Int /\ Limits.unknownAge \in Int

RuleClasses(rule) == IF rule.classes = {} THEN Classes ELSE rule.classes
Agree(a, b) == a = None \/ b = None \/ a = b
Either(a, b, values) == IF {a, b} = {None} THEN values ELSE {a, b} \ {None}

(* A slip in overlap: the domains of a higher rule are not compared. *)
Covers_AnyDomain(rule, class, risk, purpose, readiness, domains) ==
    /\ rule.purpose \in {None, purpose} /\ rule.readiness \in {None, readiness}
    /\ class \in RuleClasses(rule)
    /\ rule.risks = {} \/ risk \in rule.risks

Covers(rule, class, risk, purpose, readiness, domains) ==
    /\ rule.purpose \in {None, purpose} /\ rule.readiness \in {None, readiness}
    /\ class \in RuleClasses(rule)
    /\ rule.risks = {} \/ risk \in rule.risks
    /\ rule.domains \subseteq domains

(***************************************************************************)
(* overlap: some request matches both rules and none of the higher ones.   *)
(* The risk None stands for one that no rule lists.                        *)
(***************************************************************************)
Overlap(left, right, higher) ==
    LET both == left.risks # {} /\ right.risks # {}
        risks == IF both THEN left.risks \intersect right.risks ELSE left.risks \union right.risks
        domains == left.domains \union right.domains
    IN
    /\ Agree(left.role, right.role) /\ Agree(left.purpose, right.purpose)
    /\ Agree(left.readiness, right.readiness)
    /\ both => risks # {}
    /\ \E class \in RuleClasses(left) \intersect RuleClasses(right),
          risk \in IF risks = {} THEN {None} ELSE risks,
          purpose \in Either(left.purpose, right.purpose,
                             IF left.role = "commander" THEN {"lead", "advice"} ELSE {None}),
          readiness \in Either(left.readiness, right.readiness, {"ready", "T0"}) :
          \A rule \in higher : ~Covers(rule, class, risk, purpose, readiness, domains)

(* The issue RULE_AMBIGUOUS of a compiled rulebook. *)
Ambiguous(book) ==
    \E i, j \in DOMAIN book :
        /\ i # j /\ book[i].priority = book[j].priority
        /\ Overlap(book[i], book[j],
              {book[k] : k \in {k \in DOMAIN book : /\ book[k].priority > book[i].priority
                                                    /\ book[k].role = book[i].role}})

(* compile_rulebook: what is refused outright. *)
Compilable(book) ==
    /\ book # << >>
    /\ \A i \in DOMAIN book :
          LET rule == book[i]
              groups == rule.groups \union rule.escalation
          IN
          /\ rule.purpose # None => rule.role = "commander"
          /\ rule.role = "commander" /\ rule.purpose # "advice" => rule.handoff
          /\ rule.groups \intersect rule.escalation = {}
          /\ groups \subseteq DOMAIN Groups
          /\ DOMAIN rule.bands \subseteq UNION {Groups[g] : g \in groups}

-----------------------------------------------------------------------------
(* Selection of a rule. *)
Floor(task) == Max({task.complexity, RiskClass[task.risk]} \union task.floors)

EffectiveClass(task) ==
    IF task.role = "reviewer" THEN Max({Floor(x) : x \in {task} \union task.authors}) ELSE Floor(task)

Matching(rule, task) ==
    /\ rule.role = task.role
    /\ rule.purpose \in {None, task.purpose} /\ rule.readiness \in {None, task.readiness}
    /\ rule.classes = {} \/ EffectiveClass(task) \in rule.classes
    /\ rule.domains \subseteq task.domains
    /\ rule.risks = {} \/ task.risk \in rule.risks

Highest(task, book) ==
    LET matches == {i \in DOMAIN book : Matching(book[i], task)} IN
    {i \in matches : \A j \in matches : book[j].priority <= book[i].priority}

(* select_compiled_rule: the one rule, or None. *)
SelectRule(task, book) ==
    LET highest == Highest(task, book) IN
    IF \/ task.readiness = "T0" /\ task.role = "worker"
       \/ task.risk \notin DOMAIN RiskClass
    THEN None
    ELSE IF Cardinality(highest) = 1 /\ book[CHOOSE i \in highest : TRUE].groups # {}
    THEN CHOOSE i \in highest : TRUE
    ELSE None

-----------------------------------------------------------------------------
(***************************************************************************)
(* The classification _build passes on: a reviewer's is that of the        *)
(* worker's task, and its authors are those of the captured candidate.     *)
(***************************************************************************)
Reviews(t) == plan[t].role = "reviewer"
WorkOf(t) == IF Reviews(t) THEN plan[t].worker ELSE t

Classification(t) ==
    LET work == plan[WorkOf(t)] IN
    [role |-> plan[t].role, purpose |-> plan[t].purpose, readiness |-> plan[t].readiness,
     domains |-> plan[t].domains, complexity |-> work.complexity, risk |-> work.risk,
     floors |-> work.floors, authors |-> IF Reviews(t) THEN {work} ELSE {}]

AuthorOf(t) == assessments[WorkOf(t)].profile

(* Facts or an estimate hold within their window. *)
Current(row, time) == row # None /\ row.from <= time /\ time < row.until

(* resolve_go_execution, and its twin for reviewers: the classes the executor was qualified for. *)
InScope(p, class) == class \in Registered[p].scope

(***************************************************************************)
(* _build leaves a registration enabled under the current catalog, within  *)
(* its scope and, for a reviewer, on the sources its binding was made for. *)
(***************************************************************************)
Enabled(p, t, class) ==
    /\ p \notin withdrawn /\ InScope(p, class)
    /\ Reviews(t) => p \in DOMAIN lineage.sources /\ lineage.sources[p] = qualified[p].generation

(* _profile_checks *)
Fit(p, t, rule, class) ==
    /\ p \in Granted
    /\ Registered[p].maxClass >= class
    /\ plan[t].role \in Registered[p].roles
    /\ Current(qualified[p], clock)
    /\ Enabled(p, t, class)
    /\ Reviews(t) /\ (class = 3 \/ rule.independence) =>
          Registered[p].family # Registered[AuthorOf(t)].family

(* check_cash: no remaining cash is known, so only a subscription is covered. *)
CashCovered(p) == Registered[p].billing = "subscription"

(* _check_resources: the attempts others hold, and what the newest reading leaves. *)
QuotaFits(others) ==
    LET age == clock - pool.at IN
    /\ Cardinality(others) < Limits.active - Limits.lead
    /\ Cardinality(others) < Limits.unknownActive - Limits.lead
    /\ pool.remaining - Amount * Cardinality(others) - Limits.margin >= Amount
    /\ age \in 0 .. Limits.age /\ age <= Limits.unknownAge

(* rank: lexicographic, and a completion that is not predicted comes last. *)
SortKey(p, rule) ==
    LET completion == Registered[p].completion IN
    << IF p \in DOMAIN rule.bands THEN rule.bands[p] ELSE 0,
       IF completion = None THEN 1 ELSE 0, IF completion = None THEN 0 ELSE completion, p >>

Sooner(a, b) ==
    \E i \in DOMAIN a : a[i] < b[i] /\ \A j \in 1 .. i - 1 : a[j] = b[j]

Best(candidates, rule) ==
    CHOOSE p \in candidates : \A q \in candidates \ {p} : Sooner(SortKey(p, rule), SortKey(q, rule))

(* _reviewer_lineage: nothing is routed before its worker's checks and binding. *)
LineageKnown(t) == Reviews(t) => lineage.checks # "none" /\ lineage.sources # << >>

(***************************************************************************)
(* evaluate_route and evaluate_reserved_profile over the inputs of _build: *)
(* the selected profile, or None.  A reserved profile is the only          *)
(* candidate, and its quota is left to the reservation.                    *)
(***************************************************************************)
Selected(t, reserved) ==
    LET class == EffectiveClass(Classification(t))
        id == SelectRule(Classification(t), rulebook)
        rule == rulebook[id]
        members == UNION {Groups[g] : g \in rule.groups}
        eligible == {p \in IF reserved = None THEN members ELSE members \intersect {reserved} :
                        /\ Fit(p, t, rule, class) /\ CashCovered(p)
                        /\ Current(estimated[p], clock)
                        /\ reserved = None => QuotaFits(held)}
    IN
    IF ~LineageKnown(t) \/ id = None \/ eligible = {} THEN None ELSE Best(eligible, rule)

Sources(p) ==
    [profile |-> p, qualification |-> qualified[p].generation, estimate |-> estimated[p].generation,
     sources |-> lineage.sources]

-----------------------------------------------------------------------------
(* A Run freezes the configuration and its rulebook, and a plan is approved. *)
FreezeRulebook ==
    /\ rulebook = None
    /\ \E book \in Rulebooks : Compilable(book) /\ rulebook' = book
    /\ plan' \in Plans
    /\ UNCHANGED <<clock, worldVars, assessments, held, fence, crossings>>

(* assess and assess_reviewer: a selected route is recorded with its sources, once. *)
Assess(t) ==
    /\ rulebook # None /\ fence = None /\ assessments[t] = None
    /\ Reviews(t) => WorkOf(t) \in held
    /\ Selected(t, None) # None
    /\ assessments' = [assessments EXCEPT ![t] = Sources(Selected(t, None))]
    /\ UNCHANGED <<rulebook, plan, clock, worldVars, held, fence, crossings>>

(* admission_guard: a fresh route must be the recorded one as Capacity takes the reservation. *)
Reserve(t) ==
    /\ fence = None /\ assessments[t] # None /\ t \notin held
    /\ Selected(t, None) = assessments[t].profile
    /\ Sources(assessments[t].profile) = assessments[t]
    /\ held' = held \union {t}
    /\ UNCHANGED <<rulebook, plan, clock, worldVars, assessments, fence, crossings>>

(* reserved_execution_guard: the route still stands, from the same sources. *)
Stands(t) ==
    /\ assessments[t] # None /\ t \in held
    /\ Selected(t, assessments[t].profile) # None
    /\ Sources(assessments[t].profile) = assessments[t]

Crossing(t) ==
    [task |-> t, profile |-> assessments[t].profile, at |-> clock, seen |-> pool.at,
     until |-> qualified[assessments[t].profile].until]

(* A worker's effect, inside the guard. *)
CrossWorker(t) ==
    /\ fence = None /\ Stands(t) /\ ~Reviews(t)
    /\ crossings' = crossings \union {Crossing(t)}
    /\ UNCHANGED <<rulebook, plan, clock, worldVars, assessments, held, fence>>

(***************************************************************************)
(* reviewer_boundary_guard and reviewer_capacity_boundary_guard: sources   *)
(* and artifacts are read again, the quota is evaluated without the        *)
(* reviewer's own claim, and the windows that follow are kept.             *)
(***************************************************************************)
EnterBoundary(t) ==
    LET p == assessments[t].profile IN
    /\ fence = None /\ Stands(t) /\ Reviews(t)
    /\ lineage.checks = "passed"
    /\ QuotaFits(held \ {t})
    /\ fence' = [task |-> t, floor |-> clock, qualification |-> qualified[p], estimate |-> estimated[p],
                 quota |-> pool.at + Min({Limits.age, Limits.unknownAge})]
    /\ UNCHANGED <<rulebook, plan, clock, worldVars, assessments, held, crossings>>

(* QuotaTemporalFence and ReviewerTemporalFence.assert_current, at the time of the effect. *)
FenceHolds ==
    /\ clock >= fence.floor
    /\ Current(fence.qualification, clock) /\ Current(fence.estimate, clock)
    /\ clock <= fence.quota

CrossReviewer ==
    /\ fence # None /\ FenceHolds
    /\ crossings' = crossings \union {Crossing(fence.task)}
    /\ fence' = None
    /\ UNCHANGED <<rulebook, plan, clock, worldVars, assessments, held>>

LeaveBoundary ==
    /\ fence # None /\ ~FenceHolds
    /\ fence' = None
    /\ UNCHANGED <<rulebook, plan, clock, worldVars, assessments, held, crossings>>

-----------------------------------------------------------------------------
(* The other stores, while no reviewer's boundary holds them. *)
Elsewhere == fence = None /\ UNCHANGED <<rulebook, plan, clock, assessments, held, fence, crossings>>

Requalify(p) ==
    /\ Elsewhere /\ qualified[p] # None /\ qualified[p].generation < Generations
    /\ \/ qualified' = [qualified EXCEPT ![p] = Window(@.generation + 1)]
       \/ qualified' = [qualified EXCEPT ![p] = None]
    /\ UNCHANGED <<withdrawn, estimated, pool, lineage>>

(* _binding: the profile is the plan's, and the current catalog's as it was frozen. *)
Estimable(p) == plan # None /\ p \in Granted \ withdrawn

(* AttemptEstimateStore.register: the newest record of a task and profile counts. *)
RegisterEstimate(p) ==
    /\ Elsewhere /\ Estimable(p)
    /\ estimated[p] # None /\ estimated[p].generation < Generations
    /\ estimated' = [estimated EXCEPT ![p] = Window(@.generation + 1)]
    /\ UNCHANGED <<withdrawn, qualified, pool, lineage>>

(* revoke: no older record takes the place of a revoked one. *)
RevokeEstimate(p) ==
    /\ Elsewhere /\ estimated[p] # None
    /\ estimated' = [estimated EXCEPT ![p] = None]
    /\ UNCHANGED <<withdrawn, qualified, pool, lineage>>

WithdrawProfile(p) ==
    /\ Elsewhere
    /\ withdrawn' = withdrawn \union {p}
    /\ UNCHANGED <<qualified, estimated, pool, lineage>>

ReadPool(n) ==
    /\ Elsewhere /\ pool.generation < Generations
    /\ pool' = [generation |-> pool.generation + 1, remaining |-> n, at |-> clock]
    /\ UNCHANGED <<withdrawn, qualified, estimated, lineage>>

(* The checks of the captured candidate pass and its reviewers are bound; a log may be lost. *)
BindReviewers ==
    /\ Elsewhere /\ lineage.checks = "none"
    /\ \E x \in crossings : ~Reviews(x.task)
    /\ lineage' = [checks |-> "passed",
                   sources |-> [p \in {p \in Profiles : /\ "reviewer" \in Registered[p].roles
                                                        /\ Current(qualified[p], clock)}
                                  |-> qualified[p].generation]]
    /\ UNCHANGED <<withdrawn, qualified, estimated, pool>>

LoseArtifact ==
    /\ Elsewhere /\ lineage.checks = "passed"
    /\ lineage' = [lineage EXCEPT !.checks = "lost"]
    /\ UNCHANGED <<withdrawn, qualified, estimated, pool>>

SetRouteClock(n) ==
    /\ n # clock
    /\ clock' = n
    /\ UNCHANGED <<rulebook, plan, worldVars, assessments, held, fence, crossings>>

RoutingNext ==
    \/ FreezeRulebook
    \/ \E t \in Tasks : Assess(t) \/ Reserve(t) \/ CrossWorker(t) \/ EnterBoundary(t)
    \/ CrossReviewer \/ LeaveBoundary
    \/ \E p \in Profiles : Requalify(p) \/ RegisterEstimate(p) \/ RevokeEstimate(p) \/ WithdrawProfile(p)
    \/ \E n \in Readings : ReadPool(n)
    \/ BindReviewers \/ LoseArtifact
    \/ \E n \in RouteTimes : SetRouteClock(n)

RoutingSpec == RoutingInit /\ [][RoutingNext]_routingVars

-----------------------------------------------------------------------------
(***************************************************************************)
(* A rulebook compiled without RULE_AMBIGUOUS has one highest rule for     *)
(* every request it has any for.  And whatever changed between an          *)
(* assessment and its effect: the profile at work is the one assessed,     *)
(* strong enough for the work itself and not only for what a reviewer's    *)
(* task says of itself, and a reviewer begins within the qualification and *)
(* the quota reading its boundary saw, from a family apart where that is   *)
(* asked for.  Behaviour: overlap, select_compiled_rule, the guards of     *)
(* ApprovedRunRouting and the temporal fences.                             *)
(***************************************************************************)
RoutesAreSound ==
    /\ rulebook # None /\ ~Ambiguous(rulebook) =>
          \A r \in Requests : Cardinality(Highest(r, rulebook)) <= 1
    /\ \A x \in crossings :
          LET work == Floor(plan[WorkOf(x.task)]) IN
          /\ x.profile = assessments[x.task].profile
          /\ Registered[x.profile].maxClass >= work
          /\ Reviews(x.task) =>
                /\ x.at < x.until /\ x.at <= x.seen + Limits.age
                /\ rulebook[SelectRule(Classification(x.task), rulebook)].independence =>
                      Registered[x.profile].family # Registered[AuthorOf(x.task)].family
==============================================================================
