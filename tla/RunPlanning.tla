----------------------------- MODULE RunPlanning -----------------------------
(***************************************************************************)
(* RunPlanner in backend/karajan/runs/planning.py with the checks of       *)
(* validation.py: one planning Run, from its creation to approved plans,   *)
(* through changes of the commander.                                       *)
(*                                                                         *)
(* Every operation but two is one transaction over the Run's snapshot.     *)
(* create reads the project outside the transaction that inserts, and the  *)
(* plan of a planning execution is submitted in two transactions.  A       *)
(* command repeated under its key returns the stored answer; a rejected    *)
(* one leaves the Run as it was: neither is a step here, except where the  *)
(* key is looked up outside the transaction that uses it.                  *)
(***************************************************************************)
EXTENDS Common, Naturals, Sequences, FiniteSets

CONSTANTS
    Lead,         \* the participant of purpose "lead"
    Candidates,   \* other participants that may command
    Advisors,     \* participants of purpose "advice"
    Plans,        \* plans a commander may submit: tasks and authorization
    Ceiling,      \* the authorization ceiling of the Run
    Creators,     \* concurrent calls of create with one command key
    MaxProject,   \* bound on project revisions
    MaxIntents, MaxPlans, MaxHandoffs  \* bounds on the Run's lists

ASSUME PlansAssumption == \A plan \in Plans : IsFiniteSet(DOMAIN plan.tasks)

Participants == {Lead} \union Candidates \union Advisors

VARIABLES
    projectRevision,  \* revision of the project and its configuration
    creator,          \* per call of create: where it stands and the project it read
    run,              \* the Run's snapshot, None before its creation
    created,          \* Runs inserted by create commands
    submission,       \* a planning execution between its two transactions: its intent, or 0
    settled           \* run_commands: intents whose execution's submission has its answer

planVars == <<projectRevision, creator, run, created, submission, settled>>

NewRun(revision) ==
    [config |-> revision, state |-> "planning", commander |-> Lead, term |-> 1,
     intents |-> << >>, plans |-> << >>, approvals |-> << >>, handoffs |-> << >>, active |-> 0]

PlanningInit ==
    /\ projectRevision = 1
    /\ creator = [c \in Creators |-> [pc |-> "idle", read |-> 0]]
    /\ run = None
    /\ created = 0
    /\ submission = 0
    /\ settled = {}

-----------------------------------------------------------------------------
(* create: the key is looked up, and the project compared with the request, outside ... *)
ReadProject(c) ==
    /\ creator[c].pc = "idle" /\ run = None
    /\ creator' = [creator EXCEPT ![c] = [pc |-> "insert", read |-> projectRevision]]
    /\ UNCHANGED <<projectRevision, run, created, submission, settled>>

(* ... the transaction that inserts, which looks the key up again (_command). *)
InsertRun(c) ==
    /\ creator[c].pc = "insert"
    /\ IF created = 0
         THEN run' = NewRun(creator[c].read) /\ created' = 1
         ELSE UNCHANGED <<run, created>>
    /\ creator' = [creator EXCEPT ![c].pc = "done"]
    /\ UNCHANGED <<projectRevision, submission, settled>>

(* The project gets a new revision, at any time. *)
ProjectChanges ==
    /\ projectRevision < MaxProject
    /\ projectRevision' = projectRevision + 1
    /\ UNCHANGED <<creator, run, created, submission, settled>>

-----------------------------------------------------------------------------
SaveRun(value) ==
    /\ run' = value
    /\ UNCHANGED <<projectRevision, creator, created>>

(* planning_intent: by the commander of the term, or an advisor. *)
PlanningIntent(p, term) ==
    /\ run # None /\ term = run.term
    /\ p = run.commander \/ p \in Advisors
    /\ Len(run.intents) < MaxIntents
    /\ SaveRun([run EXCEPT !.intents = Append(@, [term |-> term, by |-> p,
                                                state |-> "awaiting_receipt", receipt |-> None])])
    /\ UNCHANGED <<submission, settled>>

(* attach_planning_receipt: an authority's receipt, of either outcome, attached once. *)
AttachPlanningReceipt(i, outcome) ==
    /\ run # None /\ i \in DOMAIN run.intents
    /\ run.intents[i].term = run.term
    /\ run.intents[i].state = "awaiting_receipt"
    /\ SaveRun([run EXCEPT !.intents[i].state = outcome, !.intents[i].receipt = "authority"])
    /\ UNCHANGED <<submission, settled>>

-----------------------------------------------------------------------------
(* validate_plan: within the ceiling, over its own tasks, without a cycle. *)
Visited(tasks) ==
    LET round[n \in 0 .. Cardinality(DOMAIN tasks)] ==
            IF n = 0 THEN {}
            ELSE {t \in DOMAIN tasks : tasks[t].deps \subseteq round[n - 1]}
    IN  round[Cardinality(DOMAIN tasks)]

ValidPlan(plan) ==
    /\ plan.auth \subseteq Ceiling
    /\ \A t \in DOMAIN plan.tasks : plan.tasks[t].deps \subseteq DOMAIN plan.tasks
    /\ Visited(plan.tasks) = DOMAIN plan.tasks

(* plan_impact: a task keeps its revision only while it keeps its content. *)
RevisionReused(plan) ==
    \E i \in DOMAIN run.plans : \E t \in DOMAIN plan.tasks \intersect DOMAIN run.plans[i].plan.tasks :
        LET old == run.plans[i].plan.tasks[t] IN
        old.revision = plan.tasks[t].revision /\ old # plan.tasks[t]

Active == IF run.active = 0 THEN [tasks |-> << >>, auth |-> {}] ELSE run.plans[run.active].plan

DirectlyAffected(plan) ==
    LET prior == Active.tasks  proposed == plan.tasks IN
    IF run.active # 0 /\ Active.auth # plan.auth THEN DOMAIN prior \union DOMAIN proposed
    ELSE {t \in DOMAIN prior \union DOMAIN proposed :
             t \notin DOMAIN prior \/ t \notin DOMAIN proposed \/ prior[t] # proposed[t]}

(* A slip in plan_impact: the dependents are added once, not until none is missing. *)
Affected_Once(plan) ==
    DirectlyAffected(plan)
        \union {t \in DOMAIN plan.tasks : plan.tasks[t].deps \intersect DirectlyAffected(plan) # {}}

(* plan_impact: what the plan adds, removes or changes, and all that depends on it. *)
Affected(plan) ==
    LET prior == Active.tasks
        proposed == plan.tasks
        all == DOMAIN prior \union DOMAIN proposed
        deps(t) == IF t \in DOMAIN proposed THEN proposed[t].deps ELSE prior[t].deps
        round[n \in 0 .. Cardinality(all)] ==
            IF n = 0 THEN DirectlyAffected(plan)
            ELSE round[n - 1] \union {t \in all : deps(t) \intersect round[n - 1] # {}}
    IN  round[Cardinality(all)]

Reusable(plan) == DOMAIN plan.tasks \ Affected(plan)

(* submit_plan: by the commander of the term, under its own admitted intent, on the latest plan. *)
MaySubmit(p, term, i, latest, plan) ==
    /\ term = run.term /\ p = run.commander
    /\ run.intents[i].by = p /\ run.intents[i].term = term
    /\ run.intents[i].state = "admitted"
    /\ latest = Len(run.plans)
    /\ ValidPlan(plan) /\ ~RevisionReused(plan)

WithPlan(p, term, i, plan) ==
    [run EXCEPT !.plans = Append(@, [term |-> term, by |-> p, intent |-> i, plan |-> plan,
                                     base |-> run.active, reusable |-> Reusable(plan)]),
                !.state = IF run.active = 0 THEN "awaiting_approval" ELSE @]

SubmitPlan(p, term, i, latest, plan) ==
    /\ run # None /\ i \in DOMAIN run.intents /\ Len(run.plans) < MaxPlans
    /\ MaySubmit(p, term, i, latest, plan)
    /\ SaveRun(WithPlan(p, term, i, plan))
    /\ UNCHANGED <<submission, settled>>

(* _submit_planning_execution_plan, first transaction: the sealed output admits its intent ... *)
AdmitExecution(i) ==
    /\ run # None /\ i \in DOMAIN run.intents /\ submission = 0
    /\ run.intents[i].term = run.term /\ run.intents[i].by = run.commander
    /\ run.intents[i].state = "awaiting_receipt" \/ run.intents[i].receipt = "execution"
    /\ SaveRun([run EXCEPT !.intents[i].state = "admitted", !.intents[i].receipt = "execution"])
    /\ submission' = i
    /\ UNCHANGED settled

(* ... second transaction: submit_plan under the execution's own key, answered once. *)
SubmitExecutionPlan(latest, plan) ==
    LET intent == run.intents[submission] IN
    /\ submission # 0 /\ Len(run.plans) < MaxPlans
    /\ IF submission \notin settled /\ MaySubmit(intent.by, intent.term, submission, latest, plan)
         THEN SaveRun(WithPlan(intent.by, intent.term, submission, plan))
         ELSE UNCHANGED <<run, projectRevision, creator, created>>
    /\ settled' = settled \union {submission}
    /\ submission' = 0

(* The controller stops between the two; the execution may be submitted again. *)
SubmissionStops ==
    /\ submission # 0
    /\ submission' = 0
    /\ UNCHANGED <<projectRevision, creator, run, created, settled>>

(* approve_plan: the owner approves the latest plan, which must be of the current term. *)
ApprovePlan(term, revision) ==
    /\ run # None /\ term = run.term
    /\ revision # 0 /\ revision = Len(run.plans)
    /\ run.plans[revision].term = term
    /\ run.active # revision
    /\ SaveRun([run EXCEPT !.approvals = Append(@, [plan |-> revision, term |-> term,
                                                  by |-> run.commander]),
                         !.active = revision, !.state = "executing"])
    /\ UNCHANGED <<submission, settled>>

-----------------------------------------------------------------------------
(* _handoff_binding: what a proposed handoff was decided about. *)
HandoffBinding ==
    [term |-> run.term, latest |-> Len(run.plans), active |-> run.active,
     approvals |-> Len(run.approvals)]

(* propose_handoff: by owner or commander; a pending proposal is superseded. *)
ProposeHandoff(term, latest, candidate) ==
    /\ run # None /\ term = run.term /\ latest = Len(run.plans)
    /\ candidate \in Participants \ Advisors /\ candidate # run.commander
    /\ Len(run.handoffs) < MaxHandoffs
    /\ LET old == [h \in DOMAIN run.handoffs |->
                      IF run.handoffs[h].state = "pending"
                        THEN [run.handoffs[h] EXCEPT !.state = "superseded"]
                        ELSE run.handoffs[h]]
       IN  SaveRun([run EXCEPT !.handoffs = Append(old, [candidate |-> candidate,
                    binding |-> HandoffBinding, state |-> "pending", expired |-> FALSE])])
    /\ UNCHANGED <<submission, settled>>

HandoffExpires(h) ==
    /\ run # None /\ h \in DOMAIN run.handoffs
    /\ run.handoffs[h].state = "pending" /\ ~run.handoffs[h].expired
    /\ SaveRun([run EXCEPT !.handoffs[h].expired = TRUE])
    /\ UNCHANGED <<submission, settled>>

(* decide_handoff: the owner decides a pending proposal whose checkpoint is still current. *)
DecideHandoff(term, h, approve) ==
    /\ run # None /\ term = run.term /\ h \in DOMAIN run.handoffs
    /\ LET handoff == run.handoffs[h]
           decided == [run EXCEPT !.handoffs[h].state = IF approve THEN "approved" ELSE "rejected"]
       IN
       /\ handoff.state = "pending" /\ ~handoff.expired
       /\ handoff.binding = HandoffBinding
       /\ SaveRun(IF approve THEN [decided EXCEPT !.commander = handoff.candidate, !.term = term + 1]
                ELSE decided)
    /\ UNCHANGED <<submission, settled>>

PlanningNext ==
    \/ \E c \in Creators : ReadProject(c) \/ InsertRun(c)
    \/ ProjectChanges \/ SubmissionStops
    \/ \E p \in Participants, t \in 1 .. MaxHandoffs + 1 : PlanningIntent(p, t)
    \/ \E i \in 1 .. MaxIntents :
          \/ \E o \in {"admitted", "rejected"} : AttachPlanningReceipt(i, o)
          \/ AdmitExecution(i)
    \/ \E latest \in 0 .. MaxPlans, plan \in Plans :
          \/ SubmitExecutionPlan(latest, plan)
          \/ run # None /\ \E i \in DOMAIN run.intents :
                SubmitPlan(run.intents[i].by, run.intents[i].term, i, latest, plan)
    \/ \E t \in 1 .. MaxHandoffs + 1 :
          \/ \E r \in 0 .. MaxPlans : ApprovePlan(t, r)
          \/ \E latest \in 0 .. MaxPlans, c \in Participants : ProposeHandoff(t, latest, c)
          \/ \E h \in 1 .. MaxHandoffs, a \in BOOLEAN : DecideHandoff(t, h, a)
    \/ \E h \in 1 .. MaxHandoffs : HandoffExpires(h)

PlanningSpec == PlanningInit /\ [][PlanningNext]_planVars

-----------------------------------------------------------------------------
(* Everything a task rests on in a plan, the task itself included. *)
Ancestors(tasks, t) ==
    LET round[n \in 0 .. Cardinality(DOMAIN tasks)] ==
            IF n = 0 THEN {t} ELSE round[n - 1] \union UNION {tasks[u].deps : u \in round[n - 1]}
    IN  round[Cardinality(DOMAIN tasks)]

(***************************************************************************)
(* One create command makes one Run, though the project is read before the *)
(* transaction that inserts.  What the user approved is what its commander *)
(* planned, and what is kept of the work done is still valid: every plan   *)
(* approved was submitted in the term it was approved in, by the commander *)
(* of that term, under an intent of its own that was admitted; and a task  *)
(* that approval declared reusable is, with all it rests on, word for word *)
(* in the plan that was replaced, under the same authorization.  Impacts   *)
(* are computed when a plan is submitted and used when it is approved.     *)
(***************************************************************************)
ApprovedPlansAreSound ==
    /\ created <= 1
    /\ run # None => \A a \in DOMAIN run.approvals :
        LET approval == run.approvals[a]
            entry == run.plans[approval.plan]
            before == IF a = 1 THEN 0 ELSE run.approvals[a - 1].plan
            intent == run.intents[entry.intent]
        IN
        /\ entry.term = approval.term /\ entry.by = approval.by
        /\ intent.by = entry.by /\ intent.term = entry.term /\ intent.state = "admitted"
        /\ ValidPlan(entry.plan)
        /\ entry.base = before
        /\ \A t \in entry.reusable :
              /\ before # 0 /\ run.plans[before].plan.auth = entry.plan.auth
              /\ \A u \in Ancestors(entry.plan.tasks, t) :
                    /\ u \in DOMAIN run.plans[before].plan.tasks
                    /\ run.plans[before].plan.tasks[u] = entry.plan.tasks[u]
=============================================================================
