---------------------------- MODULE TaskExecutions ----------------------------
(***************************************************************************)
(* The operation of an approved task from its admission to its candidate:  *)
(* ApprovedTaskAdmission (orchestration/admission.py), the workspace       *)
(* (workspace.py), the Run's budget of processes (execution_budget.py),    *)
(* GoExecutionIntents, ApprovedGoTaskExecution and its child               *)
(* (go_execution_intent.py, go_task_execution.py) and the collector        *)
(* (go_task_collector.py).                                                 *)
(*                                                                         *)
(* The ledger of operations, Capacity, the host, the call journal and the  *)
(* candidates commit separately.  Controllers are any number of processes  *)
(* that stop anywhere: each of their transactions is an action, enabled    *)
(* once the ledger shows that some controller came that far.  The child of *)
(* an attempt is one process and has a program counter.                    *)
(***************************************************************************)
EXTENDS Common, Naturals, FiniteSets

CONSTANTS
    WorkerOps,      \* operation ids for the worker's task, in the order of use
    ReviewerOps,    \* operation ids for the task that reviews it
    MaxCycles,      \* bound on the cycles of checks of a candidate
    AttemptLimit,   \* max_total_attempts of the budget each approval names
    MaxSends        \* bound on the sends of an execution

(* What the ledger, Capacity, the host and the child of an operation may say. *)
(* A hold is overdue that Capacity stores as active and whose expiry has passed. *)
Holdings == {"reserved", "active", "overdue", "unknown", "ended", "expired", "released"}
CapacityRow ==
    [hold : Holdings \union {None}, admitted : {"admitted", "denied", None},
     activated : {"revalidated", "rejected", None}, cancelled : BOOLEAN]
ExecutionPhases ==
    {"prepared", "activation_rejected", "activated", "start_unknown", "effect_claimed", "candidate_recorded"}
ExecutionRow ==
    [phase : ExecutionPhases, activation : {"revalidated", "rejected", None}, launch : BOOLEAN, host : BOOLEAN,
     claim : BOOLEAN, captured : BOOLEAN]
BudgetRow == [limit : Nat, claims : SUBSET (Nat \X (WorkerOps \union ReviewerOps))]
HostStates == {"prepared", "running", "ended"}
ChildStates == {"registered", "checked", "claimed", "granted", "working", "captured", "frozen", "over"}

(* An id names one operation of one task, and every approval names a budget. *)
ASSUME TasksAssumption ==
    /\ WorkerOps \intersect ReviewerOps = {}
    /\ DOMAIN AttemptLimit \subseteq Nat /\ 1 \in DOMAIN AttemptLimit
    /\ \A n \in DOMAIN AttemptLimit : AttemptLimit[n] \in Nat
    /\ None \notin ExecutionRow \union BudgetRow
    /\ None \notin Holdings \union HostStates \union ChildStates \union {"admitted", "revalidated"}

VARIABLES
    operations,     \* the ledger of operations, by id
    capacity,       \* per id: the hold, and the receipts of the three commands
    budget,         \* run_execution_budgets: the limit and who claimed; None before the first
    hosts,          \* RunnerHost's attempt of each operation
    grants,         \* the call journal's grant of each operation
    child,          \* where the child of each operation stands
    frozen,         \* operations whose candidate is in the CandidateStore
    world,          \* approval in force, whether routes hold, whether the Run's time is up
    effects         \* native starts and provider sends of each operation

taskVars == <<operations, capacity, budget, hosts, grants, child, frozen, world, effects>>

Ops == WorkerOps \union ReviewerOps
SameTask(o, p) == o \in WorkerOps <=> p \in WorkerOps

TasksInit ==
    /\ operations = << >> /\ budget = None /\ frozen = {}
    /\ capacity = [o \in Ops |-> [hold |-> None, admitted |-> None, activated |-> None, cancelled |-> FALSE]]
    /\ hosts = [o \in Ops |-> None]
    /\ grants = [o \in WorkerOps |-> None]
    /\ child = [o \in WorkerOps |-> None]
    /\ world = [approval |-> 1, routed |-> TRUE, late |-> FALSE]
    /\ effects = [o \in WorkerOps |-> [starts |-> 0, sends |-> 0]]

Exists(o) == o \in DOMAIN operations
Save(o, row) == operations' = WithRow(operations, o, row)

(* The sources of the assessment are still those in force, and a route is selected. *)
StillApproved(o) == operations[o].approval = world.approval
StillRouted(o) == StillApproved(o) /\ world.routed

-----------------------------------------------------------------------------
(* The budget of processes: claim_process, current_process, admission_allowed. *)
Writer == 0     \* the attempt that writes; its checks are numbered from 1
Least(m, n) == IF m <= n THEN m ELSE n
Allowed == AttemptLimit[world.approval]
ClaimCount == Cardinality(budget.claims)

(* The first writer opens the budget; a later approval may narrow it and never widens it. *)
Claims(attempt, o) ==
    IF budget = None
    THEN /\ attempt = Writer /\ \A p \in DOMAIN operations : operations[p].execution = None
         /\ Allowed > 0
         /\ budget' = [limit |-> Allowed, claims |-> {<<attempt, o>>}]
    ELSE \/ <<attempt, o>> \in budget.claims /\ UNCHANGED budget
         \/ /\ <<attempt, o>> \notin budget.claims
            /\ ~world.late /\ ClaimCount < Least(budget.limit, Allowed)
            /\ budget' = [budget EXCEPT !.limit = Least(@, Allowed), !.claims = @ \union {<<attempt, o>>}]

(* current_process for the writer's claim. *)
ClaimStands(o) ==
    /\ budget # None /\ <<Writer, o>> \in budget.claims
    /\ ClaimCount <= Least(budget.limit, Allowed) /\ ~world.late

(* capture_run_budget_boundary with its check for an admission that has no claim yet. *)
AdmissionAllowed == budget # None /\ ClaimCount < Least(budget.limit, Allowed) /\ ~world.late

-----------------------------------------------------------------------------
(* Admission. *)

(* States in which another admission of the task is refused. *)
PendingStates ==
    {"queued", "reserved", "cancellation_pending", "reconciliation_required",
     "execution_pending", "executing", "execution_unknown"}

(* An activation of a reviewer that is known to Capacity, or may be. *)
Recoverable(o, row) ==
    /\ o \in ReviewerOps /\ row.state = "reconciliation_required" /\ row.receipt = "admitted"
    /\ row.activation \in {"intended", "revalidated"}

(* _refresh: what Capacity says now of a reservation, with the receipt of its activation. *)
Refreshed(o, row) ==
    LET hold == capacity[o].hold
        seen == IF row.activation # None /\ capacity[o].activated # None
                THEN [row EXCEPT !.activation = capacity[o].activated] ELSE row
        owned == hold \in {"active", "overdue"} /\ seen.activation = "revalidated"
    IN
    IF row.execution # None \/ (row.state # "reserved" /\ ~Recoverable(o, row)) THEN row
    ELSE [seen EXCEPT !.state =
            IF hold \in {"expired", "released"} THEN hold
            ELSE IF owned /\ Recoverable(o, row) /\ ~row.cancel THEN "reserved"
            ELSE IF hold # "reserved" /\ ~owned THEN "reconciliation_required" ELSE @]

(* What _reviewer_lineage asks of the worker's operation: its candidate, checked and bound. *)
Reviewable(w) ==
    /\ w \in WorkerOps /\ Exists(w) /\ operations[w].validated > 0 /\ ~operations[w].cancel

(* _reviewer_context finds the one worker's operation that was collected and not cancelled. *)
Collected == {w \in WorkerOps : Exists(w) /\ operations[w].execution # None
                                /\ operations[w].execution.captured /\ ~operations[w].cancel}

(* enqueue: one pending admission per task; reservations are refreshed first. *)
Enqueue(o) ==
    LET now == [p \in DOMAIN operations |->
                  IF SameTask(o, p) /\ operations[p].state = "reserved"
                  THEN Refreshed(p, operations[p]) ELSE operations[p]]
        worker == IF o \in WorkerOps THEN None ELSE CHOOSE w \in Collected : TRUE
        selected == world.routed /\ (o \in ReviewerOps => Reviewable(worker))
    IN
    /\ ~Exists(o)
    /\ \A p \in DOMAIN operations : SameTask(o, p) => now[p].state \notin PendingStates
    /\ o \in ReviewerOps => Cardinality(Collected) = 1
    /\ operations' = WithRow(now, o,
          [state |-> IF selected THEN "queued" ELSE "blocked", requested |-> selected,
           worker |-> worker, approval |-> world.approval, receipt |-> None, cancel |-> FALSE,
           activation |-> None, workspace |-> FALSE, validated |-> 0, execution |-> None])
    /\ UNCHANGED <<capacity, budget, hosts, grants, child, frozen, world, effects>>

(* The request is compiled again, and for a reviewer with its lineage and the Run's budget. *)
RequestStands(o) ==
    /\ StillRouted(o)
    /\ o \in ReviewerOps => Reviewable(operations[o].worker) /\ AdmissionAllowed

(* Capacity.admit under the operation's key, which answers once and for all. *)
AdmitInCapacity(o, decision) ==
    capacity' = [capacity EXCEPT ![o].admitted = decision,
                                 ![o].hold = IF decision = "admitted" THEN "reserved" ELSE @]

(* The last part of advance: the receipt is stored and the state derived from it. *)
WithReceipt(o, row, decision) ==
    [row EXCEPT !.receipt = decision, !.state = IF decision = "admitted" THEN "reserved" ELSE "blocked"]

(* advance: the lost answer is recovered, or the request is revalidated and sent. *)
AdvanceAdmission(o) ==
    /\ Exists(o) /\ operations[o].state = "queued" /\ ~operations[o].cancel
    /\ \/ /\ capacity[o].admitted # None
          /\ Save(o, Refreshed(o, WithReceipt(o, operations[o], capacity[o].admitted)))
          /\ UNCHANGED capacity
       \/ /\ capacity[o].admitted = None /\ ~RequestStands(o)
          /\ Save(o, [operations[o] EXCEPT !.state = "blocked"])
          /\ UNCHANGED capacity
       \/ /\ capacity[o].admitted = None /\ RequestStands(o)
          /\ \E decision \in {"admitted", "denied"} :
                /\ AdmitInCapacity(o, decision)
                /\ Save(o, WithReceipt(o, operations[o], decision))
    /\ UNCHANGED <<budget, hosts, grants, child, frozen, world, effects>>

(* advance stops after Capacity's commit and before its own. *)
AdmissionLost(o) ==
    /\ Exists(o) /\ operations[o].state = "queued" /\ ~operations[o].cancel
    /\ capacity[o].admitted = None /\ RequestStands(o)
    /\ AdmitInCapacity(o, "admitted")
    /\ UNCHANGED <<operations, budget, hosts, grants, child, frozen, world, effects>>

(* get, reconcile_reviewer *)
ReadAdmission(o) ==
    /\ Exists(o) /\ Save(o, Refreshed(o, operations[o])) /\ operations' # operations
    /\ UNCHANGED <<capacity, budget, hosts, grants, child, frozen, world, effects>>

(* activate_reviewer, its first transaction: the intent with its key. *)
IntendActivation(o) ==
    /\ Exists(o) /\ o \in ReviewerOps
    /\ LET row == Refreshed(o, operations[o]) IN
       /\ ~row.cancel /\ row.state = "reserved" /\ row.receipt = "admitted" /\ row.activation = None
       /\ Save(o, [row EXCEPT !.activation = "intended"])
    /\ UNCHANGED <<capacity, budget, hosts, grants, child, frozen, world, effects>>

(* Capacity.activate: a reservation that is still there is evaluated again, an expired one refused. *)
ActivateInCapacity(o) ==
    /\ capacity[o].activated = None /\ capacity[o].hold \in {"reserved", "expired"}
    /\ \E decision \in {"revalidated", "rejected"} :
          /\ decision = "revalidated" => capacity[o].hold = "reserved"
          /\ capacity' = [capacity EXCEPT ![o].activated = decision,
                                          ![o].hold = IF decision = "revalidated" THEN "active" ELSE @]

(* activate_reviewer calls Capacity after its transaction, on the strength of the intent alone. *)
ActivateReviewer(o) ==
    /\ Exists(o) /\ operations[o].activation = "intended"
    /\ ActivateInCapacity(o)
    /\ UNCHANGED <<operations, budget, hosts, grants, child, frozen, world, effects>>

(* Its last transaction, by whoever still holds the intent. *)
RecordActivation(o) ==
    /\ Exists(o) /\ operations[o].activation = "intended" /\ capacity[o].activated # None
    /\ Save(o, Refreshed(o, [operations[o] EXCEPT !.activation = capacity[o].activated]))
    /\ UNCHANGED <<capacity, budget, hosts, grants, child, frozen, world, effects>>

(* cancel, first transaction: the intent; with an execution, its controller cleans up. *)
RequestCancel(o) ==
    /\ Exists(o) /\ operations[o].state # "cancelled"
    /\ Save(o, [operations[o] EXCEPT !.cancel = TRUE, !.state = "cancellation_pending"])
    /\ operations' # operations
    /\ UNCHANGED <<capacity, budget, hosts, grants, child, frozen, world, effects>>

(* cancel_unactivated: a reservation is released, an expired one stays so; the receipt is kept. *)
CancelInCapacity(o) ==
    capacity' = [capacity EXCEPT ![o].hold = IF @ = "reserved" THEN "released" ELSE @,
                                 ![o].cancelled = TRUE]

(***************************************************************************)
(* cancel, second transaction: what Capacity admitted, answered or not, is *)
(* released unless it was activated or reconciled by others.  Capacity     *)
(* keeps the receipt, so a release whose answer was lost is found again.   *)
(***************************************************************************)
ReleaseCancelled(o) ==
    LET row == operations[o] IN
    /\ Exists(o) /\ row.cancel /\ row.execution = None /\ row.state # "cancelled"
    /\ LET admitted == row.requested /\ capacity[o].admitted = "admitted" IN
       IF admitted /\ ~capacity[o].cancelled /\ capacity[o].hold \notin {"reserved", "expired"}
         THEN /\ Save(o, [row EXCEPT !.receipt = "admitted", !.state = "reconciliation_required"])
              /\ UNCHANGED capacity
         ELSE /\ Save(o, [row EXCEPT !.state = "cancelled",
                                     !.receipt = IF admitted THEN "admitted" ELSE @])
              /\ IF admitted THEN CancelInCapacity(o) ELSE UNCHANGED capacity
    /\ operations' # operations
    /\ UNCHANGED <<budget, hosts, grants, child, frozen, world, effects>>

(* Capacity commits the release and the ledger does not. *)
ReleaseLost(o) ==
    /\ Exists(o) /\ operations[o].cancel /\ operations[o].execution = None
    /\ operations[o].state # "cancelled" /\ capacity[o].hold \in {"reserved", "expired"}
    /\ CancelInCapacity(o) /\ capacity' # capacity
    /\ UNCHANGED <<operations, budget, hosts, grants, child, frozen, world, effects>>

-----------------------------------------------------------------------------
(* Execution: intents, each guarded by the operation's row. *)

(* ApprovedTaskWorkspace.prepare, for a worker's reservation. *)
PrepareWorkspace(o) ==
    /\ Exists(o) /\ o \in WorkerOps
    /\ LET row == Refreshed(o, operations[o]) IN
       /\ row.state = "reserved" /\ ~row.cancel /\ ~row.workspace /\ StillApproved(o)
       /\ Save(o, [row EXCEPT !.workspace = TRUE])
    /\ UNCHANGED <<capacity, budget, hosts, grants, child, frozen, world, effects>>

(* prepare_intent: the process is claimed in the same transaction. *)
PrepareIntent(o) ==
    LET row == operations[o] IN
    /\ Exists(o) /\ row.execution = None /\ row.workspace
    /\ row.state = "reserved" /\ ~row.cancel /\ StillApproved(o)
    /\ Claims(Writer, o)
    /\ Save(o, [row EXCEPT !.state = "execution_pending",
                           !.execution = [phase |-> "prepared", activation |-> None, launch |-> FALSE,
                                          host |-> FALSE, claim |-> FALSE, captured |-> FALSE]])
    /\ UNCHANGED <<capacity, hosts, grants, child, frozen, world, effects>>

(* There is an execution that nobody asked to cancel. *)
Executes(o) == Exists(o) /\ operations[o].execution # None /\ ~operations[o].cancel
Phase(o) == operations[o].execution.phase

(* _guard for a new effect with _route_guard: the ledger's writer lock is held across the effect. *)
MayAct(o) == Executes(o) /\ StillRouted(o) /\ ClaimStands(o)

(* The call of Capacity under activation_guard; its answer may be lost. *)
ActivateExecution(o) ==
    /\ MayAct(o) /\ Phase(o) = "prepared" /\ operations[o].execution.activation = None
    /\ ActivateInCapacity(o)
    /\ UNCHANGED <<operations, budget, hosts, grants, child, frozen, world, effects>>

(* activation_recorded, also by reconcile and after a cancellation. *)
RecordExecutionActivation(o) ==
    LET row == operations[o]
        decision == capacity[o].activated
    IN
    /\ Exists(o) /\ row.execution # None /\ row.execution.activation = None /\ decision # None
    /\ Save(o, IF decision = "rejected"
               THEN [row EXCEPT !.execution.activation = decision, !.execution.phase = "activation_rejected",
                                !.state = IF row.cancel THEN @ ELSE "execution_unknown"]
               ELSE [row EXCEPT !.execution.activation = decision,
                                !.execution.phase = IF @ = "prepared" THEN "activated" ELSE @])
    /\ UNCHANGED <<capacity, budget, hosts, grants, child, frozen, world, effects>>

(* freeze_launch *)
FreezeLaunch(o) ==
    /\ Executes(o) /\ Phase(o) = "activated" /\ ~operations[o].execution.launch
    /\ Save(o, [operations[o] EXCEPT !.execution.launch = TRUE])
    /\ UNCHANGED <<capacity, budget, hosts, grants, child, frozen, world, effects>>

(* host.prepare under launch_preparation_guard and Capacity's pre_effect_guard. *)
PrepareHost(o) ==
    /\ MayAct(o) /\ Phase(o) = "activated" /\ operations[o].execution.launch
    /\ ~operations[o].execution.claim
    /\ capacity[o].hold = "active" /\ hosts[o] = None
    /\ hosts' = [hosts EXCEPT ![o] = "prepared"]
    /\ UNCHANGED <<operations, capacity, budget, grants, child, frozen, world, effects>>

(* record_host_prepared *)
RecordHostPrepared(o) ==
    /\ Executes(o) /\ hosts[o] # None /\ operations[o].execution.activation = "revalidated"
    /\ ~operations[o].execution.host
    /\ Save(o, [operations[o] EXCEPT !.execution.host = TRUE])
    /\ UNCHANGED <<capacity, budget, hosts, grants, child, frozen, world, effects>>

(* mark_start_unknown: the one launch intent, before host.start. *)
MarkStartUnknown(o) ==
    /\ Executes(o) /\ operations[o].execution.host /\ Phase(o) = "activated"
    /\ Save(o, [operations[o] EXCEPT !.execution.phase = "start_unknown", !.state = "execution_unknown"])
    /\ UNCHANGED <<capacity, budget, hosts, grants, child, frozen, world, effects>>

(* startup_guard *)
MayStart(o) ==
    /\ MayAct(o) /\ Phase(o) = "start_unknown" /\ ~operations[o].execution.claim
    /\ operations[o].execution.host /\ operations[o].execution.activation = "revalidated"
    /\ capacity[o].hold = "active"

(* host.start, which starts the child of this start_key once. *)
StartHost(o) ==
    /\ MayStart(o) /\ hosts[o] = "prepared"
    /\ hosts' = [hosts EXCEPT ![o] = "running"]
    /\ child' = [child EXCEPT ![o] = "registered"]
    /\ UNCHANGED <<operations, capacity, budget, grants, frozen, world, effects>>

(* observe_execution after the failure of some controller, however late. *)
Observed(row) ==
    IF row.cancel \/ row.execution.phase = "candidate_recorded" THEN row
    ELSE [row EXCEPT !.state = "execution_unknown"]

ObserveFailure(o) ==
    /\ Exists(o) /\ operations[o].execution # None
    /\ Save(o, Observed(operations[o])) /\ operations' # operations
    /\ UNCHANGED <<capacity, budget, hosts, grants, child, frozen, world, effects>>

(* _cleanup of a cancelled execution, in its two calls: the journal, then the host. *)
RevokeOwnedGrant(o) ==
    /\ Exists(o) /\ operations[o].cancel /\ operations[o].execution # None /\ operations[o].execution.launch
    /\ grants[o] = "live"
    /\ grants' = [grants EXCEPT ![o] = "revoked"]
    /\ UNCHANGED <<operations, capacity, budget, hosts, child, frozen, world, effects>>

CancelHost(o) ==
    /\ Exists(o) /\ operations[o].cancel /\ operations[o].execution # None /\ operations[o].execution.launch
    /\ hosts[o] \in {"prepared", "running"}
    /\ hosts' = [hosts EXCEPT ![o] = "ended"]
    /\ child' = [child EXCEPT ![o] = IF @ = None THEN None ELSE "over"]
    /\ UNCHANGED <<operations, capacity, budget, grants, frozen, world, effects>>

-----------------------------------------------------------------------------
(* The child: consume_go_task. *)

ChildGoes(o, from, to) == child[o] = from /\ child' = [child EXCEPT ![o] = to]

(* All guards pass once; they are released before the claim. *)
CheckStartup(o) ==
    /\ ChildGoes(o, "registered", "checked")
    /\ MayStart(o) /\ hosts[o] = "running"
    /\ UNCHANGED <<operations, capacity, budget, hosts, grants, frozen, world, effects>>

(* effect_start_claim: committed once. *)
ClaimEffect(o) ==
    /\ ChildGoes(o, "checked", "claimed")
    /\ Executes(o) /\ ~operations[o].execution.claim /\ Phase(o) = "start_unknown"
    /\ Save(o, [operations[o] EXCEPT !.execution.claim = TRUE, !.execution.phase = "effect_claimed",
                                     !.state = "executing"])
    /\ UNCHANGED <<capacity, budget, hosts, grants, frozen, world, effects>>

(* A slip in _effect_guard: Capacity, asked when the child was started, is not asked again. *)
EffectGuard_Unheld(o) ==
    /\ MayAct(o) /\ Phase(o) = "effect_claimed" /\ operations[o].execution.claim
    /\ hosts[o] = "running"

(* _effect_guard: claim, budget, route, Capacity and the runner, held across the effect. *)
EffectGuard(o) ==
    /\ MayAct(o) /\ Phase(o) = "effect_claimed" /\ operations[o].execution.claim
    /\ capacity[o].hold = "active" /\ hosts[o] = "running"

CreateGrant(o) ==
    /\ ChildGoes(o, "claimed", "granted") /\ EffectGuard(o)
    /\ grants' = [grants EXCEPT ![o] = "live"]
    /\ UNCHANGED <<operations, capacity, budget, hosts, frozen, world, effects>>

StartNative(o) ==
    /\ ChildGoes(o, "granted", "working") /\ EffectGuard(o)
    /\ effects' = [effects EXCEPT ![o].starts = @ + 1]
    /\ UNCHANGED <<operations, capacity, budget, hosts, grants, frozen, world>>

(* A call of the native process through the relay. *)
SendCall(o) ==
    /\ child[o] = "working" /\ grants[o] = "live" /\ EffectGuard(o) /\ effects[o].sends < MaxSends
    /\ effects' = [effects EXCEPT ![o].sends = @ + 1]
    /\ UNCHANGED <<operations, capacity, budget, hosts, grants, child, frozen, world>>

(* collect: the native process has ended; its capture is recorded before the candidate. *)
RecordCapture(o) ==
    /\ ChildGoes(o, "working", "captured") /\ hosts[o] = "running"
    /\ Executes(o) /\ Phase(o) = "effect_claimed" /\ operations[o].execution.claim
    /\ Save(o, [operations[o] EXCEPT !.execution.captured = TRUE])
    /\ UNCHANGED <<capacity, budget, hosts, grants, frozen, world, effects>>

(* collection_guard, with the route of the operation. *)
CollectionGuard(o) ==
    /\ Executes(o) /\ StillRouted(o) /\ Phase(o) = "effect_claimed" /\ operations[o].execution.captured

(* freeze_projection under collection_guard and the runner's; neither Capacity nor the time is asked. *)
FreezeCandidate(o) ==
    /\ ChildGoes(o, "captured", "frozen") /\ hosts[o] = "running"
    /\ CollectionGuard(o)
    /\ frozen' = frozen \union {o}
    /\ UNCHANGED <<operations, capacity, budget, hosts, grants, world, effects>>

(* candidate_recorded, by the child or by a later recover, cancelled or not. *)
LinkCandidate(o) ==
    /\ Exists(o) /\ operations[o].execution # None /\ operations[o].execution.captured /\ o \in frozen
    /\ Phase(o) # "candidate_recorded"
    /\ Save(o, [operations[o] EXCEPT !.execution.phase = "candidate_recorded"])
    /\ UNCHANGED <<capacity, budget, hosts, grants, child, frozen, world, effects>>

(* The child meets an exception: it revokes what it owns and leaves an observation. *)
ChildFails(o) ==
    /\ child[o] \notin {None, "over"} /\ hosts[o] = "running"
    /\ child' = [child EXCEPT ![o] = "over"]
    /\ hosts' = [hosts EXCEPT ![o] = "ended"]
    /\ grants' = [grants EXCEPT ![o] = IF @ = "live" THEN "revoked" ELSE @]
    /\ Save(o, Observed(operations[o]))
    /\ UNCHANGED <<capacity, budget, frozen, world, effects>>

(* The child ends, or is gone without a word. *)
ChildStops(o) ==
    /\ child[o] \notin {None, "over"} /\ hosts[o] = "running"
    /\ child' = [child EXCEPT ![o] = "over"]
    /\ hosts' = [hosts EXCEPT ![o] = "ended"]
    /\ UNCHANGED <<operations, capacity, budget, grants, frozen, world, effects>>

-----------------------------------------------------------------------------
(* A cycle of checks of the candidate and the binding of its reviewer: see CandidateChecks. *)
ValidateCandidate(o) ==
    /\ Executes(o) /\ StillApproved(o) /\ Phase(o) = "candidate_recorded" /\ operations[o].validated < MaxCycles
    /\ Claims(operations[o].validated + 1, o)
    /\ Save(o, [operations[o] EXCEPT !.validated = @ + 1])
    /\ UNCHANGED <<capacity, hosts, grants, child, frozen, world, effects>>

(* The Run's owner approves another plan, a profile is withdrawn, time passes. *)
WorldChanges ==
    /\ \/ world.approval + 1 \in DOMAIN AttemptLimit /\ world' = [world EXCEPT !.approval = @ + 1]
       \/ world' = [world EXCEPT !.routed = ~@]
       \/ ~world.late /\ world' = [world EXCEPT !.late = TRUE]
    /\ UNCHANGED <<operations, capacity, budget, hosts, grants, child, frozen, effects>>

(* expires_at passes: _held gives up a reservation, and an active hold no longer allows effects. *)
HoldExpires(o) ==
    /\ capacity[o].hold \in {"reserved", "active"}
    /\ capacity' = [capacity EXCEPT ![o].hold = IF @ = "reserved" THEN "expired" ELSE "overdue"]
    /\ UNCHANGED <<operations, budget, hosts, grants, child, frozen, world, effects>>

(* reconcile: whoever serves Capacity says how a hold ended, whatever still runs under it. *)
ReconcileHold(o) ==
    /\ \E state \in {"released", "ended", "unknown"} :
          /\ capacity[o].hold \in {"active", "overdue", "unknown"} \union
                                (IF state = "released" THEN {"reserved"} ELSE {})
          /\ capacity' = [capacity EXCEPT ![o].hold = state]
    /\ capacity' # capacity
    /\ UNCHANGED <<operations, budget, hosts, grants, child, frozen, world, effects>>

TasksNext ==
    \/ WorldChanges
    \/ \E o \in Ops :
          \/ Enqueue(o) \/ AdvanceAdmission(o) \/ AdmissionLost(o) \/ ReadAdmission(o)
          \/ RequestCancel(o) \/ ReleaseCancelled(o) \/ ReleaseLost(o) \/ HoldExpires(o) \/ ReconcileHold(o)
    \/ \E o \in ReviewerOps : IntendActivation(o) \/ ActivateReviewer(o) \/ RecordActivation(o)
    \/ \E o \in WorkerOps :
          \/ PrepareWorkspace(o) \/ PrepareIntent(o) \/ ActivateExecution(o)
          \/ RecordExecutionActivation(o) \/ FreezeLaunch(o) \/ PrepareHost(o)
          \/ RecordHostPrepared(o) \/ MarkStartUnknown(o) \/ StartHost(o)
          \/ ObserveFailure(o) \/ RevokeOwnedGrant(o) \/ CancelHost(o)
          \/ CheckStartup(o) \/ ClaimEffect(o) \/ CreateGrant(o) \/ StartNative(o) \/ SendCall(o)
          \/ RecordCapture(o) \/ FreezeCandidate(o) \/ LinkCandidate(o)
          \/ ChildFails(o) \/ ChildStops(o) \/ ValidateCandidate(o)

-----------------------------------------------------------------------------
Holds(o) == capacity[o].hold \in {"reserved", "active", "overdue", "unknown"}

(* Holds, claims, starts and candidates of every operation are accounted for. *)
TasksAreOwned ==
    /\ \A o, p \in Ops : o # p /\ SameTask(o, p) => ~(Holds(o) /\ Holds(p))
    /\ budget # None => ClaimCount <= budget.limit
    /\ \A o \in DOMAIN operations :
          /\ operations[o].state = "cancelled" => ~Holds(o)
          /\ operations[o].execution # None => <<Writer, o>> \in budget.claims
    /\ \A o \in WorkerOps : effects[o].starts <= 1
    /\ \A o \in frozen : operations[o].execution.captured

(***************************************************************************)
(* A native start, a send or a candidate belongs to an execution that may  *)
(* act; a start or a send also to a hold and to a Run whose time is not    *)
(* over.                                                                   *)
(***************************************************************************)
EffectsAllowed ==
    \A o \in WorkerOps :
        LET acts == effects'[o] # effects[o]
        IN  /\ acts \/ o \in frozen' \ frozen =>
                  /\ operations[o].execution.claim /\ ~operations[o].cancel
                  /\ StillRouted(o) /\ hosts[o] = "running"
            /\ acts => capacity[o].hold = "active" /\ ~world.late
            /\ o \in frozen' \ frozen => capacity[o].activated = "revalidated"

(***************************************************************************)
(* Whatever is lost, late or cancelled in between: a task never holds      *)
(* capacity for two operations, and a cancelled one holds none; a Run      *)
(* claims no more processes than its budget allows, and every execution    *)
(* has its claim; the native process starts at most once, for              *)
(* the child that claimed it, and a candidate is one a recorded capture    *)
(* names.  No native start, send or candidate happens once a cancellation  *)
(* is committed, the approval replaced, the route gone or the runner       *)
(* ended, and no start or send once the Run's time is over or the hold has *)
(* expired or was reconciled.  The candidate of work done by then is still *)
(* collected: the collector asks neither Capacity nor the Run's time, and  *)
(* its hold is one that was activated.  Behaviour: ApprovedTaskAdmission,  *)
(* claim_process, GoExecutionIntents, consume_go_task, ApprovedGoCollector,*)
(* Capacity.pre_effect_guard and reconcile.                                *)
(***************************************************************************)
TaskEffectsAreOwned == []TasksAreOwned /\ [][EffectsAllowed]_taskVars

TasksSpec == TasksInit /\ [][TasksNext]_taskVars
==============================================================================
