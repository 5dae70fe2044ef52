-------------------------- MODULE PlanningExecutions --------------------------
(***************************************************************************)
(* Planning executions: PlanningExecutionController in orchestration/      *)
(* planning_execution.py and its admission authority in                    *)
(* planning_admission.py.  An execution is begun for a planning intent of  *)
(* a Run, draws on the planning budget, is admitted by the Capacity store, *)
(* runs, and its sealed output becomes a plan of the Run.                  *)
(*                                                                         *)
(* A transaction of the execution ledger is one step.  advance holds that  *)
(* ledger's writer from its first to its last step (_execution_guard), so  *)
(* nothing but reads of the admission ledger happens in between.           *)
(* reconcile and submit read their authorities between transactions: they  *)
(* are callers with a program counter.  What an authority answers wrongly  *)
(* (an invalid source, a foreign binding) has the outcome of a changed     *)
(* source; native clean-up fields are left out.                            *)
(***************************************************************************)
EXTENDS Common, Naturals, FiniteSets, FiniteSetsExt

CONSTANTS
    Executions,   \* executions that may be begun
    IntentOf,     \* the planning intent each is begun for
    Submitters,   \* concurrent calls of reconcile or submit
    Budget,       \* max_total_attempts of the planning budget; an execution claims one
    MaxSource     \* bound on revisions of the commander's qualification source

VARIABLES
    execution,    \* executions: the row of each, None before begin
    admission,    \* planning_admissions: the phase of each, None before advance
    claims,       \* planning_budget_usage: how often each execution claimed
    capacity,     \* the Capacity store's receipts under the two fixed keys
    advancing,    \* the execution advance holds the writer for, or None
    effects,      \* executions whose transport effect took place: their output exists
    source,       \* revision of the qualification and output source
    accepted,     \* executions whose plan the Run store committed
    intents,      \* the Run's intents: the execution that admitted each, or None
    submitter     \* per call: pc, execution, what it read and whether it claimed

(* What the row of an execution says, and the evidence of its admission it was given. *)
Evidences == {None, "none", "admitted", "admitting", "activating", "denied"}
ExecutionRow ==
    [state : {"awaiting_admission", "admission_unknown", "awaiting_output", "output_captured",
              "submit_claimed", "submission_unknown", "submitted", "blocked", "cancelled"},
     cancel : BOOLEAN, evidence : Evidences, source : Nat, started : BOOLEAN, submitted : BOOLEAN]

(* Finitely many executions, within a budget; no row and no phase is the missing value. *)
ASSUME PlanningAssumption ==
    /\ IsFiniteSet(Executions) /\ Budget \in Nat
    /\ None \notin ExecutionRow
    /\ None \notin {"prepared", "budget_claimed", "capacity_admit_unknown",
                    "capacity_activate_unknown", "admitted", "denied"}

execVars == <<execution, admission, claims, capacity, advancing, effects, source, accepted,
              intents, submitter>>
ledger == <<admission, claims, capacity, advancing, effects, source, accepted, intents>>

Idle == [pc |-> "idle", x |-> None, read |-> None, source |-> 0, mine |-> FALSE]

ExecutionsInit ==
    /\ execution = [x \in Executions |-> None]
    /\ admission = [x \in Executions |-> None]
    /\ claims = [x \in Executions |-> 0]
    /\ capacity = [x \in Executions |-> [admit |-> None, activate |-> None]]
    /\ advancing = None /\ effects = {} /\ source = 1 /\ accepted = {}
    /\ intents = [i \in {IntentOf[x] : x \in Executions} |-> None]
    /\ submitter = [c \in Submitters |-> Idle]

Begun == {x \in Executions : execution[x] # None}
WriterFree == advancing = None

-----------------------------------------------------------------------------
(* begin: the intent awaits its receipt, and no unsubmitted execution has it. *)
Begin(x) ==
    /\ WriterFree /\ execution[x] = None /\ intents[IntentOf[x]] = None
    /\ \A y \in Begun : IntentOf[y] = IntentOf[x] => execution[y].state = "submitted"
    /\ execution' = [execution EXCEPT ![x] =
          [state |-> "awaiting_admission", cancel |-> FALSE, evidence |-> "none", source |-> 0,
           started |-> FALSE, submitted |-> FALSE]]
    /\ UNCHANGED <<ledger, submitter>>

(* cancel: a claimed submission may have crossed into the Run store already. *)
Cancel(x) ==
    /\ WriterFree /\ x \in Begun /\ ~execution[x].submitted
    /\ execution' = [execution EXCEPT ![x].cancel = TRUE,
          ![x].state = IF @ \in {"submit_claimed", "submission_unknown"} THEN "submission_unknown"
                       ELSE "cancelled"]
    /\ UNCHANGED <<ledger, submitter>>

(* _blocked_locked: unless a submission or a cancellation is recorded. *)
Blocked(x) ==
    IF execution[x].submitted \/ execution[x].cancel THEN execution
    ELSE [execution EXCEPT ![x].state = "blocked"]

-----------------------------------------------------------------------------
(* _execution_guard: the writer, for an execution that is not cancelled. *)
Guarded(x) ==
    /\ WriterFree /\ x \in Begun
    /\ ~execution[x].cancel /\ execution[x].state \notin {"cancelled", "submission_unknown"}

UnknownPhases == {"capacity_admit_unknown", "capacity_activate_unknown"}

(* advance: _claim_command and _prepare; a decided admission is returned as it is. *)
AdvanceBegins(x) ==
    /\ Guarded(x)
    /\ execution[x].state # "admission_unknown"
    /\ admission[x] \in {None, "prepared", "budget_claimed"}
    /\ admission' = [admission EXCEPT ![x] = IF @ = None THEN "prepared" ELSE @]
    /\ advancing' = x
    /\ UNCHANGED <<execution, claims, capacity, effects, source, accepted, intents, submitter>>

(* A gate before the effects refuses: policy, cash, qualification, route, estimate, deadline. *)
AdvanceDenies ==
    /\ advancing # None
    /\ admission[advancing] \in {"prepared", "budget_claimed", "capacity_admit_unknown"}
    /\ capacity[advancing].admit = None
    /\ admission' = [admission EXCEPT ![advancing] = "denied"]
    /\ advancing' = None
    /\ UNCHANGED <<execution, claims, capacity, effects, source, accepted, intents, submitter>>

(* attempts of planning_budget_usage: an execution claims one each time. *)
Used == SumFunctionOnSet(claims, Executions)

(* A slip in _claim_budget: a recovered admission claims again. *)
ClaimBudget_Again ==
    /\ advancing # None /\ admission[advancing] \in {"prepared", "budget_claimed"}
    /\ claims' = [claims EXCEPT ![advancing] = @ + 1]
    /\ admission' = [admission EXCEPT ![advancing] = "budget_claimed"]
    /\ claims[advancing] < 2
    /\ UNCHANGED <<execution, capacity, advancing, effects, source, accepted, intents, submitter>>

(* _claim_budget: once per execution, within the budget. *)
ClaimBudget ==
    /\ advancing # None /\ admission[advancing] = "prepared"
    /\ IF Used + 1 > Budget
         THEN admission' = [admission EXCEPT ![advancing] = "denied"] /\ advancing' = None
              /\ UNCHANGED claims
         ELSE admission' = [admission EXCEPT ![advancing] = "budget_claimed"]
              /\ claims' = [claims EXCEPT ![advancing] = @ + 1]
              /\ UNCHANGED advancing
    /\ UNCHANGED <<execution, capacity, effects, source, accepted, intents, submitter>>

(* _advance_locked: the request is recorded before Capacity is called. *)
DispatchAdmit ==
    /\ advancing # None /\ admission[advancing] = "budget_claimed"
    /\ admission' = [admission EXCEPT ![advancing] = "capacity_admit_unknown"]
    /\ UNCHANGED <<execution, claims, capacity, advancing, effects, source, accepted, intents, submitter>>

(* Capacity decides a call under its fixed key, once. *)
CapacityDecides(call, decision) ==
    /\ advancing # None
    /\ call = "admit" => admission[advancing] = "capacity_admit_unknown"
    /\ call = "activate" => admission[advancing] = "capacity_activate_unknown"
    /\ capacity[advancing][call] = None
    /\ capacity' = [capacity EXCEPT ![advancing][call] = decision]
    /\ UNCHANGED <<execution, admission, claims, advancing, effects, source, accepted, intents, submitter>>

(* What the original receipts make of the phase (_capacity_admit_transition and activation). *)
Recovered(x) ==
    LET afterAdmit(phase) ==
            IF phase # "capacity_admit_unknown" \/ capacity[x].admit = None THEN phase
            ELSE IF capacity[x].admit = "granted" THEN "capacity_activate_unknown" ELSE "denied"
        afterActivate(phase) ==
            IF phase # "capacity_activate_unknown" \/ capacity[x].activate = None THEN phase
            ELSE IF capacity[x].activate = "granted" THEN "admitted" ELSE "denied"
    IN  afterActivate(afterAdmit(admission[x]))

(* _advance_locked records the receipt it got, and ends when the admission is decided. *)
AdvanceRecords ==
    /\ advancing # None /\ Recovered(advancing) # admission[advancing]
    /\ admission' = [admission EXCEPT ![advancing] = Recovered(advancing)]
    /\ advancing' = IF admission'[advancing] \in {"admitted", "denied"} THEN None ELSE advancing
    /\ UNCHANGED <<execution, claims, capacity, effects, source, accepted, intents, submitter>>

(* The process ends inside advance, or Capacity fails without an answer. *)
AdvanceStops ==
    /\ advancing # None
    /\ advancing' = None
    /\ UNCHANGED <<execution, admission, claims, capacity, effects, source, accepted, intents, submitter>>

(* recover_original_receipt, or advance of an interrupted admission: receipts only. *)
RecoverReceipts(x) ==
    /\ Guarded(x) /\ admission[x] \in UnknownPhases /\ Recovered(x) # admission[x]
    /\ admission' = [admission EXCEPT ![x] = Recovered(x)]
    /\ UNCHANGED <<execution, claims, capacity, advancing, effects, source, accepted, intents, submitter>>

(* effect_guard: the writer is held through the transport effect. *)
Effect(x) ==
    /\ Guarded(x) /\ admission[x] = "admitted" /\ x \notin effects
    /\ effects' = effects \union {x}
    /\ UNCHANGED <<execution, admission, claims, capacity, advancing, source, accepted, intents, submitter>>

SourceChanges ==
    /\ source < MaxSource /\ source' = source + 1
    /\ UNCHANGED <<execution, admission, claims, capacity, advancing, effects, accepted, intents, submitter>>

-----------------------------------------------------------------------------
(* read_admission: what a phase is evidence of. *)
EvidenceOf(x) ==
    CASE admission[x] = "admitted" -> "admitted"
      [] admission[x] = "capacity_admit_unknown" -> "admitting"
      [] admission[x] = "capacity_activate_unknown" -> "activating"
      [] OTHER -> "denied"

(* _monotonic_admission: exact completion, or one enrichment of an unknown. *)
Monotonic(previous, fresh) ==
    \/ previous \in {"none", fresh}
    \/ previous = "admitting" /\ fresh = "activating"
    \/ previous = "activating" /\ fresh = "admitted"

Goes(c, pc) == submitter' = [submitter EXCEPT ![c].pc = pc]

(* Where submit goes on with the execution it was given back. *)
After(state) ==
    CASE state \in {"awaiting_output"} -> "capture"
      [] state \in {"output_captured"} -> "claim"
      [] state \in {"submit_claimed", "submission_unknown"} -> "lookup"
      [] OTHER -> "idle"

(* submit: reconcile reads the row first; a reconciled execution is returned as it is. *)
SubmitBegins(c, x) ==
    /\ submitter[c].pc = "idle" /\ WriterFree /\ x \in Begun
    /\ submitter' = [submitter EXCEPT ![c] = [Idle EXCEPT !.x = x,
          !.pc = IF execution[x].state \in {"awaiting_admission", "admission_unknown"} THEN "evidence"
                 ELSE After(execution[x].state)]]
    /\ UNCHANGED <<execution, ledger>>

(* reconcile reads the admission and its receipts, and the source. *)
ReadEvidence(c) ==
    /\ submitter[c].pc = "evidence"
    /\ submitter' = [submitter EXCEPT ![c].pc = "apply", ![c].read = EvidenceOf(submitter[c].x),
                                      ![c].source = source]
    /\ UNCHANGED <<execution, ledger>>

(* reconcile's transaction: only for an execution that still awaits its admission. *)
ApplyEvidence(c) ==
    LET x == submitter[c].x
        row == execution[x]
        fresh == submitter[c].read
    IN
    /\ submitter[c].pc = "apply" /\ WriterFree
    /\ execution' =
          IF fresh = "denied" THEN Blocked(x)
          ELSE IF row.state \notin {"awaiting_admission", "admission_unknown"} \/ row.cancel THEN execution
          ELSE IF ~Monotonic(row.evidence, fresh) THEN Blocked(x)
          ELSE IF fresh # "admitted"
            THEN [execution EXCEPT ![x].evidence = fresh, ![x].state = "admission_unknown"]
          ELSE [execution EXCEPT ![x].evidence = fresh, ![x].source = submitter[c].source,
                                 ![x].state = "awaiting_output"]
    /\ Goes(c, After(execution'[x].state))
    /\ UNCHANGED ledger

(* _capture_output: the source and the output are read outside, and captured once. *)
ReadOutput(c) ==
    LET x == submitter[c].x IN
    /\ submitter[c].pc = "capture" /\ WriterFree
    /\ IF source # execution[x].source \/ x \notin effects
         THEN execution' = Blocked(x) /\ Goes(c, "idle")
         ELSE UNCHANGED execution /\ Goes(c, "captured")
    /\ UNCHANGED ledger

CaptureOutput(c) ==
    LET x == submitter[c].x IN
    /\ submitter[c].pc = "captured" /\ WriterFree
    /\ execution' = IF execution[x].state = "awaiting_output" /\ ~execution[x].cancel
                      THEN [execution EXCEPT ![x].state = "output_captured"] ELSE execution
    /\ Goes(c, After(execution'[x].state))
    /\ UNCHANGED ledger

(* _claim_submission: the source is read again, outside ... *)
ReadSource(c) ==
    LET x == submitter[c].x IN
    /\ submitter[c].pc = "claim" /\ WriterFree
    /\ IF source # execution[x].source
         THEN execution' = Blocked(x) /\ Goes(c, "idle")
         ELSE UNCHANGED execution /\ Goes(c, "claimed")
    /\ UNCHANGED ledger

(* ... and one caller claims the one first submission. *)
ClaimSubmission(c) ==
    LET x == submitter[c].x
        wins == execution[x].state = "output_captured" /\ ~execution[x].cancel
    IN
    /\ submitter[c].pc = "claimed" /\ WriterFree
    /\ execution' = IF wins THEN [execution EXCEPT ![x].state = "submit_claimed", ![x].started = FALSE]
                    ELSE execution
    /\ submitter' = [submitter EXCEPT ![c].mine = wins,
          ![c].pc = IF execution'[x].state \in {"submit_claimed", "submission_unknown"} THEN "lookup"
                    ELSE "idle"]
    /\ UNCHANGED ledger

(* _record_submission *)
Submitted(x) == [execution EXCEPT ![x].submitted = TRUE, ![x].state = "submitted"]

(* _recover_or_submit: a receipt of the Run store is recorded, else only the claimant goes on. *)
LookupReceipt(c) ==
    LET x == submitter[c].x IN
    /\ submitter[c].pc = "lookup" /\ WriterFree
    /\ Goes(c, IF x \in accepted THEN "record" ELSE "start")
    /\ UNCHANGED <<execution, ledger>>

StartSubmission(c) ==
    LET x == submitter[c].x
        row == execution[x]
        stops == row.state = "submission_unknown" \/ row.cancel \/ ~submitter[c].mine
    IN
    /\ submitter[c].pc = "start" /\ WriterFree
    /\ execution' = IF stops THEN execution
                    ELSE IF row.started THEN [execution EXCEPT ![x].state = "submission_unknown"]
                    ELSE [execution EXCEPT ![x].started = TRUE]
    /\ Goes(c, IF stops \/ row.started THEN "idle" ELSE "admit")
    /\ UNCHANGED ledger

(* _submit_planning_execution_plan, first transaction: the execution admits its intent. *)
AdmitIntent(c) ==
    LET x == submitter[c].x
        i == IntentOf[x]
    IN
    /\ submitter[c].pc = "admit"
    /\ IF intents[i] \in {None, x}
         THEN intents' = [intents EXCEPT ![i] = x] /\ Goes(c, "cross") /\ UNCHANGED execution
         ELSE WriterFree /\ execution' = Blocked(x) /\ Goes(c, "idle") /\ UNCHANGED intents
    /\ UNCHANGED <<admission, claims, capacity, advancing, effects, source, accepted>>

(***************************************************************************)
(* submit_plan under _submission_fence: execution, Run and source are held *)
(* through the commit.  The Run may refuse: its term or plan went on.      *)
(***************************************************************************)
CrossIntoRun(c) ==
    LET x == submitter[c].x IN
    /\ submitter[c].pc = "cross" /\ WriterFree
    /\ \/ /\ ~execution[x].cancel /\ source = execution[x].source
          /\ accepted' = accepted \union {x}
          /\ \E pc \in {"record", "unknown"} : Goes(c, pc)
          /\ UNCHANGED execution
       \/ execution' = Blocked(x) /\ Goes(c, "idle") /\ UNCHANGED accepted
    /\ UNCHANGED <<admission, claims, capacity, advancing, effects, source, intents>>

(* An exception of the Run store leaves the outcome unknown. *)
LoseAnswer(c) ==
    LET x == submitter[c].x IN
    /\ submitter[c].pc = "unknown" /\ WriterFree
    /\ execution' = IF execution[x].submitted THEN execution
                    ELSE [execution EXCEPT ![x].state = "submission_unknown"]
    /\ Goes(c, "idle")
    /\ UNCHANGED ledger

RecordSubmission(c) ==
    /\ submitter[c].pc = "record" /\ WriterFree
    /\ execution' = Submitted(submitter[c].x)
    /\ Goes(c, "idle")
    /\ UNCHANGED ledger

(* The caller's process ends between two steps. *)
SubmitStops(c) ==
    /\ submitter[c].pc # "idle"
    /\ submitter' = [submitter EXCEPT ![c] = Idle]
    /\ UNCHANGED <<execution, ledger>>

ExecutionsNext ==
    \/ \E x \in Executions : Begin(x) \/ Cancel(x) \/ AdvanceBegins(x) \/ RecoverReceipts(x) \/ Effect(x)
    \/ AdvanceDenies \/ ClaimBudget \/ DispatchAdmit \/ AdvanceRecords \/ AdvanceStops \/ SourceChanges
    \/ \E call \in {"admit", "activate"}, d \in {"granted", "refused"} : CapacityDecides(call, d)
    \/ \E c \in Submitters :
          \/ \E x \in Executions : SubmitBegins(c, x)
          \/ ReadEvidence(c) \/ ApplyEvidence(c) \/ ReadOutput(c) \/ CaptureOutput(c)
          \/ ReadSource(c) \/ ClaimSubmission(c) \/ LookupReceipt(c) \/ StartSubmission(c)
          \/ AdmitIntent(c) \/ CrossIntoRun(c) \/ LoseAnswer(c) \/ RecordSubmission(c) \/ SubmitStops(c)

ExecutionsSpec == ExecutionsInit /\ [][ExecutionsNext]_execVars

-----------------------------------------------------------------------------
(***************************************************************************)
(* A plan is paid for: the executions' claims stay within the planning     *)
(* budget, none claims twice whatever was interrupted and recovered, what  *)
(* Capacity admitted was claimed before, and a plan is only in the Run if  *)
(* its execution was admitted and activated.  And cancelling wins or comes *)
(* too late, nothing between: from the step that records a cancellation    *)
(* on, the execution has no further transport effect and no plan of it     *)
(* enters the Run, however far a submission had come.  Behaviour: advance, *)
(* its recovery by receipts, cancel and submit of planning executions.     *)
(***************************************************************************)
PlansArePaidFor ==
    /\ [](/\ Used <= Budget
          /\ \A x \in Executions :
                /\ claims[x] <= 1
                /\ capacity[x].admit # None => claims[x] = 1
                /\ x \in accepted => capacity[x].activate = "granted" /\ x \in effects)
    /\ [][\A x \in Begun : execution[x].cancel =>
             /\ x \in accepted' => x \in accepted
             /\ x \in effects' => x \in effects]_execVars

(***************************************************************************)
(* A cancellation never promises that it cancelled a plan (the comment in  *)
(* cancel): an execution said to be cancelled has no plan in the Run.      *)
(***************************************************************************)
CancelledHasNoPlan ==
    \A x \in Begun : execution[x].state = "cancelled" => x \notin accepted
=============================================================================
