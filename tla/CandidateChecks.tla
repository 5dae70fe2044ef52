--------------------------- MODULE CandidateChecks ---------------------------
(***************************************************************************)
(* The validation of one worker operation's candidate: CandidateChecks in  *)
(* orchestration/candidate_checks.py, the subject's transitions in         *)
(* candidate_subjects.py, ApprovedReviewerBindings in reviewer_binding.py, *)
(* and FixedCheckRunner in isolation/check_runner.py.                      *)
(*                                                                         *)
(* The ledger of operations, the host, the runner's directory and the      *)
(* candidates commit separately.  Controllers are any number of processes  *)
(* that read, stop and come late: each of their transactions is an action, *)
(* enabled by what some controller may have read before.  The child of a   *)
(* check is one process and has a program counter.  A binding of reviewers *)
(* makes a new candidate of the same content, whose checks run again.      *)
(***************************************************************************)
EXTENDS Common, Naturals, FiniteSets, Sequences

CONSTANTS
    CheckCount,     \* the checks of the approved policy, in their order
    Qualifications, \* what is compiled from the reviewers' qualifications, as time goes on
    MaxSubjects,    \* bound on the subjects of the operation
    MaxTransitions, \* bound on the staged transitions
    CheckBudget     \* processes the Run's budget leaves to checks

Bindings == {Qualifications[n] : n \in 1 .. Len(Qualifications)}
SubjectRow == [revision : Nat, binding : Bindings \union {None}]
TransitionRow ==
    [id : Nat, phase : {"prepared", "rebind_claimed", "ready", "installed"}, semantic : Bindings, expected : Nat]
CheckerStates == {"registered", "guarded", "claimed", "bound", "running", "published", "over"}
Stops == {"not_started", "confirmed", "unknown"}

ASSUME ChecksAssumption ==
    /\ CheckCount \in Nat /\ MaxSubjects \in Nat \ {0} /\ Len(Qualifications) \in Nat \ {0}
    /\ None \notin SubjectRow \union TransitionRow
    /\ None \notin CheckerStates \union Stops \union {"ended", "judged"}

VARIABLES
    subject,        \* validation.subject: its revision, and the semantic of its binding; None before
    rows,           \* the runs of every cycle, by <<revision of the subject, check>>
    transition,     \* subject_transition; None when there is none
    transitions,    \* transitions staged so far
    claimers,       \* transitions whose claiming invocation is still running
    series,         \* the candidate's series: for each revision the transition that made it
    checkHosts,     \* RunnerHost's attempt of a row
    checkers,       \* where the child of a row stands
    results,        \* the runner's directory of a row
    submitted,      \* rows whose claimed evidence is being sent
    checkEvidence,  \* check evidence in the CandidateStore
    around          \* cancel_requested, the approval, place in Qualifications, the deadline

checkVars == <<subject, rows, transition, transitions, claimers, series, checkHosts, checkers, results,
               submitted, checkEvidence, around>>

Rows == (1 .. MaxSubjects) \X (1 .. CheckCount)

ChecksInit ==
    /\ subject = None /\ rows = << >> /\ transition = None /\ transitions = 0 /\ claimers = {}
    /\ series = <<0>> /\ submitted = {} /\ checkEvidence = << >>
    /\ checkHosts = [r \in Rows |-> None] /\ checkers = [r \in Rows |-> None]
    /\ results = [r \in Rows |-> [claimed |-> FALSE, cancelled |-> FALSE, native |-> None, stop |-> None]]
    /\ around = [cancel |-> FALSE, approved |-> TRUE, qualified |-> 1, late |-> FALSE]

HasRow(r) == r \in DOMAIN rows
SaveRow(r, row) == rows' = WithRow(rows, r, row)

(* Processes run by the Run: a claim per row that left prepared. *)
Spent == {r \in DOMAIN rows : rows[r].claimed}

-----------------------------------------------------------------------------
(* The subject. *)

(* The semantic digest compiled now; None when no reviewer qualifies. *)
Qualified == Qualifications[around.qualified]

TransitionPending == transition # None /\ transition.phase # "installed"
CheckIsCurrent(r) == r[1] = subject.revision
CurrentRows == {r \in DOMAIN rows : CheckIsCurrent(r)}

(* The stop of a check is known: by its observation, or by the clean-up of one cancelled. *)
StopKnown(r) ==
    \/ rows[r].observed \in {"confirmed", "not_started"}
    \/ rows[r].cleaned

(* assert_cycle_quiescent *)
Quiescent ==
    \A r \in CurrentRows :
        \/ ~rows[r].native /\ rows[r].phase \in {"prepared", "claimed", "host_prepared"}
        \/ StopKnown(r)

(* What _prepare and _compiled ask first: nobody asked to cancel, and the approval stands. *)
Preparable == ~around.cancel /\ around.approved

(* current_subject, and the gate's reasons that _prepare refuses: no newer candidate. *)
SubjectStands(revision) == revision = Len(series)

(* _current_run: the installed binding is compiled again and unchanged. *)
BindingStands(binding) == binding = None \/ binding = Qualified

FreshRow ==
    [phase |-> "prepared", claimed |-> FALSE, native |-> FALSE, observed |-> None,
     cleaned |-> FALSE, submit |-> FALSE, evidence |-> None]

(* advance on a candidate without validation. *)
StartValidation ==
    /\ subject = None /\ Preparable
    /\ subject' = [revision |-> 1, binding |-> None]
    /\ rows' = [r \in {1} \X (1 .. CheckCount) |-> FreshRow]
    /\ UNCHANGED <<transition, transitions, claimers, series, checkHosts, checkers, results, submitted, checkEvidence, around>>

(* _install_subject: the rows of the old subject are archived. *)
InstallSubject ==
    /\ transition # None /\ transition.phase = "ready"
    /\ Preparable /\ transition.semantic = Qualified
    /\ transition.expected = subject.revision /\ Quiescent
    /\ SubjectStands(subject.revision + 1) /\ series[subject.revision + 1] = transition.id
    /\ subject' = [revision |-> subject.revision + 1, binding |-> transition.semantic]
    /\ transition' = [transition EXCEPT !.phase = "installed"]
    /\ rows' = [r \in DOMAIN rows \union {subject.revision + 1} \X (1 .. CheckCount) |->
                  IF HasRow(r) THEN rows[r] ELSE FreshRow]
    /\ UNCHANGED <<transitions, claimers, series, checkHosts, checkers, results, submitted, checkEvidence, around>>

-----------------------------------------------------------------------------
(* ApprovedReviewerBindings *)

(* _compiled gives a binding. *)
Compiles == subject # None /\ Preparable /\ Qualified # None

NewTransition == [id |-> transitions + 1, phase |-> "prepared", semantic |-> Qualified, expected |-> subject.revision]

(* advance without a transition, or with an installed one whose sources have changed. *)
StageTransition ==
    /\ Compiles /\ ~TransitionPending /\ Quiescent /\ transitions < MaxTransitions /\ subject.revision < MaxSubjects
    /\ transition # None => transition.semantic # Qualified
    /\ transition' = NewTransition /\ transitions' = transitions + 1
    /\ UNCHANGED <<subject, rows, claimers, series, checkHosts, checkers, results, submitted, checkEvidence, around>>

(* replace_prepared_transition: only what was not claimed. *)
ReplaceTransition ==
    /\ Compiles /\ transition # None /\ transition.phase = "prepared" /\ Quiescent /\ transitions < MaxTransitions
    /\ transition.semantic # Qualified
    /\ transition' = NewTransition /\ transitions' = transitions + 1
    /\ UNCHANGED <<subject, rows, claimers, series, checkHosts, checkers, results, submitted, checkEvidence, around>>

(* current_locked *)
TransitionStands ==
    Compiles /\ transition.semantic = Qualified /\ transition.expected = subject.revision

(* advance commits its claim of the prepared transition. *)
ClaimRebind ==
    /\ transition # None /\ transition.phase = "prepared" /\ Quiescent /\ TransitionStands
    /\ transition' = [transition EXCEPT !.phase = "rebind_claimed"]
    /\ claimers' = claimers \union {transition.id}
    /\ UNCHANGED <<subject, rows, transitions, series, checkHosts, checkers, results, submitted, checkEvidence, around>>

(* The same invocation guards again and sends the compare-and-set, whose answer may be lost. *)
RebindReviewersOnce(id) ==
    /\ id \in claimers /\ claimers' = claimers \ {id}
    /\ transition.id = id /\ transition.phase = "rebind_claimed"
    /\ TransitionStands /\ Quiescent /\ SubjectStands(subject.revision)
    /\ series' = Append(series, id)
    /\ UNCHANGED <<subject, rows, transition, transitions, checkHosts, checkers, results, submitted, checkEvidence, around>>

(* The invocation stops, or a guard refuses: the claim stays consumed. *)
ClaimerStops(id) ==
    /\ id \in claimers /\ claimers' = claimers \ {id}
    /\ UNCHANGED <<subject, rows, transition, transitions, series, checkHosts, checkers, results, submitted, checkEvidence, around>>

(* reconcile: the receipt is looked up under the transition's key. *)
MarkReady ==
    /\ transition # None /\ transition.phase = "rebind_claimed"
    /\ \E n \in DOMAIN series : series[n] = transition.id
    /\ transition' = [transition EXCEPT !.phase = "ready"]
    /\ UNCHANGED <<subject, rows, transitions, claimers, series, checkHosts, checkers, results, submitted, checkEvidence, around>>

-----------------------------------------------------------------------------
(* advance: one step of the first row that is not recorded. *)

MayAdvance == subject # None /\ ~TransitionPending /\ Preparable
                 /\ SubjectStands(subject.revision) /\ BindingStands(subject.binding)

FirstPending(r) ==
    /\ HasRow(r) /\ CheckIsCurrent(r) /\ rows[r].phase # "recorded"
    /\ \A q \in CurrentRows : q[2] < r[2] => rows[q].phase = "recorded"

(* _check_budget *)
ProcessCurrent(r) == r \in Spent /\ ~around.late

(* _claim, with claim_process in the same transaction. *)
ClaimCheck(r) ==
    /\ MayAdvance /\ FirstPending(r) /\ rows[r].phase = "prepared"
    /\ Cardinality(Spent) < CheckBudget /\ ~around.late
    /\ SaveRow(r, [rows[r] EXCEPT !.phase = "claimed", !.claimed = TRUE])
    /\ UNCHANGED <<subject, transition, transitions, claimers, series, checkHosts, checkers, results, submitted, checkEvidence, around>>

(* _prepare_host: the host commits, and the ledger does or does not. *)
PrepareCheckHost(r) ==
    /\ MayAdvance /\ FirstPending(r) /\ rows[r].phase = "claimed" /\ ProcessCurrent(r)
    /\ checkHosts' = [checkHosts EXCEPT ![r] = "prepared"]
    /\ \/ SaveRow(r, [rows[r] EXCEPT !.phase = "host_prepared"])
       \/ checkHosts[r] = None /\ UNCHANGED rows
    /\ UNCHANGED <<subject, transition, transitions, claimers, series, checkers, results, submitted, checkEvidence, around>>

ClaimStart(r) ==
    /\ MayAdvance /\ FirstPending(r) /\ rows[r].phase = "host_prepared" /\ ProcessCurrent(r)
    /\ SaveRow(r, [rows[r] EXCEPT !.phase = "host_start_claimed"])
    /\ UNCHANGED <<subject, transition, transitions, claimers, series, checkHosts, checkers, results, submitted, checkEvidence, around>>

(* _effect_guard *)
CheckGuard(r) == MayAdvance /\ HasRow(r) /\ CheckIsCurrent(r) /\ ProcessCurrent(r)

(* _start_host by the invocation that claimed it, after its commit. *)
StartCheckHost(r) ==
    /\ CheckGuard(r) /\ rows[r].phase = "host_start_claimed" /\ ~rows[r].native
    /\ checkHosts[r] = "prepared"
    /\ checkHosts' = [checkHosts EXCEPT ![r] = "running"]
    /\ checkers' = [checkers EXCEPT ![r] = "registered"]
    /\ UNCHANGED <<subject, rows, transition, transitions, claimers, series, results, submitted, checkEvidence, around>>

RecordCheckStarted(r) ==
    /\ HasRow(r) /\ rows[r].phase = "host_start_claimed" /\ checkHosts[r] \in {"running", "ended"}
    /\ checkers[r] # None
    /\ SaveRow(r, [rows[r] EXCEPT !.phase = "host_started"])
    /\ UNCHANGED <<subject, transition, transitions, claimers, series, checkHosts, checkers, results, submitted, checkEvidence, around>>

-----------------------------------------------------------------------------
(* The child: consume_check, and FixedCheckRunner.run. *)

CheckerGoes(r, from, to) == checkers[r] = from /\ checkers' = [checkers EXCEPT ![r] = to]

(* All guards pass once and are released. *)
GuardCheck(r) ==
    /\ CheckerGoes(r, "registered", "guarded")
    /\ CheckGuard(r) /\ checkHosts[r] = "running" /\ ~rows[r].native /\ rows[r].observed = None
    /\ UNCHANGED <<subject, rows, transition, transitions, claimers, series, checkHosts, results, submitted, checkEvidence, around>>

(* native_claim: committed once, before the runner is called. *)
ClaimNative(r) ==
    /\ CheckerGoes(r, "guarded", "claimed")
    /\ ~TransitionPending /\ CheckIsCurrent(r) /\ ~around.cancel
    /\ ~rows[r].native /\ rows[r].phase \in {"host_start_claimed", "host_started"}
    /\ SaveRow(r, [rows[r] EXCEPT !.native = TRUE, !.phase = "native_claimed"])
    /\ UNCHANGED <<subject, transition, transitions, claimers, series, checkHosts, results, submitted, checkEvidence, around>>

(* run: the directory is the runner's own claim. *)
ClaimDirectory(r) ==
    /\ CheckerGoes(r, "claimed", "bound") /\ ~results[r].claimed
    /\ results' = [results EXCEPT ![r].claimed = TRUE]
    /\ UNCHANGED <<subject, rows, transition, transitions, claimers, series, checkHosts, submitted, checkEvidence, around>>

(* _native_guard with the directory's lock: held until the process is there. *)
NativeGuard(r) ==
    /\ CheckGuard(r) /\ rows[r].native /\ checkHosts[r] = "running" /\ ~results[r].cancelled

StartCheck(r) ==
    /\ CheckerGoes(r, "bound", "running") /\ NativeGuard(r)
    /\ results' = [results EXCEPT ![r].native = "running"]
    /\ UNCHANGED <<subject, rows, transition, transitions, claimers, series, checkHosts, submitted, checkEvidence, around>>

(* The native process ends, by itself or by the runner's deadline. *)
CheckEnds(r) ==
    /\ results[r].native = "running"
    /\ results' = [results EXCEPT ![r].native = "ended"]
    /\ UNCHANGED <<subject, rows, transition, transitions, claimers, series, checkHosts, checkers, submitted, checkEvidence, around>>

(* result.json: not started when a guard refused, confirmed only when the process is seen gone. *)
PublishResult(r) ==
    /\ \/ /\ CheckerGoes(r, "bound", "published")
          /\ results' = [results EXCEPT ![r].stop = "not_started"]
       \/ /\ CheckerGoes(r, "running", "published")
          /\ \E stop \in {"confirmed", "unknown"} :
                /\ stop = "confirmed" => results[r].native = "ended"
                /\ results' = [results EXCEPT ![r].stop = stop]
    /\ UNCHANGED <<subject, rows, transition, transitions, claimers, series, checkHosts, submitted, checkEvidence, around>>

(* An exception of the runner after the claim: the row waits for reconciliation. *)
CheckerFails(r) ==
    /\ checkers[r] \in {"claimed", "bound", "published"} /\ checkHosts[r] = "running"
    /\ checkers' = [checkers EXCEPT ![r] = "over"]
    /\ checkHosts' = [checkHosts EXCEPT ![r] = "ended"]
    /\ SaveRow(r, [rows[r] EXCEPT !.phase = "reconciliation_required"])
    /\ UNCHANGED <<subject, transition, transitions, claimers, series, results, submitted, checkEvidence, around>>

(* The child ends, or is gone without a word. *)
CheckerStops(r) ==
    /\ checkers[r] \notin {None, "over"}
    /\ checkers' = [checkers EXCEPT ![r] = "over"]
    /\ checkHosts' = [checkHosts EXCEPT ![r] = "ended"]
    /\ UNCHANGED <<subject, rows, transition, transitions, claimers, series, results, submitted, checkEvidence, around>>

-----------------------------------------------------------------------------
(* FixedCheckRunner.inspect: what result.json says of the stop. *)
Inspected(r) == results[r].stop

(***************************************************************************)
(* _save_observation, by the child, reconcile or _cleanup, of any cycle    *)
(* and whatever the row has become since it was read: the phase goes back  *)
(* to observed.                                                            *)
(***************************************************************************)
SaveObservation(r) ==
    /\ HasRow(r) /\ rows[r].native /\ Inspected(r) # None
    /\ SaveRow(r, [rows[r] EXCEPT !.observed = Inspected(r), !.phase = "observed"])
    /\ rows' # rows
    /\ UNCHANGED <<subject, transition, transitions, claimers, series, checkHosts, checkers, results, submitted, checkEvidence, around>>

(* A slip in _submit_evidence: it goes by the phase and not by the claim. *)
ClaimEvidence_Phase(r) ==
    /\ HasRow(r) /\ rows[r].phase = "observed"
    /\ SaveRow(r, [rows[r] EXCEPT !.submit = TRUE, !.phase = "evidence_submit_claimed"])
    /\ submitted' = submitted \union {r}
    /\ UNCHANGED <<subject, transition, transitions, claimers, series, checkHosts, checkers, results, checkEvidence, around>>

(* _submit_evidence: the once-claim; archived rows by reconcile. *)
ClaimEvidence(r) ==
    /\ HasRow(r) /\ rows[r].observed # None /\ ~rows[r].submit
    /\ SaveRow(r, [rows[r] EXCEPT !.submit = TRUE, !.phase = "evidence_submit_claimed"])
    /\ submitted' = submitted \union {r}
    /\ UNCHANGED <<subject, transition, transitions, claimers, series, checkHosts, checkers, results, checkEvidence, around>>

(* record_check, by the claiming invocation alone: passed or failed by the exit code, or unknown. *)
SubmitEvidence(r) ==
    /\ r \in submitted /\ submitted' = submitted \ {r}
    /\ \E status \in {"judged", "unknown"} :
          /\ rows[r].observed # "confirmed" => status = "unknown"
          /\ checkEvidence' = Append(checkEvidence, [row |-> r, status |-> status])
    /\ UNCHANGED <<subject, rows, transition, transitions, claimers, series, checkHosts, checkers, results, around>>

SubmitterStops(r) ==
    /\ r \in submitted /\ submitted' = submitted \ {r}
    /\ UNCHANGED <<subject, rows, transition, transitions, claimers, series, checkHosts, checkers, results, checkEvidence, around>>

(* _link_evidence, with the answer or by _recover_evidence's lookup. *)
LinkEvidence(r) ==
    /\ HasRow(r) /\ rows[r].submit
    /\ \E n \in DOMAIN checkEvidence :
          /\ checkEvidence[n].row = r
          /\ SaveRow(r, [rows[r] EXCEPT !.evidence = checkEvidence[n].status, !.phase = "recorded"])
    /\ rows' # rows
    /\ UNCHANGED <<subject, transition, transitions, claimers, series, checkHosts, checkers, results, submitted, checkEvidence, around>>

-----------------------------------------------------------------------------
(* Cancellation: the intent is the operation's; reconcile cleans up row by row. *)
CancelChecks ==
    /\ subject # None /\ ~around.cancel
    /\ around' = [around EXCEPT !.cancel = TRUE]
    /\ UNCHANGED <<subject, rows, transition, transitions, claimers, series, checkHosts, checkers, results, submitted, checkEvidence>>

(* The last transaction of reconcile; the cycles' phases it summarizes follow from the rows. *)
CancelRows ==
    /\ around.cancel
    /\ rows' = [r \in DOMAIN rows |->
                  IF rows[r].phase \in {"prepared", "claimed"} THEN [rows[r] EXCEPT !.phase = "cancelled"] ELSE rows[r]]
    /\ rows' # rows
    /\ UNCHANGED <<subject, transition, transitions, claimers, series, checkHosts, checkers, results, submitted, checkEvidence, around>>

(* _cleanup: runner.cancel marks the directory and kills what was started. *)
CancelNative(r) ==
    /\ around.cancel /\ HasRow(r) /\ rows[r].native /\ results[r].claimed /\ ~results[r].cancelled
    /\ results' = [results EXCEPT ![r].cancelled = TRUE,
                                  ![r].native = IF @ = None THEN None ELSE "ended"]
    /\ UNCHANGED <<subject, rows, transition, transitions, claimers, series, checkHosts, checkers, submitted, checkEvidence, around>>

(* _cleanup: the host is stopped unless a native claim has no result yet. *)
CancelCheckHost(r) ==
    /\ around.cancel /\ HasRow(r) /\ checkHosts[r] \in {"prepared", "running"}
    /\ rows[r].phase \notin {"prepared", "claimed", "cancelled"}
    /\ ~rows[r].native \/ rows[r].observed # None
    /\ checkHosts' = [checkHosts EXCEPT ![r] = "ended"]
    /\ checkers' = [checkers EXCEPT ![r] = IF @ = None THEN None ELSE "over"]
    /\ UNCHANGED <<subject, rows, transition, transitions, claimers, series, results, submitted, checkEvidence, around>>

(* Its last transaction: what the runner or the host confirmed. *)
RecordCleanup(r) ==
    /\ around.cancel /\ HasRow(r) /\ ~rows[r].cleaned
    /\ \/ rows[r].native /\ results[r].stop \in {"confirmed", "not_started"} /\ results[r].cancelled
       \/ ~rows[r].native /\ checkHosts[r] = "ended"
    /\ SaveRow(r, [rows[r] EXCEPT !.cleaned = TRUE])
    /\ UNCHANGED <<subject, transition, transitions, claimers, series, checkHosts, checkers, results, submitted, checkEvidence, around>>

(* The plan is replaced, qualifications come and go, time passes. *)
SurroundingsChange ==
    /\ \/ around.approved /\ around' = [around EXCEPT !.approved = FALSE]
       \/ ~around.late /\ around' = [around EXCEPT !.late = TRUE]
       \/ around.qualified < Len(Qualifications) /\ around' = [around EXCEPT !.qualified = @ + 1]
    /\ UNCHANGED <<subject, rows, transition, transitions, claimers, series, checkHosts, checkers, results, submitted, checkEvidence>>

ChecksNext ==
    \/ StartValidation \/ InstallSubject \/ StageTransition \/ ReplaceTransition \/ ClaimRebind
    \/ MarkReady \/ CancelChecks \/ CancelRows \/ SurroundingsChange
    \/ \E id \in 1 .. MaxTransitions : RebindReviewersOnce(id) \/ ClaimerStops(id)
    \/ \E r \in Rows :
          \/ ClaimCheck(r) \/ PrepareCheckHost(r) \/ ClaimStart(r) \/ StartCheckHost(r) \/ RecordCheckStarted(r)
          \/ GuardCheck(r) \/ ClaimNative(r) \/ ClaimDirectory(r) \/ StartCheck(r) \/ CheckEnds(r)
          \/ PublishResult(r) \/ CheckerFails(r) \/ CheckerStops(r)
          \/ SaveObservation(r) \/ ClaimEvidence(r) \/ SubmitEvidence(r) \/ SubmitterStops(r) \/ LinkEvidence(r)
          \/ CancelNative(r) \/ CancelCheckHost(r) \/ RecordCleanup(r)

ChecksSpec == ChecksInit /\ [][ChecksNext]_checkVars

-----------------------------------------------------------------------------
(* A judged check is one that ran to its end, and no check has two results. *)
ResultsAreReal ==
    /\ \A m, n \in DOMAIN checkEvidence : checkEvidence[m].row = checkEvidence[n].row => m = n
    /\ \A r \in DOMAIN rows : rows[r].evidence = "judged" => results[r].native = "ended" /\ results[r].stop = "confirmed"

(* Candidates of the series: one per subject, and the one a claimed transition made. *)
SeriesIsAccounted ==
    /\ \A m, n \in DOMAIN series : series[m] = series[n] => m = n
    /\ subject # None =>
          \/ SubjectStands(subject.revision)
          \/ /\ SubjectStands(subject.revision + 1) /\ transition.expected = subject.revision
             /\ transition.phase \in {"rebind_claimed", "ready"}
             /\ series[subject.revision + 1] = transition.id

(***************************************************************************)
(* A check runs only for the subject in force: nothing runs for an         *)
(* archived subject or while a transition to the next one is pending, and  *)
(* nothing starts once the operation is cancelled, its approval replaced   *)
(* or its qualifications changed.  A check starts once, its evidence is    *)
(* submitted once although its row goes back to observed, and a judgement  *)
(* means that the process was seen to end.  A transition makes one candidate at  *)
(* most, and the newest candidate is the subject's or the pending          *)
(* transition's.  Behaviour: assert_cycle_quiescent, _effect_guard,        *)
(* consume_check, _native_guard, _submit_evidence, _install_subject,       *)
(* ApprovedReviewerBindings.advance, FixedCheckRunner.run.                 *)
(***************************************************************************)
ChecksAreCurrent ==
    /\ [](/\ \A r \in DOMAIN rows : results[r].native = "running" => CheckIsCurrent(r) /\ ~TransitionPending
          /\ ResultsAreReal /\ SeriesIsAccounted)
    /\ [][\A r \in Rows : results[r].native # results'[r].native /\ results'[r].native = "running" =>
             /\ results[r].native = None /\ ~around.cancel /\ around.approved /\ ~around.late
             /\ BindingStands(subject.binding)]_checkVars
==============================================================================
