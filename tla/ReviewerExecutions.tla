-------------------------- MODULE ReviewerExecutions --------------------------
(***************************************************************************)
(* ReviewerExecutionIntents in orchestration/reviewer_execution_intent.py, *)
(* on top of the operations of TaskExecutions: a ledger of its own with    *)
(* the preparation of a reviewer's host, and the one claim of the observer *)
(* that runs in it.  Host and ledger commit separately, under the guard of *)
(* the operation or after it; the ledger is marked cancelled after the     *)
(* operation is.  Whoever starts the prepared host is not in the code.     *)
(***************************************************************************)
EXTENDS TaskExecutions

CONSTANT ReviewKeys     \* command keys

VARIABLE reviews        \* reviewer_executions, by the reviewer's operation

reviewVars == <<taskVars, reviews>>

ReviewsInit == TasksInit /\ reviews = << >>

Prepared(o) == o \in DOMAIN reviews

(***************************************************************************)
(* reviewer_reserved_effect_guard: the reservation with its activation,    *)
(* the worker's lineage, the route, the hold and the Run's budget, held    *)
(* until the receiving ledger or host has written.                         *)
(***************************************************************************)
ReviewerGuard(o) ==
    /\ Exists(o)
    /\ LET row == Refreshed(o, operations[o]) IN
       /\ ~row.cancel /\ row.state = "reserved" /\ row.activation = "revalidated"
       /\ Reviewable(row.worker)
    /\ StillRouted(o) /\ capacity[o].hold = "active" /\ AdmissionAllowed

(* compile_reviewer_input: the checks the worker's candidate passed last. *)
ReviewInput(o) == operations[operations[o].worker].validated

(* A slip in _current_guard: the operation's reservation is not guarded again. *)
CurrentGuard_Ledger(o) == ReviewInput(o) = reviews[o].input /\ ~reviews[o].cancel

(* _current_guard: the input is compiled again and is the prepared one. *)
CurrentGuard(o) == ReviewerGuard(o) /\ ReviewInput(o) = reviews[o].input

(* prepare: one row per operation and per key. *)
PrepareReview(o, k) ==
    /\ ~Prepared(o) /\ \A p \in DOMAIN reviews : reviews[p].key # k
    /\ ReviewerGuard(o)
    /\ reviews' = WithRow(reviews, o,
          [key |-> k, input |-> ReviewInput(o), phase |-> "prepared", host |-> FALSE,
           claim |-> FALSE, cancel |-> FALSE])
    /\ UNCHANGED taskVars

(* freeze_launch: host.prepare and its control, by a caller that read a row not cancelled then. *)
PrepareReviewHost(o) ==
    /\ Prepared(o) /\ CurrentGuard(o) /\ hosts[o] = None
    /\ hosts' = [hosts EXCEPT ![o] = "prepared"]
    /\ UNCHANGED <<operations, capacity, budget, grants, child, frozen, world, effects, reviews>>

(* Its last transaction, however late: a cancellation keeps its phase. *)
RecordReviewHost(o) ==
    /\ Prepared(o) /\ hosts[o] # None
    /\ reviews' = [reviews EXCEPT ![o].host = TRUE,
                                  ![o].phase = IF reviews[o].cancel THEN @ ELSE "host_prepared"]
    /\ reviews' # reviews
    /\ UNCHANGED taskVars

StartReviewHost(o) ==
    /\ hosts[o] = "prepared"
    /\ hosts' = [hosts EXCEPT ![o] = "running"]
    /\ UNCHANGED <<operations, capacity, budget, grants, child, frozen, world, effects, reviews>>

(* claim_registered_observer: guards, runner and row are read again at the write. *)
ClaimObserver(o) ==
    /\ Prepared(o) /\ reviews[o].host /\ CurrentGuard(o) /\ hosts[o] = "running"
    /\ ~reviews[o].cancel /\ ~reviews[o].claim
    /\ reviews' = [reviews EXCEPT ![o].claim = TRUE, ![o].phase = "observer_claimed"]
    /\ UNCHANGED taskVars

(* The end of cancel: the operation was cancelled by a call of its own before. *)
MarkReviewCancelled(o) ==
    /\ Prepared(o) /\ operations[o].cancel /\ ~reviews[o].cancel
    /\ reviews' = [reviews EXCEPT ![o].cancel = TRUE, ![o].phase = "cancellation_pending"]
    /\ UNCHANGED taskVars

ReviewsNext ==
    \/ TasksNext /\ UNCHANGED reviews
    \/ \E o \in ReviewerOps :
          \/ \E k \in ReviewKeys : PrepareReview(o, k)
          \/ PrepareReviewHost(o) \/ RecordReviewHost(o) \/ StartReviewHost(o)
          \/ ClaimObserver(o) \/ MarkReviewCancelled(o)

ReviewsSpec == ReviewsInit /\ [][ReviewsNext]_reviewVars

-----------------------------------------------------------------------------
(***************************************************************************)
(* A reviewer's host is prepared, and its observer claims, only while      *)
(* neither the review nor the work it reviews is cancelled, under a hold   *)
(* neither expired nor reconciled, on the input the row was prepared for,  *)
(* even when the ledger does not show the cancellation yet; a review whose *)
(* operation is cancelled for good never had a host, however its hold      *)
(* ended, and a cancelled row keeps its phase.  Behaviour:                 *)
(* reviewer_reserved_effect_guard, ApprovedTaskAdmission.cancel,           *)
(* freeze_launch, claim_registered_observer.                               *)
(***************************************************************************)
ReviewsAreCurrent ==
    /\ [](\A o \in DOMAIN reviews :
             /\ operations[o].state = "cancelled" => hosts[o] = None /\ ~reviews[o].claim
             /\ reviews[o].cancel => reviews[o].phase = "cancellation_pending")
    /\ [][\A o \in DOMAIN reviews :
             (hosts'[o] = "prepared" /\ hosts[o] = None) \/ reviews'[o].claim # reviews[o].claim =>
                /\ ~operations[o].cancel /\ ~operations[operations[o].worker].cancel
                /\ capacity[o].hold = "active" /\ reviews[o].input = ReviewInput(o)]_reviewVars
==============================================================================
