------------------------ MODULE DeliveryCoordinator ------------------------
(***************************************************************************)
(* Publishing the results of one Run: DeliveryCoordinator in               *)
(* backend/karajan/delivery/coordinator.py against a Git remote and a pull *)
(* request service (external).                                             *)
(*                                                                         *)
(* advance works on a snapshot it read earlier: it looks at the remote,    *)
(* records in a transaction that it is about to write there (an operation  *)
(* in state send_unknown), writes, and records the outcome in another.     *)
(* Controls, newer revisions, other calls of advance, other writers of the *)
(* repository and a stop of the process fall in between.  A request that   *)
(* was given up may still take effect later.                               *)
(***************************************************************************)
EXTENDS Common, Integers, FiniteSets

CONSTANTS
    Revisions,   \* delivery revisions of the Run, numbers from 1
    Advancers,   \* concurrent calls of advance
    PullIds      \* identities the pull request service may give out

VARIABLES
    deliveries,  \* snapshots, by revision
    control,     \* run_controls, None before the first plan
    runPr,       \* run_prs: the Run's pull request
    adv,         \* per call of advance: where it stands and what it read
    remote,      \* external: head of the managed branch, base moved or not
    pulls,       \* external: pull requests of the branch, id -> head
    inflight     \* external: publish requests that may still take effect

deliveryVars == <<deliveries, control, runPr, adv, remote, pulls, inflight>>

Controls == {"active", "paused", "cancelled", "revoked"}
OpStates == {None, "send_unknown", "confirmed"}
Foreign == -1   \* a commit that is none of the Run's

(* A snapshot: its push and pull request operations, and whether it counts as complete. *)
Delivery ==
    [state : {"planned", "pushing", "pushed", "publishing", "reconciling", "awaiting_ci",
              "delivered", "blocked"},
     push : OpStates, pr : OpStates, prId : PullIds \union {None}, done : BOOLEAN]

(* The names are not the missing value, and revisions are numbered. *)
ASSUME DeliveryAssumption ==
    Revisions \subseteq Nat /\ None \notin PullIds \union {"send_unknown", "confirmed"}

(* expected_old_sha: each revision builds on the one before, the first on no branch. *)
ExpectedOld(r) == r - 1

(* The pull requests of a branch, by identity, with their heads. *)
PullTables == UNION {[P -> Revisions] : P \in SUBSET PullIds}

(* What a call saw of the remote, or of the checks of its pull request. *)
Observation ==
    {None} \union [head : Revisions \union {0, Foreign}, moved : BOOLEAN, pulls : PullTables]
           \union [fits : BOOLEAN, ci : BOOLEAN]

(* A call of advance: where it stands, what it read, and what it saw. *)
Call ==
    [pc : {"idle", "begin", "push_ready", "push", "pushed", "push_lost", "reconcile_push",
           "inspected", "pr_ready", "publish", "pr_unknown", "confirm", "confirm_ready"},
     rev : Revisions \union {0}, snap : Delivery \union {None}, pr : PullIds \union {None},
     obs : Observation]

DeliveryTypeOK ==
    /\ DOMAIN deliveries \subseteq Revisions
    /\ deliveries \in [DOMAIN deliveries -> Delivery]
    /\ control \in Controls \union {None} /\ runPr \in PullIds \union {None}
    /\ adv \in [Advancers -> Call]
    /\ remote \in [head : Revisions \union {0, Foreign}, moved : BOOLEAN]
    /\ pulls \in PullTables
    /\ inflight \subseteq [rev : Revisions, existing : PullIds \union {None}]

NoCall == [pc |-> "idle", rev |-> 0, snap |-> None, pr |-> None, obs |-> None]

DeliveryInit ==
    /\ deliveries = << >>
    /\ control = None
    /\ runPr = None
    /\ adv = [t \in Advancers |-> NoCall]
    /\ remote = [head |-> 0, moved |-> FALSE]
    /\ pulls = << >>
    /\ inflight = {}

Store(r, s) == deliveries' = WithRow(deliveries, r, s)

PlanDelivery(r) ==
    /\ r \notin DOMAIN deliveries
    /\ control' = IF control = None THEN "active" ELSE control
    /\ Store(r, [state |-> "planned", push |-> None, pr |-> None, prId |-> None, done |-> FALSE])
    /\ UNCHANGED <<runPr, adv, remote, pulls, inflight>>

SetDeliveryControl(s) ==
    /\ control \notin {None, "cancelled", "revoked"} /\ control # s
    /\ control' = s
    /\ deliveries' = [r \in DOMAIN deliveries |->
                        IF s = "active" THEN deliveries[r]
                        ELSE [deliveries[r] EXCEPT !.done = FALSE]]
    /\ UNCHANGED <<runPr, adv, remote, pulls, inflight>>

Unresolved(s) == "send_unknown" \in {s.push, s.pr}

ActivationAllowed(r) ==
    /\ control = "active"
    /\ \A q \in DOMAIN deliveries : q <= r
    /\ \A q \in DOMAIN deliveries : q < r => ~Unresolved(deliveries[q])

Blocked(s) == [s EXCEPT !.state = "blocked", !.done = FALSE]

Goto(t, pc) == adv' = [adv EXCEPT ![t].pc = pc]
Return(t) == adv' = [adv EXCEPT ![t] = NoCall]

(* advance begins: the snapshot is read, and used from here on. *)
BeginAdvance(t, r) ==
    /\ adv[t].pc = "idle" /\ r \in DOMAIN deliveries
    /\ adv' = [adv EXCEPT ![t] = [NoCall EXCEPT !.pc = "begin", !.rev = r,
                                                !.snap = deliveries[r]]]
    /\ UNCHANGED <<deliveries, control, runPr, remote, pulls, inflight>>

(* _block: compare-and-set against the snapshot.  Its causes are a missing      *)
(* verification receipt, an unreadable or changed remote, a foreign identity.   *)
BlockStale(t) ==
    /\ adv[t].pc \in {"begin", "inspected"}
    /\ adv[t].pc = "begin" => ~Unresolved(adv[t].snap)
    /\ IF deliveries[adv[t].rev] = adv[t].snap
         THEN Store(adv[t].rev, Blocked(adv[t].snap)) ELSE UNCHANGED deliveries
    /\ Return(t)
    /\ UNCHANGED <<control, runPr, remote, pulls, inflight>>

(* _activation_reason refuses, before or after the remote was inspected. *)
BlockInactive(t) ==
    /\ adv[t].pc \in {"begin", "push_ready", "pr_ready"}
    /\ ~Unresolved(adv[t].snap)
    /\ ~ActivationAllowed(adv[t].rev)
    /\ Store(adv[t].rev, Blocked(deliveries[adv[t].rev]))
    /\ Return(t)
    /\ UNCHANGED <<control, runPr, remote, pulls, inflight>>

(* git_remote.validate: base as tested, branch where the request expects it. *)
RemoteFits(r) == ~remote.moved /\ remote.head = ExpectedOld(r)

ValidateForPush(t) ==
    /\ adv[t].pc = "begin" /\ adv[t].snap.push = None
    /\ ActivationAllowed(adv[t].rev) /\ RemoteFits(adv[t].rev)
    /\ Goto(t, "push_ready")
    /\ UNCHANGED <<deliveries, control, runPr, remote, pulls, inflight>>

(* A slip in advance: the snapshot is not compared before the write is recorded. *)
ActivatePush_NoCompare(t) ==
    /\ adv[t].pc = "push_ready" /\ ActivationAllowed(adv[t].rev)
    /\ Store(adv[t].rev, [adv[t].snap EXCEPT !.push = "send_unknown", !.state = "pushing"])
    /\ Goto(t, "push")
    /\ UNCHANGED <<control, runPr, remote, pulls, inflight>>

(* The transaction that records the push before it is sent. *)
ActivatePush(t) ==
    /\ adv[t].pc = "push_ready" /\ ActivationAllowed(adv[t].rev)
    /\ IF deliveries[adv[t].rev] = adv[t].snap
         THEN /\ Store(adv[t].rev, [adv[t].snap EXCEPT !.push = "send_unknown",
                                                       !.state = "pushing"])
              /\ Goto(t, "push")
         ELSE Return(t) /\ UNCHANGED deliveries
    /\ UNCHANGED <<control, runPr, remote, pulls, inflight>>

(* git push with a lease on the expected head; a refused one raises and is left unknown. *)
Push(t) ==
    /\ adv[t].pc = "push"
    /\ IF RemoteFits(adv[t].rev)
         THEN /\ remote' = [remote EXCEPT !.head = adv[t].rev]
              /\ \/ Goto(t, "pushed")
                 \/ Goto(t, "push_lost")
         ELSE /\ UNCHANGED remote
              /\ \/ Return(t)
                 \/ Goto(t, "push_lost")
    /\ UNCHANGED <<deliveries, control, runPr, pulls, inflight>>

(* The transaction after the push. *)
RecordPush(t) ==
    LET r == adv[t].rev IN
    /\ adv[t].pc \in {"pushed", "push_lost"}
    /\ IF deliveries[r].push = "confirmed" THEN UNCHANGED deliveries
       ELSE Store(r, IF adv[t].pc = "pushed"
                       THEN [deliveries[r] EXCEPT !.push = "confirmed", !.state = "pushed"]
                       ELSE [deliveries[r] EXCEPT !.state = "reconciling"])
    /\ Return(t)
    /\ UNCHANGED <<control, runPr, remote, pulls, inflight>>

(* inspect and lookup, for a pull request or to reconcile an unknown operation. *)
InspectRemote(t) ==
    /\ adv[t].pc = "begin"
    /\ \/ Unresolved(adv[t].snap)
       \/ adv[t].snap.push = "confirmed" /\ ActivationAllowed(adv[t].rev)
    /\ adv' = [adv EXCEPT ![t].pc = IF adv[t].snap.push = "send_unknown"
                                      THEN "reconcile_push" ELSE "inspected",
                          ![t].obs = [head |-> remote.head, moved |-> remote.moved,
                                      pulls |-> pulls]]
    /\ UNCHANGED <<deliveries, control, runPr, remote, pulls, inflight>>

ReconcilePush(t) ==
    LET r == adv[t].rev IN
    /\ adv[t].pc = "reconcile_push"
    /\ IF deliveries[r].push # "send_unknown" THEN UNCHANGED deliveries
       ELSE Store(r, IF adv[t].obs.head = r
                       THEN [deliveries[r] EXCEPT !.push = "confirmed", !.state = "pushed"]
                       ELSE [deliveries[r] EXCEPT !.state = "reconciling"])
    /\ Return(t)
    /\ UNCHANGED <<control, runPr, remote, pulls, inflight>>

Matches(t) == DOMAIN adv[t].obs.pulls
ObservedFits(t) == adv[t].obs.head = adv[t].rev /\ ~adv[t].obs.moved

(* _reconcile_pr and _advance_pr: exactly the known pull request, or none for a new one. *)
ChoosePr(t) ==
    /\ adv[t].pc = "inspected" /\ ObservedFits(t)
    /\ \/ /\ adv[t].snap.pr = "send_unknown" /\ Cardinality(Matches(t)) # 1
          /\ Goto(t, "pr_unknown")
       \/ /\ adv[t].snap.pr = "send_unknown" \/ adv[t].snap.prId # None
          /\ Cardinality(Matches(t)) = 1
          /\ adv[t].snap.pr # "send_unknown" =>
                Matches(t) = {adv[t].snap.prId} /\ runPr \in {None, adv[t].snap.prId}
          /\ adv' = [adv EXCEPT ![t].pc = "confirm",
                                ![t].pr = CHOOSE p \in Matches(t) : TRUE]
       \/ /\ adv[t].snap.pr = None
          /\ Cardinality(Matches(t)) <= 1
          /\ runPr # None => Matches(t) = {runPr}
          /\ adv' = [adv EXCEPT ![t].pc = "pr_ready",
                                ![t].pr = IF Matches(t) = {} THEN None
                                          ELSE CHOOSE p \in Matches(t) : TRUE]
    /\ UNCHANGED <<deliveries, control, runPr, remote, pulls, inflight>>

(* The transaction that records the publication before it is requested. *)
ActivatePr(t) ==
    LET r == adv[t].rev  existing == adv[t].pr IN
    /\ adv[t].pc = "pr_ready" /\ ActivationAllowed(r)
    /\ IF deliveries[r] # adv[t].snap
         THEN Return(t) /\ UNCHANGED <<deliveries, runPr, inflight>>
       ELSE IF runPr # None /\ runPr # existing
         THEN Store(r, Blocked(deliveries[r])) /\ Return(t) /\ UNCHANGED <<runPr, inflight>>
       ELSE /\ Store(r, [deliveries[r] EXCEPT !.pr = "send_unknown", !.state = "publishing"])
            /\ runPr' = existing
            /\ inflight' = inflight \union {[rev |-> r, existing |-> existing]}
            /\ Goto(t, "publish")
    /\ UNCHANGED <<control, remote, pulls>>

(* The service (external) acts on a request: a new pull request, or a new head. *)
PublishLands(q) ==
    /\ q \in inflight
    /\ inflight' = inflight \ {q}
    /\ IF q.existing # None
         THEN pulls' = [pulls EXCEPT ![q.existing] = q.rev]
         ELSE \E p \in PullIds \ DOMAIN pulls :
                 pulls' = WithRow(pulls, p, q.rev)
    /\ UNCHANGED <<deliveries, control, runPr, adv, remote>>

(* publish answers with the pull request, or its result is unknown. *)
PublishAnswers(t) ==
    /\ adv[t].pc = "publish"
    /\ \/ \E p \in DOMAIN pulls :
             /\ adv[t].pr \in {None, p}
             /\ ~\E q \in inflight : q.rev = adv[t].rev
             /\ adv' = [adv EXCEPT ![t].pc = "confirm", ![t].pr = p]
       \/ Goto(t, "pr_unknown")
    /\ UNCHANGED <<deliveries, control, runPr, remote, pulls, inflight>>

(* _unknown, also when the observed pull request has another head. *)
RecordUnknown(t) ==
    LET r == adv[t].rev IN
    /\ \/ adv[t].pc = "pr_unknown"
       \/ adv[t].pc = "confirm" /\ adv[t].snap.pr # "confirmed" /\ pulls[adv[t].pr] # r
    /\ IF Unresolved(deliveries[r])
         THEN Store(r, [deliveries[r] EXCEPT !.state = "reconciling", !.done = FALSE])
         ELSE UNCHANGED deliveries
    /\ Return(t)
    /\ UNCHANGED <<control, runPr, remote, pulls, inflight>>

(* _confirm_pr reads verification and remote ... *)
InspectForConfirm(t) ==
    /\ adv[t].pc = "confirm" /\ pulls[adv[t].pr] = adv[t].rev
    /\ \E verified \in BOOLEAN, ci \in BOOLEAN :
          adv' = [adv EXCEPT ![t].pc = "confirm_ready",
                             ![t].obs = [fits |-> verified /\ remote.head = adv[t].rev
                                                  /\ ~remote.moved,
                                         ci |-> ci]]
    /\ UNCHANGED <<deliveries, control, runPr, remote, pulls, inflight>>

(* ... and decides in a transaction, on the control and revisions of that moment. *)
ConfirmPr(t) ==
    LET r == adv[t].rev
        p == adv[t].pr
        clear == ActivationAllowed(r) /\ adv[t].obs.fits
    IN
    /\ adv[t].pc = "confirm_ready"
    /\ IF runPr \notin {None, p}
         THEN Store(r, Blocked(deliveries[r])) /\ UNCHANGED runPr
         ELSE /\ runPr' = p
              /\ Store(r, [deliveries[r] EXCEPT !.pr = "confirmed", !.prId = p,
                   !.done = clear /\ adv[t].obs.ci,
                   !.state = IF ~clear THEN "blocked"
                             ELSE IF adv[t].obs.ci THEN "delivered" ELSE "awaiting_ci"])
    /\ Return(t)
    /\ UNCHANGED <<control, remote, pulls, inflight>>

(* The call ends early: the process stops, or the remote cannot be read. *)
AdvanceStops(t) ==
    /\ adv[t].pc # "idle"
    /\ Return(t)
    /\ UNCHANGED <<deliveries, control, runPr, remote, pulls, inflight>>

(* Other writers of the repository (external). *)
RepositoryMoves ==
    /\ \/ ~remote.moved /\ remote' = [remote EXCEPT !.moved = TRUE]
       \/ remote.head # Foreign /\ remote' = [remote EXCEPT !.head = Foreign]
    /\ UNCHANGED <<deliveries, control, runPr, adv, pulls, inflight>>

AdvanceStep(t) ==
    \/ BlockStale(t) \/ BlockInactive(t)
    \/ ValidateForPush(t) \/ ActivatePush(t) \/ Push(t) \/ RecordPush(t)
    \/ InspectRemote(t) \/ ReconcilePush(t) \/ ChoosePr(t)
    \/ ActivatePr(t) \/ PublishAnswers(t) \/ RecordUnknown(t)
    \/ InspectForConfirm(t) \/ ConfirmPr(t)
    \/ AdvanceStops(t)

DeliveryNext ==
    \/ \E r \in Revisions : PlanDelivery(r)
    \/ \E s \in Controls : SetDeliveryControl(s)
    \/ \E t \in Advancers, r \in Revisions : BeginAdvance(t, r)
    \/ \E t \in Advancers : AdvanceStep(t)
    \/ \E q \in inflight : PublishLands(q)
    \/ RepositoryMoves

DeliverySpec == DeliveryInit /\ [][DeliveryNext]_deliveryVars

-----------------------------------------------------------------------------
(***************************************************************************)
(* A Run never opens two pull requests, though publications are given up   *)
(* and land later, revisions follow one another, and calls of advance race *)
(* or stop.                                                                *)
(***************************************************************************)
OnePullRequest == Cardinality(DOMAIN pulls) <= 1

(***************************************************************************)
(* At most one revision has a remote write of unknown outcome: a newer     *)
(* revision writes nothing before the older one is resolved.               *)
(***************************************************************************)
UnresolvedIsAlone ==
    \A q, r \in DOMAIN deliveries :
        Unresolved(deliveries[q]) /\ Unresolved(deliveries[r]) => q = r

(***************************************************************************)
(* A delivery counts as complete only while its Run's control is active,   *)
(* its push and pull request are confirmed, and the pull request is the    *)
(* Run's own: no late answer completes a cancelled or paused Run.          *)
(***************************************************************************)
DoneOnlyWhileActive ==
    \A r \in DOMAIN deliveries :
        deliveries[r].done =>
            /\ control = "active"
            /\ deliveries[r].push = "confirmed" /\ deliveries[r].pr = "confirmed"
            /\ deliveries[r].prId = runPr

(* What a delivery may leave behind: one pull request, one open question, no false completion. *)
DeliveriesAreSafe == OnePullRequest /\ UnresolvedIsAlone /\ DoneOnlyWhileActive
=============================================================================
