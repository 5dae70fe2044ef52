--------------------------- MODULE TaskScheduling ---------------------------
(***************************************************************************)
(* Handing out the work of a task graph: SchedulingStore.claim, the claim  *)
(* ledger (budget_consumption), admission against a shared resource pool,  *)
(* and the untrusted and reconciling reports that follow a claim.          *)
(***************************************************************************)
EXTENDS TaskGraph, Sequences, FiniteSetsExt

CONSTANTS
    CapOf,       \* CapOf[g]: least max_active_claims along the chain of g, or None
    CostOf,      \* CostOf[g]: resource_policy.cost_per_claim of g
    Policies,    \* resource policies a user may activate
    Readings,    \* trusted observations a user may record
    MaxClaims    \* bound on the rows of the ledger

VARIABLES
    ledger,      \* budget_consumption in insertion order; an index is a claim_id
    policy,      \* resource_policies of the pool, None until one is activated
    reading      \* the latest trusted observation of the pool, None before one

vars == <<graph, ledger, policy, reading>>

Policy  == [max : Nat, margin : Nat]
Reading == [metric : {"remaining", "used", "unknown"}, amount : Nat, limit : Nat \union {None}]

(***************************************************************************)
(* One claim's row, as _record_consumption writes it.  (rev, ver) is the   *)
(* version handed out; `live` says released_at is None.                    *)
(***************************************************************************)
Row ==
    [task    : TaskIds,
     zone    : Zones,
     rev     : Nat,
     ver     : Nat,
     cost    : Nat,
     live    : BOOLEAN,
     outcome : Terminal \union {"claimed"}]

ASSUME SchedulingAssumption ==
    /\ CapOf \in [GrantIds -> Nat \union {None}]
    /\ CostOf \in [GrantIds -> Nat]
    /\ Policies \subseteq Policy
    /\ Readings \subseteq Reading
    /\ MaxClaims \in Nat

LiveRows == {i \in DOMAIN ledger : ledger[i].live}

-----------------------------------------------------------------------------
(* zones_overlap: the same directory, or one inside the other. *)
Inside(inner, outer) ==
    Len(outer) <= Len(inner) /\ SubSeq(inner, 1, Len(outer)) = outer
Overlap(a, b) == Inside(a, b) \/ Inside(b, a)

(* A slip in _zone_holder: the holder is read from the graph, not the ledger. *)
ZoneBusy_ByGraph(t) ==
    \E u \in DOMAIN tasks \ {t} :
        tasks[u].state = "claimed" /\ Overlap(tasks[u].spec.zone, tasks[t].spec.zone)

(* _zone_holder with exclude=task: another task's claim holds the zone. *)
ZoneBusy(t) ==
    \E i \in LiveRows :
        ledger[i].task # t /\ Overlap(ledger[i].zone, tasks[t].spec.zone)

(* _resolved_versions: the settled claims of a task, and the last of them. *)
Settled(t) ==
    {i \in DOMAIN ledger :
        ledger[i].task = t /\ ~ledger[i].live /\ ledger[i].outcome \in Terminal}
LastSettled(t) == {i \in Settled(t) : \A j \in Settled(t) : j <= i}

(* A slip in _join_blocked: any completion of the member counts. *)
MemberPending_AnyVersion(m, pin) ==
    m \notin DOMAIN tasks \/ tasks[m].state # "completed"

(***************************************************************************)
(* _join_blocked: a member of an open set waits for the seal; a join waits *)
(* for the seal and then for every required member, other than itself, to  *)
(* be completed in exactly the version the seal pinned.  A join that names *)
(* a set that does not exist waits for nothing.                            *)
(***************************************************************************)
MemberPending(m, pin) ==
    \/ m \notin DOMAIN tasks
    \/ tasks[m].state # "completed"
    \/ ~\E i \in LastSettled(m) : ledger[i].rev = pin.rev /\ ledger[i].ver = pin.ver

JoinBlocked(t) ==
    \/ \E e \in DOMAIN sets : ~sets[e].sealed /\ t \in DOMAIN sets[e].members
    \/ \E e \in tasks[t].spec.joins \intersect DOMAIN sets :
          \/ ~sets[e].sealed
          \/ \E m \in DOMAIN sets[e].members \ {t} :
                sets[e].members[m].req /\ MemberPending(m, sets[e].members[m])

(* _waiting_reason: dispatch held, a dependency not completed, zone busy. *)
Waiting(t) ==
    \/ tasks[t].held
    \/ \E d \in tasks[t].deps : d \notin DOMAIN tasks \/ tasks[d].state # "completed"
    \/ ZoneBusy(t)

(***************************************************************************)
(* _admit with _consumption and _gain_ceilings.                            *)
(***************************************************************************)
ConsumedCost == SumFunctionOnSet([i \in DOMAIN ledger |-> ledger[i].cost], LiveRows)

Ceiling(g) == IF CapOf[g] = None THEN policy.max ELSE Min({policy.max, CapOf[g]})

RoomLeft ==
    CASE reading.metric = "remaining" -> reading.amount - policy.margin > 0
      [] reading.metric = "used" ->
            reading.limit # None /\ reading.limit - reading.amount - policy.margin > 0
      [] reading.metric = "unknown" -> FALSE

(* A slip in _admit: occupancy is read from the graph, not the ledger. *)
Admitted_ByGraph(g) ==
    LET busy == Cardinality({t \in DOMAIN tasks : tasks[t].state = "claimed"}) IN
    /\ policy # None
    /\ reading # None
    /\ busy < Ceiling(g)
    /\ busy * CostOf[g] + CostOf[g] <= Ceiling(g)
    /\ RoomLeft

Admitted(g) ==
    /\ policy # None
    /\ reading # None
    /\ Cardinality(LiveRows) < Ceiling(g)
    /\ ConsumedCost + CostOf[g] <= Ceiling(g)
    /\ RoomLeft

-----------------------------------------------------------------------------
Init ==
    /\ InitGraph
    /\ ledger = << >>
    /\ policy = None
    /\ reading = None

(***************************************************************************)
(* claim.  A command key that is repeated, and a claim on a task in state  *)
(* "claimed", return the existing claim and change nothing.  The four      *)
(* settled states are refused; "queued" and "unknown" go on.               *)
(***************************************************************************)
Claimable == {"queued", "unknown"}

Claim(t) ==
    /\ draft = None
    /\ t \in DOMAIN tasks
    /\ tasks[t].state \in Claimable
    /\ ~JoinBlocked(t)
    /\ ~Waiting(t)
    /\ tasks[t].grant \notin dead
    /\ Admitted(tasks[t].grant)
    /\ Len(ledger) < MaxClaims
    /\ tasks[t].ver < MaxVersion
    /\ tasks' = [tasks EXCEPT ![t] =
                    Reseal([@ EXCEPT !.state = "claimed", !.claim = Len(ledger) + 1])]
    /\ ledger' = Append(ledger,
                    [task |-> t, zone |-> tasks[t].spec.zone,
                     rev |-> tasks[t].rev, ver |-> tasks[t].ver,
                     cost |-> CostOf[tasks[t].grant], live |-> TRUE,
                     outcome |-> "claimed"])
    /\ UNCHANGED <<head, sets, archive, draft, dead, policy, reading>>

(* Only a terminal reconciliation settles an execution. *)
Reconciled(t) == tasks[t].recon \in Terminal

Reportable(t) ==
    /\ draft = None
    /\ t \in DOMAIN tasks
    /\ tasks[t].claim # 0
    /\ tasks[t].ver < MaxVersion

(* A slip in report_execution: the consumer's ending becomes the task's. *)
ObserveTask_Promoted(t, outcome) ==
    /\ Reportable(t)
    /\ tasks' = [tasks EXCEPT ![t] =
                    Reseal([@ EXCEPT !.state = IF outcome \in Terminal THEN outcome ELSE @])]
    /\ UNCHANGED <<head, sets, archive, draft, dead, ledger, policy, reading>>

(***************************************************************************)
(* report_execution by the consumer that holds the claim: an observation.  *)
(* An unverified ending leaves the task claimed, unless it was reconciled. *)
(***************************************************************************)
ObserveTask(t, outcome) ==
    /\ Reportable(t)
    /\ LET state == IF outcome \in Terminal /\ ~Reconciled(t) THEN "claimed" ELSE tasks[t].state
       IN  tasks' = [tasks EXCEPT ![t] = Reseal([@ EXCEPT !.state = state])]
    /\ UNCHANGED <<head, sets, archive, draft, dead, ledger, policy, reading>>

(* Slips in the reconciliation: "started" becomes the state; every claim of the *)
(* task is released; a correction rewrites the released row.                    *)
Reconcile_Started(t, outcome) ==
    /\ Reportable(t)
    /\ tasks' = [tasks EXCEPT ![t] = Reseal([@ EXCEPT !.recon = outcome, !.state = outcome])]
    /\ ledger' = IF outcome \in Terminal /\ ~Reconciled(t) /\ ledger[tasks[t].claim].live
                   THEN [ledger EXCEPT ![tasks[t].claim] =
                            [@ EXCEPT !.live = FALSE, !.outcome = outcome]]
                   ELSE ledger
    /\ UNCHANGED <<head, sets, archive, draft, dead, policy, reading>>

Reconcile_AllOfTask(t, outcome) ==
    /\ Reportable(t)
    /\ tasks' = [tasks EXCEPT ![t] =
                    Reseal([@ EXCEPT !.recon = outcome,
                                     !.state = IF outcome = "started" THEN @ ELSE outcome])]
    /\ ledger' = IF outcome \in Terminal /\ ~Reconciled(t)
                   THEN [i \in DOMAIN ledger |->
                            IF ledger[i].task = t /\ ledger[i].live
                              THEN [ledger[i] EXCEPT !.live = FALSE, !.outcome = outcome]
                              ELSE ledger[i]]
                   ELSE ledger
    /\ UNCHANGED <<head, sets, archive, draft, dead, policy, reading>>

Reconcile_Rewrites(t, outcome) ==
    /\ Reportable(t)
    /\ tasks' = [tasks EXCEPT ![t] =
                    Reseal([@ EXCEPT !.recon = outcome,
                                     !.state = IF outcome = "started" THEN @ ELSE outcome])]
    /\ ledger' = IF outcome \in Terminal
                   THEN [ledger EXCEPT ![tasks[t].claim] =
                            [@ EXCEPT !.live = FALSE, !.outcome = outcome]]
                   ELSE ledger
    /\ UNCHANGED <<head, sets, archive, draft, dead, policy, reading>>

(***************************************************************************)
(* report_execution with trusted=True: the owner's reconciliation.  The    *)
(* first terminal one releases the claim the task names.                   *)
(***************************************************************************)
Reconcile(t, outcome) ==
    /\ Reportable(t)
    /\ LET state == IF outcome = "started" THEN tasks[t].state ELSE outcome
       IN  tasks' = [tasks EXCEPT ![t] = Reseal([@ EXCEPT !.recon = outcome, !.state = state])]
    /\ ledger' = IF outcome \in Terminal /\ ~Reconciled(t) /\ ledger[tasks[t].claim].live
                   THEN [ledger EXCEPT ![tasks[t].claim] =
                            [@ EXCEPT !.live = FALSE, !.outcome = outcome]]
                   ELSE ledger
    /\ UNCHANGED <<head, sets, archive, draft, dead, policy, reading>>

(* activate_resource_policy and observe_resource, by the user session. *)
ActivatePolicy(p) ==
    /\ draft = None
    /\ policy' = p
    /\ UNCHANGED <<graph, ledger, reading>>

ObserveResource(r) ==
    /\ draft = None
    /\ reading' = r
    /\ UNCHANGED <<graph, ledger, policy>>

Next ==
    \/ GraphStep /\ UNCHANGED <<ledger, policy, reading>>
    \/ \E t \in TaskIds : Claim(t)
    \/ \E t \in TaskIds, o \in Outcomes : ObserveTask(t, o)
    \/ \E t \in TaskIds, o \in Outcomes : Reconcile(t, o)
    \/ \E p \in Policies : ActivatePolicy(p)
    \/ \E r \in Readings : ObserveResource(r)

Spec == Init /\ [][Next]_vars
-----------------------------------------------------------------------------
(* Every table holds well-formed rows, and a claim_id names a row. *)
TypeOK ==
    /\ head \in 0 .. MaxHead
    /\ IsTaskTable(tasks)
    /\ IsSetTable(sets)
    /\ archive \subseteq TaskIds \X Nat \X Nat
    /\ draft = None \/ IsDraft(draft)
    /\ dead \subseteq GrantIds
    /\ ledger \in Seq(Row)
    /\ \A t \in DOMAIN tasks : tasks[t].claim <= Len(ledger)
    /\ policy \in Policy \union {None}
    /\ reading \in Reading \union {None}

(***************************************************************************)
(* One writer per zone: two claims of different tasks that are both still  *)
(* unreconciled never hold overlapping directories, whatever supersession, *)
(* correction or late report happened to their tasks in the meantime.      *)
(***************************************************************************)
OneWriterPerZone ==
    \A i, j \in LiveRows :
        ledger[i].task # ledger[j].task => ~Overlap(ledger[i].zone, ledger[j].zone)

(***************************************************************************)
(* A task counts as completed, failed or cancelled only once the claim it  *)
(* names has been released by a reconciliation: no order of untrusted      *)
(* reports, corrections and repeated claims satisfies a dependency while   *)
(* the execution still holds its slot and its zone.                        *)
(***************************************************************************)
EndedIsReleased ==
    \A t \in DOMAIN tasks :
        tasks[t].state \in Terminal =>
            tasks[t].claim # 0 /\ ~ledger[tasks[t].claim].live

(***************************************************************************)
(* Every member version a sealed set pins can be read back: the archive    *)
(* holds exactly that digest for that revision, although a batch may edit  *)
(* before and after it seals and supersession rewrites a document without  *)
(* raising its revision.                                                   *)
(***************************************************************************)
PinsAreArchived ==
    \A e \in DOMAIN sets : sets[e].sealed =>
        \A m \in DOMAIN sets[e].members :
            <<m, sets[e].members[m].rev, sets[e].members[m].ver>> \in archive

(***************************************************************************)
(* The occupancy of a claim is ended only by a reconciliation of its own   *)
(* task: rows are never removed, a released row never changes, and a row   *)
(* is released in the step that records the same ending on the task that   *)
(* took it.                                                                *)
(***************************************************************************)
ReleasedByReconciliation ==
    [][\A i \in DOMAIN ledger :
          /\ i \in DOMAIN ledger'
          /\ ledger'[i] # ledger[i] =>
                /\ ledger[i].live /\ ~ledger'[i].live
                /\ ledger'[i].outcome \in Terminal
                /\ tasks'[ledger[i].task].state = ledger'[i].outcome
                /\ tasks'[ledger[i].task].claim = i]_vars

(***************************************************************************)
(* A sealed set is never rewritten: later expansions, edits and            *)
(* replacements leave its members and their versions as published.         *)
(***************************************************************************)
SealIsFinal ==
    [][\A e \in DOMAIN sets :
          e \in DOMAIN sets' /\ (sets[e].sealed => sets'[e] = sets[e])]_vars

(***************************************************************************)
(* The ledger keeps the promise of WriteZones, read over its live rows:    *)
(* no batch, supersession or report takes or frees a zone by any other way *)
(* than one claim or one reconciliation.                                   *)
(***************************************************************************)
WZ == INSTANCE WriteZones
        WITH Claims <- 1 .. MaxClaims,
             held <- {[claim |-> i, task |-> ledger[i].task, zone |-> ledger[i].zone] :
                         i \in LiveRows}
ImplementsWriteZones == WZ!Spec

(***************************************************************************)
(* A fan-in never runs over results it did not have: a join that is handed *)
(* out finds each set it names sealed, and for every required member       *)
(* (except itself) a settled claim of exactly the version the seal pinned, *)
(* although the member may have been edited, superseded or claimed again   *)
(* since.                                                                  *)
(***************************************************************************)
JoinSeesPinnedResults ==
    [][\A i \in DOMAIN ledger' \ DOMAIN ledger :
          LET t == ledger'[i].task IN
          \A e \in tasks[t].spec.joins \intersect DOMAIN sets :
              /\ sets[e].sealed
              /\ \A m \in DOMAIN sets[e].members \ {t} : sets[e].members[m].req =>
                    \E j \in DOMAIN ledger :
                        /\ ledger[j].task = m /\ ~ledger[j].live
                        /\ ledger[j].rev = sets[e].members[m].rev
                        /\ ledger[j].ver = sets[e].members[m].ver]_vars

(***************************************************************************)
(* Backpressure is real: the executions running at once, and what they     *)
(* cost together, stay within the ceiling of the grant that was handed     *)
(* work last, also when tasks are superseded or corrected while they run.  *)
(***************************************************************************)
OccupancyWithinCeiling ==
    LiveRows # {} =>
        LET cap == CapOf[tasks[ledger[Max(LiveRows)].task].grant] IN
        cap # None => Cardinality(LiveRows) <= cap /\ ConsumedCost <= cap

(***************************************************************************)
(* store.py:3318: "a second claim never creates a second unit of work".    *)
(***************************************************************************)
OneUnitOfWork ==
    \A i, j \in LiveRows : ledger[i].task = ledger[j].task => i = j

(***************************************************************************)
(* store.py:2177: an open set "follows the replacement", since "leaving    *)
(* the retired identity in place would make the set unsealable".           *)
(***************************************************************************)
OpenSetsAreSealable ==
    \A e \in DOMAIN sets : ~sets[e].sealed => Stale(tasks, sets[e].members) = {}
=============================================================================
