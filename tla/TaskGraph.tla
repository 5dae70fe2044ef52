------------------------------ MODULE TaskGraph ------------------------------
(***************************************************************************)
(* The versioned task graph of one workflow Run, as SchedulingStore        *)
(* (backend/karajan/scheduling/store.py) and graph.py keep it: decisions   *)
(* that expand, edit, supersede and seal, and the versions a seal pins.    *)
(*                                                                         *)
(* A decision is a batch of actions compiled on copies inside one SQLite   *)
(* write transaction.  `draft` is that copy: its actions are staged one by *)
(* one and it is then committed or dropped, and no other operation runs    *)
(* while it exists (the write lock).  Claims and reports, which also write *)
(* task documents, are in TaskScheduling; the authority chain is           *)
(* SchedulingGrants, so here a grant is simply live or dead.               *)
(***************************************************************************)
EXTENDS Integers, FiniteSets

CONSTANTS
    TaskIds,      \* identities task_identity derives for a decision's items
    SetIds,       \* expansion set identities
    GrantIds,
    ActsOf,       \* ActsOf[g]: the allowed_actions of grant g
    Zones,        \* write zones, as sequences of path segments
    Outs,         \* outcome obligations
    Specs,        \* the task specs decisions submit
    Limits,       \* the member_policy values of expansion sets
    MaxBatch,     \* bound on the actions of one decision
    MaxHead,      \* bound on the graph revision
    MaxVersion,   \* bound on the writes of one task document
    None          \* an absent value

VARIABLES
    head,      \* task_graph_current
    tasks,     \* scheduling_tasks, by identity
    sets,      \* task_expansions, by identity
    archive,   \* scheduling_task_versions: <<task, revision, digest>>
    draft,     \* the decision being compiled, or None
    dead       \* the grants whose chain is no longer live

graph == <<head, tasks, sets, archive, draft, dead>>

Terminal == {"completed", "failed", "cancelled"}
Retired  == {"superseded", "cancelled"}
Outcomes == Terminal \union {"started", "unknown"}
States   == Terminal \union {"queued", "claimed", "superseded", "unknown"}

(***************************************************************************)
(* What validate_task_spec returns, less the fields that only the grant    *)
(* containment checks read.  `fixed` is inferred_depends_on, the edges an  *)
(* input binding implies.                                                  *)
(***************************************************************************)
TaskSpec ==
    [id    : TaskIds,
     zone  : Zones,
     deps  : SUBSET TaskIds,
     fixed : SUBSET TaskIds,
     joins : SUBSET SetIds,
     outs  : SUBSET Outs,
     req   : BOOLEAN]

(***************************************************************************)
(* A task document.  `ver` stands for its digest: every write goes through *)
(* reseal_task and yields a digest the document never had before.  `claim` *)
(* is the claim_id, 0 for none, and `recon` the reconciliation_outcome.    *)
(***************************************************************************)
Task ==
    [spec  : TaskSpec,
     grant : GrantIds,
     state : States,
     deps  : SUBSET TaskIds,
     held  : BOOLEAN,
     rev   : Nat,
     ver   : Nat,
     claim : Nat,
     recon : Outcomes \union {"none"}]

(* A member entry: the version of the member the set names. *)
Member == [rev : Nat, ver : Nat, outs : SUBSET Outs, req : BOOLEAN]

(* An expansion set; `members` maps the tasks it names to their entries. *)
IsExpansionSet(set) ==
    /\ set \in [grant   : GrantIds,
                sealed  : BOOLEAN,
                limit   : Limits \union {None},
                outs    : SUBSET Outs,
                members : {set.members}]
    /\ DOMAIN set.members \subseteq TaskIds
    /\ set.members \in [DOMAIN set.members -> Member]

IsTaskTable(table) ==
    /\ DOMAIN table \subseteq TaskIds
    /\ \A t \in DOMAIN table : table[t] \in Task /\ table[t].spec.id = t

IsSetTable(table) ==
    /\ DOMAIN table \subseteq SetIds
    /\ \A e \in DOMAIN table : IsExpansionSet(table[e])

(***************************************************************************)
(* The in-memory view _plan_decision works on: the copied tables, the      *)
(* replacements of this batch (replaced_within) and the versions produced. *)
(***************************************************************************)
IsDraft(d) ==
    /\ d \in [grant    : GrantIds,
              tasks    : {d.tasks},
              sets     : {d.sets},
              swaps    : {d.swaps},
              versions : SUBSET (TaskIds \X Nat \X Nat),
              count    : Nat]
    /\ IsTaskTable(d.tasks)
    /\ IsSetTable(d.sets)
    /\ DOMAIN d.swaps \subseteq TaskIds
    /\ \A r \in DOMAIN d.swaps : d.swaps[r] \in TaskIds

ASSUME GraphAssumption ==
    /\ Specs \subseteq TaskSpec
    /\ MaxHead \in Nat

Put(table, key, row) ==
    [k \in DOMAIN table \union {key} |-> IF k = key THEN row ELSE table[k]]

Live(t) == t.state \notin Retired

Reseal(t) == [t EXCEPT !.ver = @ + 1]

-----------------------------------------------------------------------------
InitGraph ==
    /\ head = 0
    /\ tasks = << >>
    /\ sets = << >>
    /\ archive = {}
    /\ draft = None
    /\ dead = {}

(* create_expansion: an open set, owned by the grant that opened it. *)
CreateExpansion(e, g, outs, limit) ==
    /\ draft = None
    /\ g \notin dead
    /\ "expand_graph" \in ActsOf[g]
    /\ e \notin DOMAIN sets
    /\ sets' = Put(sets, e, [grant |-> g, sealed |-> FALSE, limit |-> limit,
                             outs |-> outs, members |-> << >>])
    /\ UNCHANGED <<head, tasks, archive, draft, dead>>

(***************************************************************************)
(* _decision_transaction up to _plan_decision: the grant chain is live and *)
(* the decision was made against the current revision (the refusals are    *)
(* DecisionReceipts' subject).                                             *)
(***************************************************************************)
BeginDecision(g) ==
    /\ draft = None
    /\ g \notin dead
    /\ head < MaxHead
    /\ draft' = [grant |-> g, tasks |-> tasks, sets |-> sets,
                 swaps |-> << >>, versions |-> {}, count |-> 0]
    /\ UNCHANGED <<head, tasks, sets, archive, dead>>

(* The next action of the batch may be `act`: the grant authorises it. *)
MayStage(act) ==
    /\ draft # None
    /\ draft.count < MaxBatch
    /\ act \in ActsOf[draft.grant]

(* _require_expansion_open and the ownership check of expand_graph and seal. *)
OwnOpenSet(e) ==
    /\ e \in DOMAIN draft.sets
    /\ ~draft.sets[e].sealed
    /\ draft.sets[e].grant = draft.grant

(***************************************************************************)
(* The member map of the set being expanded follows the replacements made  *)
(* so far in this decision: a successor takes over its predecessor's entry *)
(* at revision 1 and its creation digest.                                  *)
(***************************************************************************)
Follow(members, swaps) ==
    LET gone == DOMAIN swaps \intersect DOMAIN members
        heir == {swaps[r] : r \in gone}
    IN  [m \in (DOMAIN members \ gone) \union heir |->
            IF m \in heir
              THEN LET r == CHOOSE r \in gone : swaps[r] = m
                   IN  [members[r] EXCEPT !.rev = 1, !.ver = 1]
              ELSE members[m]]

(***************************************************************************)
(* expand_graph with one member; what an action with several members does  *)
(* is what several of these do.  With a predecessor (`old`) the new task   *)
(* supersedes it: the predecessor must have been live when the decision    *)
(* began and still be, and the successor carries everything it owed        *)
(* (_require_coverage, then owed <= carried).  The predecessor is archived *)
(* with the digest it had and keeps its revision.                          *)
(***************************************************************************)
ExpandGraph(e, s, old) ==
    LET fresh == [spec |-> s, grant |-> draft.grant, state |-> "queued",
                  deps |-> s.deps \union s.fixed, held |-> FALSE, rev |-> 1,
                  ver |-> 1, claim |-> 0, recon |-> "none"]
        kept  == IF old = None THEN draft.tasks
                 ELSE [draft.tasks EXCEPT ![old] =
                          Reseal([@ EXCEPT !.state = "superseded"])]
        swaps == IF old = None THEN draft.swaps ELSE Put(draft.swaps, old, s.id)
        past  == IF old = None THEN {}
                 ELSE {<<old, draft.tasks[old].rev, draft.tasks[old].ver>>}
        pin   == [rev |-> 1, ver |-> 1, outs |-> s.outs, req |-> s.req]
        set   == draft.sets[e]
    IN  /\ MayStage("expand_graph")
        /\ OwnOpenSet(e)
        /\ s.id \notin DOMAIN draft.tasks
        /\ set.limit # None => Cardinality(DOMAIN set.members) < set.limit
        /\ old # None =>
              /\ old \in DOMAIN tasks
              /\ Live(tasks[old]) /\ Live(draft.tasks[old])
              /\ tasks[old].ver < MaxVersion
              /\ draft.tasks[old].spec.outs \subseteq s.outs
        /\ draft' = [draft EXCEPT
                        !.tasks = Put(kept, s.id, fresh),
                        !.sets[e].members = Follow(Put(set.members, s.id, pin), swaps),
                        !.swaps = swaps,
                        !.versions = @ \union past \union {<<s.id, 1, 1>>},
                        !.count = @ + 1]
        /\ UNCHANGED <<head, tasks, sets, archive, dead>>

(* A slip in _refresh_member: sealed sets are repointed as well. *)
EditTask_RefreshAll(t, edited) ==
    LET new == Reseal([edited EXCEPT !.rev = @ + 1])
        pinned(set) == [set EXCEPT !.members[t].rev = new.rev,
                                   !.members[t].ver = new.ver]
    IN  /\ new.ver <= MaxVersion
        /\ draft' = [draft EXCEPT
                        !.tasks[t] = new,
                        !.sets = [e \in DOMAIN @ |->
                                     IF t \in DOMAIN @[e].members
                                       THEN pinned(@[e]) ELSE @[e]],
                        !.versions = @ \union {<<t, new.rev, new.ver>>},
                        !.count = @ + 1]
        /\ UNCHANGED <<head, tasks, sets, archive, dead>>

(***************************************************************************)
(* The common end of the four editing actions: the revision is raised, the *)
(* version archived, and every OPEN set that names the task is repointed   *)
(* (_refresh_member); a sealed set keeps the version it pinned.            *)
(***************************************************************************)
EditTask(t, edited) ==
    LET new == Reseal([edited EXCEPT !.rev = @ + 1])
        pinned(set) == [set EXCEPT !.members[t].rev = new.rev,
                                   !.members[t].ver = new.ver]
    IN  /\ new.ver <= MaxVersion
        /\ draft' = [draft EXCEPT
                        !.tasks[t] = new,
                        !.sets = [e \in DOMAIN @ |->
                                     IF ~@[e].sealed /\ t \in DOMAIN @[e].members
                                       THEN pinned(@[e]) ELSE @[e]],
                        !.versions = @ \union {<<t, new.rev, new.ver>>},
                        !.count = @ + 1]
        /\ UNCHANGED <<head, tasks, sets, archive, dead>>

(* An editing action names an existing task that is not retired. *)
Editable(t) == t \in DOMAIN draft.tasks /\ Live(draft.tasks[t])

(* bind_role: the binding of a claimed task is frozen. *)
BindRole(t) ==
    /\ MayStage("bind_role")
    /\ Editable(t)
    /\ draft.tasks[t].state # "claimed"
    /\ EditTask(t, draft.tasks[t])

(* set_dependencies: declared edges are replaced, inferred ones are kept. *)
SetDependencies(t, deps) ==
    /\ MayStage("set_dependencies")
    /\ Editable(t)
    /\ deps \subseteq DOMAIN draft.tasks \ {t}
    /\ draft.tasks[t].state # "claimed"
    /\ EditTask(t, [draft.tasks[t] EXCEPT !.deps = deps \union draft.tasks[t].spec.fixed])

(* set_priority: allowed in every state that is not retired. *)
SetPriority(t) ==
    /\ MayStage("set_priority")
    /\ Editable(t)
    /\ EditTask(t, draft.tasks[t])

(* request_dispatch: hold a task back, or let it be handed out again. *)
RequestDispatch(t, held) ==
    /\ MayStage("request_dispatch")
    /\ Editable(t)
    /\ EditTask(t, [draft.tasks[t] EXCEPT !.held = held])

(* A member entry that is not the version of the task that exists now. *)
Stale(taskTable, members) ==
    {m \in DOMAIN members :
        m \notin DOMAIN taskTable \/ taskTable[m].ver # members[m].ver}

(***************************************************************************)
(* seal: the caller names exactly the members and obligations of the set,  *)
(* every member is current, and the members carry every obligation.        *)
(***************************************************************************)
Seal(e) ==
    /\ MayStage("seal")
    /\ OwnOpenSet(e)
    /\ Stale(draft.tasks, draft.sets[e].members) = {}
    /\ draft.sets[e].outs \subseteq
          UNION {draft.sets[e].members[m].outs : m \in DOMAIN draft.sets[e].members}
    /\ draft' = [draft EXCEPT !.sets[e].sealed = TRUE, !.count = @ + 1]
    /\ UNCHANGED <<head, tasks, sets, archive, dead>>

(***************************************************************************)
(* dependency_cycle over the effective tasks finds nothing: every nonempty *)
(* set of them has a member that depends on none of the set.               *)
(***************************************************************************)
Acyclic(table) ==
    LET effective == {t \in DOMAIN table : Live(table[t])} IN
    \A S \in SUBSET effective \ {{}} : \E t \in S : table[t].deps \intersect S = {}

(* uncovered_obligations finds nothing: a live task carries every promise. *)
ObligationsCovered(table) ==
    LET carried == UNION {table[t].spec.outs : t \in {u \in DOMAIN table : Live(table[u])}}
    IN  \A t \in DOMAIN table : table[t].spec.outs \subseteq carried

(* A slip in _archive_version: one row per task instead of one per revision. *)
NewVersions_OnePerTask == {v \in draft.versions : ~\E w \in archive : w[1] = v[1]}

(***************************************************************************)
(* The versions a commit adds.  A task the batch did not touch is offered  *)
(* as it stands; ON CONFLICT(task_id, revision) DO NOTHING keeps what the  *)
(* archive holds.                                                          *)
(***************************************************************************)
NewVersions ==
    LET untouched == {t \in DOMAIN draft.tasks : ~\E v \in draft.versions : v[1] = t}
        offered   == draft.versions \union
                     {<<t, draft.tasks[t].rev, draft.tasks[t].ver>> : t \in untouched}
    IN  {v \in offered : ~\E w \in archive : w[1] = v[1] /\ w[2] = v[2]}

(* _commit_decision: the next revision, with everything the batch produced. *)
CommitDecision ==
    /\ draft # None
    /\ draft.count > 0
    /\ Acyclic(draft.tasks)
    /\ ObligationsCovered(draft.tasks)
    /\ head' = head + 1
    /\ tasks' = draft.tasks
    /\ sets' = draft.sets
    /\ archive' = archive \union NewVersions
    /\ draft' = None
    /\ UNCHANGED dead

(* Some check of the batch failed: the transaction rolls back. *)
RefuseDecision ==
    /\ draft # None
    /\ draft' = None
    /\ UNCHANGED <<head, tasks, sets, archive, dead>>

(* A grant is revoked or expires, or an ancestor of it does. *)
GrantDies(g) ==
    /\ draft = None
    /\ dead' = dead \union {g}
    /\ UNCHANGED <<head, tasks, sets, archive, draft>>

DecisionStep ==
    \/ \E g \in GrantIds : BeginDecision(g)
    \/ \E e \in SetIds, s \in Specs, old \in TaskIds \union {None} : ExpandGraph(e, s, old)
    \/ \E t \in TaskIds : BindRole(t)
    \/ \E t \in TaskIds : SetPriority(t)
    \/ \E t \in TaskIds, deps \in SUBSET TaskIds : SetDependencies(t, deps)
    \/ \E t \in TaskIds, held \in BOOLEAN : RequestDispatch(t, held)
    \/ \E e \in SetIds : Seal(e)
    \/ CommitDecision
    \/ RefuseDecision

GraphStep ==
    \/ DecisionStep
    \/ \E e \in SetIds, g \in GrantIds, outs \in SUBSET Outs, limit \in Limits \union {None} :
          CreateExpansion(e, g, outs, limit)
    \/ \E g \in GrantIds : GrantDies(g)
=============================================================================
