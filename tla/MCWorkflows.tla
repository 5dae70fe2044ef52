---------------------------- MODULE MCWorkflows ----------------------------
(***************************************************************************)
(* WorkflowDeployments on small documents: two steps and one that can be   *)
(* added.  A behaviour either lets authors of two conversations submit,    *)
(* edit and write inputs, or lets one author submit while operators deploy *)
(* and start Runs.                                                         *)
(***************************************************************************)
EXTENDS WorkflowDeployments, TLC

VARIABLE focus

Author1 == CHOOSE c \in Conversations : TRUE

Aggregate(deps, sources, facts) ==
    [kind |-> "artifact_aggregate", role |-> None, deps |-> deps, inputs |-> [sources |-> sources],
     facts |-> facts, required |-> TRUE, contract |-> "aggregated_report"]

Document(steps, outcome) ==
    [steps |-> steps, inputs |-> {"topic"}, roles |-> {"lead"}, roleFiles |-> {"lead"},
     bindings |-> {"lead"}, completion |-> [required |-> {outcome}, artifact |-> outcome],
     delivery |-> "report", rework |-> {}, scheduler |-> None, expansions |-> {}]

(* A chain of two aggregations, and a task for an agent, which no adapter executes. *)
Chain == Document([a |-> Aggregate({}, {"topic"}, {}), b |-> Aggregate({"a"}, {"a"}, {})], "b")

AgentTask ==
    Document([a |-> [Aggregate({}, {}, {}) EXCEPT !.kind = "agent_task", !.role = "lead",
                                                  !.inputs = << >>, !.contract = "text"]], "a")

MCDrafts == {Chain, AgentTask}

Edit(op, step, arg) == [op |-> op, step |-> step, arg |-> arg]

(* Edits that compile and edits that must not: a cycle, a read without its dependency, an unknown input. *)
MCEdits ==
    {Edit("set_dependency", "a", "b"),
     Edit("remove_dependency", "b", "a"),
     Edit("set_step_input", "b", [name |-> "sources", value |-> {"topic"}]),
     Edit("set_step_input", "b", [name |-> "subject", value |-> {}]),
     Edit("add_step", "c", Aggregate({}, {"a"}, {})),
     Edit("set_required", "b", FALSE)}

(* Failures recorded so far; operators meet at most one, or one directory changed from outside. *)
FailedKeys == {k \in DOMAIN intents : Failures(intents[k]) > 0}

NothingAltered ==
    Altered \notin {disk[r] : r \in 1 .. MaxHead} \union {packages[k] : k \in DeployKeys}

MCInit == WorkflowInit /\ focus \in {"authors", "operators"}

MCNext ==
    /\ UNCHANGED focus
    /\ \/ focus = "authors" /\ BundlesNext /\ UNCHANGED deployVars
       \/ /\ focus = "operators" /\ UNCHANGED deployVars
          /\ \/ \E k \in Keys, d \in Drafts :
                   /\ HeadRevision = (IF slot.dep = None THEN 0 ELSE 1)
                   /\ (d = AgentTask) = (HeadRevision = 1)
                   /\ Submit(k, Author1, HeadRevision, d) /\ revisions' # revisions
             \/ NothingAltered /\ slot.dep = None /\ AlterRevision(1)
       \/ /\ focus = "operators" /\ UNCHANGED bundleVars
          /\ DeployNext
          /\ (\E k \in DeployKeys : packages'[k] = Altered /\ packages[k] # Altered) =>
                NothingAltered /\ FailedKeys = {}
          /\ FailedKeys' # FailedKeys => FailedKeys = {}

MCSpec == MCInit /\ [][MCNext]_<<workflowVars, focus>>

MCSymmetry ==
    Permutations(Keys) \union Permutations(DeployKeys)
    \union Permutations(Workers)
=============================================================================
