-------------------------- MODULE WorkflowCompiler --------------------------
(***************************************************************************)
(* Which workflow documents compile: compile_workflow in                   *)
(* backend/karajan/workflows/compiler.py and the registry of execution     *)
(* kinds and contracts in registry.py.                                     *)
(*                                                                         *)
(* A document is a record.  doc.steps maps each declared step to its kind, *)
(* role alias, dependencies, inputs (the references each named input is    *)
(* bound to), facts (the facts its condition reads, wherever they stand in *)
(* the tree), required flag and output contract.  Shapes, lengths and      *)
(* field names of the YAML are left out: a document here is one that       *)
(* parsed, has no unknown, credential or script field and pins references. *)
(***************************************************************************)
EXTENDS Common, Naturals, FiniteSets

-----------------------------------------------------------------------------
(* The registry. *)

Kinds == {"artifact_aggregate", "agent_task", "deterministic_check", "human_decision",
          "candidate_integrate", "publish_pr"}

AvailableKinds == {"artifact_aggregate"}

(* requires_role and side_effects of a registered kind. *)
RequiresRole(kind) == kind = "agent_task"
WritesOutside(kind) == kind = "publish_pr"

Contracts == {"text", "comparison_report", "repair_patch", "review_verdict", "aggregated_report"}

ContractKind(contract) ==
    CASE contract = "repair_patch" -> "candidate"
      [] contract = "review_verdict" -> "decision"
      [] OTHER -> "text"

(* Fields a condition may read from a result, by their type. *)
FieldType(contract, field) ==
    CASE contract = "text" /\ field = "content" -> "text"
      [] contract = "comparison_report" /\ field = "content" -> "text"
      [] contract = "comparison_report" /\ field = "sources" -> "count"
      [] contract = "repair_patch" /\ field = "files_changed" -> "count"
      [] contract = "review_verdict" /\ field = "verdict" -> "text"
      [] contract = "review_verdict" /\ field = "findings" -> "count"
      [] contract = "aggregated_report" /\ field = "input_count" -> "count"
      [] OTHER -> None

(* The artifact kinds a kind without an adapter is declared to produce. *)
Produces(kind) ==
    CASE kind = "agent_task" -> {"text", "structured", "candidate"}
      [] kind = "deterministic_check" -> {"decision", "structured"}
      [] kind = "human_decision" -> {"decision"}
      [] kind = "candidate_integrate" -> {"candidate"}
      [] kind = "publish_pr" -> {"candidate", "pr"}
      [] OTHER -> {"text", "report"}

-----------------------------------------------------------------------------
(* Steps. *)

StepIds(doc) == DOMAIN doc.steps

(* _role_map and _bindings: aliases resolve to role files, bindings to aliases. *)
RolesResolve(doc) ==
    /\ doc.roles \subseteq doc.roleFiles
    /\ doc.bindings \subseteq doc.roles

(* _step_role. *)
StepRoleFits(doc, s) ==
    LET step == doc.steps[s] IN
    IF step.role = None THEN ~RequiresRole(step.kind) ELSE step.role \in doc.roles

(* _check_bindings_resolved, against the gateway's pinned revisions. *)
BindingsPinned(doc, pinned) ==
    \A s \in StepIds(doc) : doc.steps[s].role \in doc.bindings => doc.steps[s].role \in pinned

(* _check_output_contract. *)
OutputFits(doc, s) ==
    LET step == doc.steps[s] IN
    /\ step.contract \in Contracts
    /\ IF step.kind = "artifact_aggregate" THEN step.contract = "aggregated_report"
       ELSE ContractKind(step.contract) \in Produces(step.kind)

-----------------------------------------------------------------------------
(* Dependencies. *)

(* A slip in _find_cycle: only a step that waits for itself is a cycle. *)
DependenciesAcyclic_Short(doc) == \A s \in StepIds(doc) : s \notin doc.steps[s].deps

(***************************************************************************)
(* _find_cycle reports one exactly when some steps each wait for another   *)
(* of them.                                                                *)
(***************************************************************************)
DependenciesAcyclic(doc) ==
    \A S \in SUBSET StepIds(doc) \ {{}} :
        \E s \in S : doc.steps[s].deps \intersect S = {}

(* _dependencies and _check_dependencies. *)
DependenciesFit(doc) ==
    /\ \A s \in StepIds(doc) : s \notin doc.steps[s].deps
    /\ \A s \in StepIds(doc) : doc.steps[s].deps \subseteq StepIds(doc)
    /\ DependenciesAcyclic(doc)

-----------------------------------------------------------------------------
(* References. *)

(* _contract_of and _artifact_reference: a declared input, or a producer depended on. *)
SourceFits(doc, s, ref) ==
    \/ ref \in doc.inputs
    \/ /\ ref \in StepIds(doc) \ {s}
       /\ ref \in doc.steps[s].deps
       /\ ContractKind(doc.steps[ref].contract) = "text"

(* The references a step reads; its title is text and refers to nothing. *)
SourcesOf(step) == IF "sources" \in DOMAIN step.inputs THEN step.inputs["sources"] ELSE {}

(* _resolve_inputs: only aggregation takes inputs, and it requires its sources. *)
InputsFit(doc, s) ==
    IF doc.steps[s].kind = "artifact_aggregate"
      THEN /\ DOMAIN doc.steps[s].inputs \subseteq {"sources", "title"}
           /\ SourcesOf(doc.steps[s]) # {}
           /\ \A ref \in SourcesOf(doc.steps[s]) : SourceFits(doc, s, ref)
      ELSE DOMAIN doc.steps[s].inputs = {}

(* _check_fact and _check_operand_type: a fact has the type it is compared with. *)
FactFits(doc, s, fact) ==
    CASE fact.form = "input" -> fact.of \in doc.inputs /\ fact.against = "text"
      [] fact.form = "result" ->
            /\ fact.of \in StepIds(doc) \intersect doc.steps[s].deps
            /\ FieldType(doc.steps[fact.of].contract, fact.field) = fact.against
      [] fact.form = "decision" ->
            /\ fact.of \in StepIds(doc) /\ doc.steps[fact.of].kind = "human_decision"
            /\ fact.of \in doc.steps[s].deps
            /\ fact.against = "text"
      [] OTHER -> FALSE

(* _condition_facts and _check_condition_dependencies: no implicit edge, no self reading. *)
ConditionDependenciesFit(doc) ==
    \A s \in StepIds(doc) : \A fact \in doc.steps[s].facts :
        fact.form # "input" /\ fact.of \in StepIds(doc) =>
            fact.of # s /\ fact.of \in doc.steps[s].deps

ReferencesFit(doc) ==
    \A s \in StepIds(doc) :
        InputsFit(doc, s) /\ \A fact \in doc.steps[s].facts : FactFits(doc, s, fact)

-----------------------------------------------------------------------------
(* Outcome and delivery. *)

Conditional(doc, s) == doc.steps[s].facts # {}

(* _completion. *)
CompletionFits(doc) ==
    /\ doc.completion.required # {}
    /\ \A s \in doc.completion.required :
          s \in StepIds(doc) /\ doc.steps[s].required /\ ~Conditional(doc, s)
    /\ doc.completion.artifact \in StepIds(doc)
    /\ doc.completion.artifact \in doc.completion.required

Publishers(doc) == {s \in StepIds(doc) : doc.steps[s].kind = "publish_pr"}

DeliveryKinds == {"report", "patch", "pr"}
ArtifactKindOf(delivery) == IF delivery = "report" THEN "text" ELSE "candidate"

(* _check_delivery_gate. *)
PublishersFit(doc) ==
    /\ Publishers(doc) # {} => doc.delivery = "pr"
    /\ doc.delivery = "pr" =>
          /\ Publishers(doc) # {}
          /\ \A s \in Publishers(doc) :
                doc.steps[s].required /\ ~Conditional(doc, s) /\ s \in doc.completion.required

DeliveryGateFits(doc) ==
    /\ doc.delivery \in DeliveryKinds
    /\ PublishersFit(doc)
    /\ \A x \in doc.expansions : ~\E kind \in x.kinds : WritesOutside(kind)
    /\ ContractKind(doc.steps[doc.completion.artifact].contract) = ArtifactKindOf(doc.delivery)

(* _rework: named steps exist, rounds are bounded. *)
MaximumReworkRounds == 64
ReworkFits(doc) ==
    \A rule \in doc.rework :
        /\ {rule.trigger} \union rule.returns \union rule.invalidates \subseteq StepIds(doc)
        /\ rule.returns # {}
        /\ rule.rounds \in 1 .. MaximumReworkRounds

(* _scheduling and _bounded_depth, when the document declares it. *)
MaximumDepth == 8
SchedulingFits(doc) ==
    doc.scheduler # None =>
        /\ doc.scheduler.role \in doc.roles
        /\ doc.scheduler.depth \in 0 .. MaximumDepth
        /\ \A x \in doc.expansions :
              x.roles \subseteq doc.roles /\ x.kinds \subseteq Kinds /\ x.inputs \subseteq doc.inputs

-----------------------------------------------------------------------------
(* compile_workflow: the document becomes a template, or is refused. *)
Compiles(doc, pinned) ==
    /\ RolesResolve(doc)
    /\ StepIds(doc) # {}
    /\ \A s \in StepIds(doc) : doc.steps[s].kind \in Kinds
    /\ \A s \in StepIds(doc) : StepRoleFits(doc, s) /\ OutputFits(doc, s)
    /\ DependenciesFit(doc)
    /\ ReferencesFit(doc)
    /\ ConditionDependenciesFit(doc)
    /\ BindingsPinned(doc, pinned)
    /\ CompletionFits(doc)
    /\ ReworkFits(doc)
    /\ SchedulingFits(doc)
    /\ DeliveryGateFits(doc)

(* unavailable_execution_kinds of the template. *)
UnavailableKinds(doc) ==
    ({doc.steps[s].kind : s \in StepIds(doc)} \union UNION {x.kinds : x \in doc.expansions})
        \ AvailableKinds

-----------------------------------------------------------------------------
(* What a template promises, stated by running it. *)

(* The steps that can have ended after n rounds, all of whose dependencies ended before. *)
EndedAfter(doc) ==
    LET ended[n \in 0 .. Cardinality(StepIds(doc))] ==
          IF n = 0 THEN {}
          ELSE ended[n - 1] \union {s \in StepIds(doc) : doc.steps[s].deps \subseteq ended[n - 1]}
    IN  ended

(* Every result a step reads, as input or as fact, is there when the step is due. *)
ReadsAreProduced(doc) ==
    LET ended == EndedAfter(doc) IN
    \A s \in StepIds(doc) :
        LET read == (SourcesOf(doc.steps[s]) \union {f.of : f \in doc.steps[s].facts}) \ doc.inputs
        IN  \A n \in DOMAIN ended :
                doc.steps[s].deps \subseteq ended[n] => read \subseteq ended[n]

(* The template can be run to its end, and then has its declared outcome. *)
Runnable(doc) ==
    /\ EndedAfter(doc)[Cardinality(StepIds(doc))] = StepIds(doc)
    /\ ReadsAreProduced(doc)
    /\ ~\E s \in doc.completion.required : Conditional(doc, s)
    /\ ContractKind(doc.steps[doc.completion.artifact].contract) = ArtifactKindOf(doc.delivery)
    /\ (doc.delivery = "pr") = (\E s \in doc.completion.required : WritesOutside(doc.steps[s].kind))
=============================================================================
