--------------------------- MODULE WorkflowBundles ---------------------------
(***************************************************************************)
(* The revisions of one workflow bundle: WorkflowStore in                  *)
(* backend/karajan/workflows/store.py with the verified directories of     *)
(* bundle.py and layout.py.                                                *)
(*                                                                         *)
(* A revision is a directory of files and a row that names their digests.  *)
(* The directory is renamed into place before the row commits, so a stop   *)
(* in between leaves a directory without a row; files may be altered       *)
(* afterwards from outside.  An edit reads the head revision in one        *)
(* transaction, rewrites the document outside it, and publishes in         *)
(* another.  A digest stands for the document it was taken of.             *)
(***************************************************************************)
EXTENDS WorkflowCompiler, Sequences

CONSTANTS
    Conversations,  \* conversations of the project
    Keys,           \* command keys of the owner
    Editors,        \* concurrent calls of edit
    Drafts,         \* documents the owner may submit
    Edits,          \* structural edits, see ApplyEdit
    Catalog,        \* role aliases whose binding the gateway resolves
    MaxHead,        \* bound on revisions
    MaxInputs,      \* bound on authoring inputs
    Altered         \* what a directory holds once changed from outside

(* _EDIT_OPERATIONS *)
EditOperations ==
    {"set_dependency", "remove_dependency", "set_role", "set_required", "add_step", "remove_step",
     "set_step_input"}

(* A document lists finitely many steps. *)
ASSUME BundlesAssumption ==
    /\ MaxHead \in Nat
    /\ \A doc \in Drafts : "steps" \in DOMAIN doc /\ IsFiniteSet(StepIds(doc))
    /\ \A edit \in Edits : edit.op \in EditOperations

VARIABLES
    revisions,   \* workflow_bundles rows: revision -> document, conversation, bindings
    disk,        \* revision directories: revision -> document, Altered or None
    authored,    \* workflow_authoring_inputs
    ledger,      \* commands: key -> what was done and the revision it made
    editor       \* per call of edit: where it stands and what it read

bundleVars == <<revisions, disk, authored, ledger, editor>>

HeadRevision == Len(revisions)
NoEdit == [pc |-> "idle", key |-> None, edit |-> None, base |-> 0,
           conversation |-> None, doc |-> None]

BundlesInit ==
    /\ revisions = << >>
    /\ disk = [r \in 1 .. MaxHead |-> None]
    /\ authored = << >>
    /\ ledger = << >>
    /\ editor = [t \in Editors |-> NoEdit]

(* _require_fixed_conversation: the identity belongs to the first that used it. *)
MayOwn(conversation) ==
    /\ revisions # << >> => revisions[HeadRevision].conversation = conversation
    /\ authored # << >> => authored[1].conversation = conversation

(* read_directory and _verified_bundle: the files are those the row names. *)
Verified(r) == r \in DOMAIN revisions /\ disk[r] = revisions[r].doc

(* _binding_index: every declared binding resolves to a pinned revision. *)
BindingIndex(doc) == doc.bindings
BindingsResolve(doc) == doc.bindings \subseteq Catalog

-----------------------------------------------------------------------------
(* Publishing. *)

(* _materialize and _reconcile_materialized: a new directory, or one with these very files. *)
Materializable(r, doc) == disk[r] \in {None, doc}

(* A slip in _publish: the head is not compared. *)
MayPublish_Late(key, conversation, expected, doc) ==
    /\ key \notin DOMAIN ledger
    /\ MayOwn(conversation)
    /\ expected \in 0 .. HeadRevision

(* The guards of _publish.  A key found in the ledger is answered from it. *)
MayPublish(key, conversation, expected, doc) ==
    /\ key \notin DOMAIN ledger
    /\ MayOwn(conversation)
    /\ expected = HeadRevision

(* _publish to its end: directory, row, files, head and ledger in one transaction. *)
Publish(edit, key, conversation, expected, doc, pinned) ==
    LET r == expected + 1 IN
    /\ r <= MaxHead
    /\ MayPublish(key, conversation, expected, doc)
    /\ Materializable(r, doc)
    /\ disk' = [disk EXCEPT ![r] = IF @ = None THEN doc ELSE @]
    /\ revisions' = Append(revisions, [doc |-> doc, conversation |-> conversation,
                                       pinned |-> pinned])
    /\ ledger' = WithRow(ledger, key, [op |-> IF edit = None THEN "submit" ELSE "edit", edit |-> edit,
                               revision |-> Len(revisions')])

(* The process stops after the rename: the directory stays, no row names it. *)
PublishInterrupted(key, conversation, expected, doc) ==
    LET r == expected + 1 IN
    /\ r <= MaxHead
    /\ MayPublish(key, conversation, expected, doc)
    /\ disk[r] = None
    /\ disk' = [disk EXCEPT ![r] = doc]
    /\ UNCHANGED <<revisions, ledger>>

(* create_bundle and revise_bundle: compiled before anything is written. *)
Submit(key, conversation, expected, doc) ==
    /\ BindingsResolve(doc) /\ Compiles(doc, BindingIndex(doc))
    /\ \/ Publish(None, key, conversation, expected, doc, BindingIndex(doc))
       \/ PublishInterrupted(key, conversation, expected, doc)
    /\ UNCHANGED <<authored, editor>>

-----------------------------------------------------------------------------
(* Structural edits. *)

(* A document with a step put in place, and without one. *)
WithStep(doc, s, step) ==
    [doc EXCEPT !.steps =
        [x \in StepIds(doc) \union {s} |-> IF x = s THEN step ELSE doc.steps[x]]]
WithoutStep(doc, s) == [doc EXCEPT !.steps = [x \in StepIds(doc) \ {s} |-> doc.steps[x]]]

(***************************************************************************)
(* _apply_edits, one entry: the document it makes, or None when the entry  *)
(* is refused.  A new step comes with the entry (_new_step).               *)
(***************************************************************************)
ApplyEdit(doc, edit) ==
    LET s == edit.step
        step == doc.steps[s]
    IN
    IF (edit.op = "add_step") = (s \in StepIds(doc)) THEN None
    ELSE CASE edit.op = "add_step" -> WithStep(doc, s, edit.arg)
           [] edit.op = "remove_step" -> WithoutStep(doc, s)
           [] edit.op = "set_dependency" ->
                 WithStep(doc, s, [step EXCEPT !.deps = @ \union {edit.arg}])
           [] edit.op = "remove_dependency" ->
                 WithStep(doc, s, [step EXCEPT !.deps = @ \ {edit.arg}])
           [] edit.op = "set_role" -> WithStep(doc, s, [step EXCEPT !.role = edit.arg])
           [] edit.op = "set_required" -> WithStep(doc, s, [step EXCEPT !.required = edit.arg])
           [] edit.op = "set_step_input" ->
                 WithStep(doc, s, [step EXCEPT !.inputs = WithRow(@, edit.arg.name, edit.arg.value)])

(* edit, first transaction, and the verified read after it. *)
BeginEdit(t, key, conversation, expected, edit) ==
    /\ editor[t].pc = "idle"
    /\ MayPublish(key, conversation, expected, None)
    /\ expected # 0 /\ Verified(expected)
    /\ editor' = [editor EXCEPT ![t] =
                    [pc |-> "edit", key |-> key, edit |-> edit, base |-> expected,
                     conversation |-> conversation, doc |-> revisions[expected].doc]]
    /\ UNCHANGED <<revisions, disk, authored, ledger>>

(* edit, recompiled with the recorded bindings and published against its base. *)
FinishEdit(t) ==
    LET e == editor[t]
        pinned == revisions[e.base].pinned
        doc == ApplyEdit(e.doc, e.edit)
    IN
    /\ e.pc = "edit"
    /\ doc # None /\ Compiles(doc, pinned)
    /\ \/ Publish(e.edit, e.key, e.conversation, e.base, doc, pinned)
       \/ PublishInterrupted(e.key, e.conversation, e.base, doc)
    /\ editor' = [editor EXCEPT ![t] = NoEdit]
    /\ UNCHANGED authored

(* The edit is refused, answered from the ledger, or its process stops. *)
AbandonEdit(t) ==
    /\ editor[t].pc = "edit"
    /\ editor' = [editor EXCEPT ![t] = NoEdit]
    /\ UNCHANGED <<revisions, disk, authored, ledger>>

-----------------------------------------------------------------------------
(* authoring: the text of an instruction, on no revision or on one that exists. *)
Author(key, conversation, base) ==
    /\ key \notin DOMAIN ledger /\ Len(authored) < MaxInputs
    /\ MayOwn(conversation)
    /\ base \in 0 .. HeadRevision
    /\ authored' = Append(authored, [conversation |-> conversation, base |-> base])
    /\ ledger' = WithRow(ledger, key, [op |-> "authoring", edit |-> None, revision |-> Len(authored')])
    /\ UNCHANGED <<revisions, disk, editor>>

(* Files are changed from outside (external). *)
AlterRevision(r) ==
    /\ disk[r] \notin {None, Altered}
    /\ disk' = [disk EXCEPT ![r] = Altered]
    /\ UNCHANGED <<revisions, authored, ledger, editor>>

BundlesNext ==
    \/ \E k \in Keys, c \in Conversations, e \in 0 .. MaxHead, d \in Drafts : Submit(k, c, e, d)
    \/ \E t \in Editors, k \in Keys, c \in Conversations, e \in 0 .. MaxHead, x \in Edits :
          BeginEdit(t, k, c, e, x)
    \/ \E t \in Editors : FinishEdit(t) \/ AbandonEdit(t)
    \/ \E k \in Keys, c \in Conversations, b \in 0 .. MaxHead : Author(k, c, b)
    \/ \E r \in 1 .. MaxHead : AlterRevision(r)

BundlesSpec == BundlesInit /\ [][BundlesNext]_bundleVars

-----------------------------------------------------------------------------
(***************************************************************************)
(* Whatever was submitted and edited, in whatever order, every published   *)
(* revision is a workflow that can be run to its declared outcome.         *)
(***************************************************************************)
PublishedIsRunnable == \A r \in 1 .. HeadRevision : Runnable(revisions[r].doc)

(***************************************************************************)
(* Revisions keep their text.  What an edit command published is its edit  *)
(* of the revision before, although that was read in an earlier            *)
(* transaction; and unless changed from outside, the directory of a        *)
(* published revision holds the document of its row, also when a stopped   *)
(* call had left a directory behind.                                       *)
(***************************************************************************)
RevisionsKeepTheirText ==
    /\ \A k \in DOMAIN ledger :
          LET row == ledger[k] IN
          row.op = "edit" =>
              /\ row.revision \in 2 .. HeadRevision
              /\ revisions[row.revision].doc =
                    ApplyEdit(revisions[row.revision - 1].doc, row.edit)
    /\ \A r \in 1 .. HeadRevision : disk[r] \in {revisions[r].doc, Altered}

(* One conversation owns the bundle from its first use, by text or by revision. *)
OneOwner ==
    Cardinality({revisions[r].conversation : r \in 1 .. HeadRevision}
                \union {authored[i].conversation : i \in DOMAIN authored}) <= 1

(* A bundle keeps its text and its owner. *)
BundlesAreSound == RevisionsKeepTheirText /\ OneOwner
=============================================================================
