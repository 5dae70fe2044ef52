--------------------------- MODULE WorkflowProofs ---------------------------
(***************************************************************************)
(* Workflow bundles and their deployments, for any documents, edits,       *)
(* authors, commands and overlapping executions: what is published can be  *)
(* run to its declared outcome and keeps its text and its owner; what is   *)
(* active, the answers to its commands and the Runs made from it agree.    *)
(***************************************************************************)
EXTENDS WorkflowDeployments, SumTheorems, TLAPS

-----------------------------------------------------------------------------
(***************************************************************************)
(* The compiler.  A document that compiles has no steps that wait for one  *)
(* another, so the rounds of EndedAfter, which are as many as there are    *)
(* steps, leave none behind.                                               *)
(***************************************************************************)
Due(doc, T) == {s \in StepIds(doc) : doc.steps[s].deps \subseteq T}

IsEnding(f, doc) ==
    f = [n \in 0 .. Cardinality(StepIds(doc)) |-> IF n = 0 THEN {} ELSE f[n - 1] \union Due(doc, f[n - 1])]

LEMMA EndedIsTable ==
    ASSUME NEW doc
    PROVE  EndedAfter(doc) = CHOOSE f : IsEnding(f, doc)
  BY Zenon DEF EndedAfter, IsEnding, Due

LEMMA EndedCloses ==
    ASSUME NEW doc, IsFiniteSet(StepIds(doc)), NEW g, g = EndedAfter(doc)
    PROVE  /\ DOMAIN g = 0 .. Cardinality(StepIds(doc))
           /\ g[Cardinality(StepIds(doc))] \in SUBSET StepIds(doc)
           /\ Due(doc, g[Cardinality(StepIds(doc))]) \subseteq g[Cardinality(StepIds(doc))]
<1> DEFINE U == StepIds(doc)
           K == Cardinality(U)
           Next1(T) == Due(doc, T)
           G == [T \in SUBSET U |-> T \union Next1(T)]
<1>1. K \in Nat
  BY FS_CardinalityType
<1>2. \A T \in SUBSET U : Next1(T) \in SUBSET U
  BY DEF Due
<1> HIDE DEF U, Next1
<1>4. G \in [SUBSET U -> SUBSET U]
  BY <1>2
<1>5. Widens(G, U)
  BY DEF Widens
<1>6. {} \in SUBSET U /\ IsFiniteSet(U)
  BY DEF U
<1>7. PICK f : Rounds(f, U, {}, G, K)
  <2> HIDE DEF G, K
  <2> QED BY <1>1, <1>4, <1>6, RoundsExist
<1>8. f = [n \in 0 .. K |-> IF n = 0 THEN {} ELSE f[n - 1] \union Next1(f[n - 1])]
  <2>1. f \in [0 .. K -> SUBSET U] /\ f[0] = {} /\ \A n \in 1 .. K : f[n] = G[f[n - 1]]
    BY <1>7 DEF Rounds
  <2>2. ASSUME NEW n \in 0 .. K PROVE f[n] = IF n = 0 THEN {} ELSE f[n - 1] \union Next1(f[n - 1])
    <3>1. CASE n = 0
      BY <2>1, <3>1
    <3>2. CASE n # 0
      <4>1. n \in 1 .. K /\ n - 1 \in 0 .. K
        BY <1>1, <3>2
      <4>2. f[n - 1] \in SUBSET U
        BY <2>1, <4>1
      <4> QED BY <2>1, <3>2, <4>1, <4>2
    <3> QED BY <3>1, <3>2
  <2> HIDE DEF G, K
  <2> QED BY <2>1, <2>2
<1>9. IsEnding(f, doc)
  BY <1>8 DEF IsEnding, U, Next1
<1>10. IsEnding(g, doc)
  <2>1. g = CHOOSE h : IsEnding(h, doc)
    BY EndedIsTable
  <2> QED BY <1>9, <2>1
<1>12. g = [n \in 0 .. K |-> IF n = 0 THEN {} ELSE g[n - 1] \union Next1(g[n - 1])]
  BY <1>10 DEF IsEnding, U, Next1
<1>13. Rounds(g, U, {}, G, K)
  <2>1. g = [n \in 0 .. K |-> g[n]] /\ g[0] = {}
    <3> HIDE DEF K
    <3> QED BY <1>1, <1>12
  <2>2. ASSUME NEW n \in 1 .. K, g[n - 1] \in SUBSET U PROVE g[n] = G[g[n - 1]]
    <3>1. n \in 0 .. K /\ n # 0
      BY <1>1
    <3>2. g[n] = g[n - 1] \union Next1(g[n - 1])
      <4> HIDE DEF K
      <4> QED BY <1>12, <3>1
    <3> QED BY <2>2, <3>2
  <2> HIDE DEF G, K
  <2> QED BY <1>1, <1>4, <1>6, <2>1, <2>2, RoundsTyped
<1>14. g[K] \in SUBSET U /\ G[g[K]] = g[K]
  <2> HIDE DEF G
  <2>1. PICK D \in SUBSET U : D = {}
    OBVIOUS
  <2>2. Rounds(g, U, D, G, Cardinality(U))
    BY <1>13, <2>1
  <2>3. RoundsEnd(g, U, D, G)
    BY <1>1, <1>4, <1>5, <1>6, <2>2, RoundsClose
  <2> QED BY <2>3 DEF RoundsEnd
<1>15. Next1(g[K]) \subseteq g[K]
  <2> HIDE DEF K
  <2> QED BY <1>14
<1>16. DOMAIN g = 0 .. K
  BY <1>12
<1> QED BY <1>14, <1>15, <1>16 DEF Next1, U

(* Every step ends. *)
LEMMA CompiledEnds ==
    ASSUME NEW doc, IsFiniteSet(StepIds(doc)), DependenciesFit(doc)
    PROVE  EndedAfter(doc)[Cardinality(StepIds(doc))] = StepIds(doc)
<1> DEFINE E == EndedAfter(doc)[Cardinality(StepIds(doc))]
           Left == StepIds(doc) \ E
<1>1. E \in SUBSET StepIds(doc) /\ Due(doc, E) \subseteq E
  BY EndedCloses
<1> SUFFICES ASSUME Left # {} PROVE FALSE
  BY <1>1
<1>2. PICK s \in Left : doc.steps[s].deps \intersect Left = {}
  BY DEF DependenciesFit, DependenciesAcyclic
<1>3. doc.steps[s].deps \subseteq StepIds(doc)
  BY DEF DependenciesFit
<1>4. doc.steps[s].deps \subseteq E
  BY <1>2, <1>3
<1>5. s \in Due(doc, E)
  BY <1>4 DEF Due
<1> QED BY <1>1, <1>5

(* What a step reads, it waits for. *)
LEMMA CompiledReads ==
    ASSUME NEW doc, ReferencesFit(doc), NEW s \in StepIds(doc)
    PROVE  (SourcesOf(doc.steps[s]) \union {f.of : f \in doc.steps[s].facts}) \ doc.inputs
               \subseteq doc.steps[s].deps
<1>1. ASSUME NEW ref \in SourcesOf(doc.steps[s]) PROVE ref \in doc.inputs \/ ref \in doc.steps[s].deps
  BY <1>1 DEF ReferencesFit, InputsFit, SourceFits, SourcesOf
<1>2. ASSUME NEW f \in doc.steps[s].facts PROVE f.of \in doc.inputs \/ f.of \in doc.steps[s].deps
  <2>1. FactFits(doc, s, f)
    BY <1>2 DEF ReferencesFit
  <2> QED BY <2>1 DEF FactFits
<1> QED BY <1>1, <1>2

LEMMA CompiledIsRunnable ==
    ASSUME NEW doc, NEW pinned, IsFiniteSet(StepIds(doc)), Compiles(doc, pinned)
    PROVE  Runnable(doc)
<1>1. /\ DependenciesFit(doc) /\ ReferencesFit(doc) /\ CompletionFits(doc) /\ DeliveryGateFits(doc)
  BY DEF Compiles
<1>2. EndedAfter(doc)[Cardinality(StepIds(doc))] = StepIds(doc)
  BY <1>1, CompiledEnds
<1>3. ReadsAreProduced(doc)
  BY <1>1, CompiledReads DEF ReadsAreProduced
<1>4. ~\E s \in doc.completion.required : Conditional(doc, s)
  BY <1>1 DEF CompletionFits
<1>5. ContractKind(doc.steps[doc.completion.artifact].contract) = ArtifactKindOf(doc.delivery)
  BY <1>1 DEF DeliveryGateFits
<1>6. doc.delivery = "pr" => \E s \in doc.completion.required : WritesOutside(doc.steps[s].kind)
  BY <1>1 DEF DeliveryGateFits, PublishersFit, Publishers, WritesOutside
<1>7. (\E s \in doc.completion.required : WritesOutside(doc.steps[s].kind)) => doc.delivery = "pr"
  BY <1>1 DEF DeliveryGateFits, PublishersFit, Publishers, WritesOutside, CompletionFits
<1>8. (doc.delivery = "pr") = (\E s \in doc.completion.required : WritesOutside(doc.steps[s].kind))
  BY <1>6, <1>7
<1> QED BY <1>2, <1>3, <1>4, <1>5, <1>8, Zenon DEF Runnable

-----------------------------------------------------------------------------
(***************************************************************************)
(* The bundle.  An edit that is under way holds the text of its base, and  *)
(* publishing compares the base with the head: what it read is what it     *)
(* replaces.  The first use decides the owner.                             *)
(***************************************************************************)
Written(doc) == "steps" \in DOMAIN doc /\ IsFiniteSet(StepIds(doc))

PublishedInv ==
    /\ \E S : revisions \in Seq(S)
    /\ DOMAIN disk = 1 .. MaxHead /\ Len(revisions) <= MaxHead
    /\ \A r \in 1 .. Len(revisions) :
          /\ Written(revisions[r].doc) /\ Compiles(revisions[r].doc, revisions[r].pinned)
          /\ disk[r] \in {revisions[r].doc, Altered}

EditMade(row) ==
    /\ row.revision \in 2 .. Len(revisions)
    /\ revisions[row.revision].doc = ApplyEdit(revisions[row.revision - 1].doc, row.edit)

LedgerInv == \A k \in DOMAIN ledger : ledger[k].op = "edit" => EditMade(ledger[k])

EditFollows(e) ==
    e.pc = "edit" =>
        /\ e.base \in 1 .. Len(revisions) /\ e.doc = revisions[e.base].doc /\ e.edit \in Edits

EditorsInv == DOMAIN editor = Editors /\ \A t \in Editors : EditFollows(editor[t])

Owners == {revisions[r].conversation : r \in 1 .. Len(revisions)}
          \union {authored[i].conversation : i \in DOMAIN authored}

OwnerInv == (\E S : authored \in Seq(S)) /\ \A c, d \in Owners : c = d

BundlesInv == PublishedInv /\ LedgerInv /\ EditorsInv /\ OwnerInv

(* An edit of a document is a document. *)
LEMMA EditedIsWritten ==
    ASSUME NEW doc, NEW edit \in Edits, Written(doc), ApplyEdit(doc, edit) # None
    PROVE  Written(ApplyEdit(doc, edit))
<1> DEFINE S == StepIds(doc)
<1>1. IsFiniteSet(S) /\ "steps" \in DOMAIN doc
  BY DEF Written
<1>2. ASSUME NEW s, NEW step PROVE Written(WithStep(doc, s, step))
  <2>1. PICK q : q = [x \in S \union {s} |-> IF x = s THEN step ELSE doc.steps[x]]
    OBVIOUS
  <2>2. DOMAIN q = S \union {s} /\ IsFiniteSet(S \union {s})
    BY <1>1, <2>1, FS_AddElement
  <2>3. PICK d : d = [doc EXCEPT !.steps = q]
    OBVIOUS
  <2>4. d.steps = q /\ "steps" \in DOMAIN d
    BY <1>1, <2>3
  <2>5. WithStep(doc, s, step) = d
    BY <2>1, <2>3 DEF WithStep
  <2> QED BY <2>2, <2>4, <2>5 DEF Written, StepIds
<1>3. ASSUME NEW s PROVE Written(WithoutStep(doc, s))
  <2>1. PICK q : q = [x \in S \ {s} |-> doc.steps[x]]
    OBVIOUS
  <2>2. DOMAIN q = S \ {s} /\ IsFiniteSet(S \ {s})
    BY <1>1, <2>1, FS_Subset
  <2>3. PICK d : d = [doc EXCEPT !.steps = q]
    OBVIOUS
  <2>4. d.steps = q /\ "steps" \in DOMAIN d
    BY <1>1, <2>3
  <2>5. WithoutStep(doc, s) = d
    BY <2>1, <2>3 DEF WithoutStep
  <2> QED BY <2>2, <2>4, <2>5 DEF Written, StepIds
<1>4. edit.op \in EditOperations
  BY BundlesAssumption
<1> DEFINE s == edit.step
           old == doc.steps[s]
<1>5. CASE edit.op = "add_step"
  BY <1>2, <1>5 DEF ApplyEdit
<1>6. CASE edit.op = "remove_step"
  BY <1>3, <1>6 DEF ApplyEdit
<1>7. CASE edit.op = "set_dependency"
  <2>1. PICK step : step = [old EXCEPT !.deps = @ \union {edit.arg}]
    OBVIOUS
  <2>2. ApplyEdit(doc, edit) = WithStep(doc, s, step)
    BY <1>7, <2>1 DEF ApplyEdit
  <2> QED BY <1>2, <2>2
<1>8. CASE edit.op = "remove_dependency"
  <2>1. PICK step : step = [old EXCEPT !.deps = @ \ {edit.arg}]
    OBVIOUS
  <2>2. ApplyEdit(doc, edit) = WithStep(doc, s, step)
    BY <1>8, <2>1 DEF ApplyEdit
  <2> QED BY <1>2, <2>2
<1>9. CASE edit.op = "set_role"
  <2>1. PICK step : step = [old EXCEPT !.role = edit.arg]
    OBVIOUS
  <2>2. ApplyEdit(doc, edit) = WithStep(doc, s, step)
    BY <1>9, <2>1 DEF ApplyEdit
  <2> QED BY <1>2, <2>2
<1>10. CASE edit.op = "set_required"
  <2>1. PICK step : step = [old EXCEPT !.required = edit.arg]
    OBVIOUS
  <2>2. ApplyEdit(doc, edit) = WithStep(doc, s, step)
    BY <1>10, <2>1 DEF ApplyEdit
  <2> QED BY <1>2, <2>2
<1>11. CASE edit.op = "set_step_input"
  <2>1. PICK step : step = [old EXCEPT !.inputs = WithRow(@, edit.arg.name, edit.arg.value)]
    OBVIOUS
  <2>2. ApplyEdit(doc, edit) = WithStep(doc, s, step)
    BY <1>11, <2>1 DEF ApplyEdit
  <2> QED BY <1>2, <2>2
<1> QED BY <1>4, <1>5, <1>6, <1>7, <1>8, <1>9, <1>10, <1>11 DEF EditOperations

(* Revisions are added at the end: what was said of the others stays true. *)
RevisionsKept ==
    \A r \in 1 .. Len(revisions) : r \in 1 .. Len(revisions') /\ revisions'[r] = revisions[r]

LEMMA PublishedGrows ==
    ASSUME NEW x, \E S : revisions \in Seq(S), revisions' = Append(revisions, x)
    PROVE  /\ Len(revisions') = Len(revisions) + 1 /\ Len(revisions) \in Nat
           /\ revisions'[Len(revisions) + 1] = x
           /\ \A r \in 1 .. Len(revisions) : revisions'[r] = revisions[r]
           /\ \A row : EditMade(row) => EditMade(row)'
           /\ \A e : EditFollows(e) => EditFollows(e)'
<1>1. /\ Len(revisions') = Len(revisions) + 1 /\ Len(revisions) \in Nat
      /\ revisions'[Len(revisions) + 1] = x
      /\ \A r \in 1 .. Len(revisions) : revisions'[r] = revisions[r]
  BY Appended
<1>2. ASSUME NEW row, EditMade(row) PROVE EditMade(row)'
  <2>1. row.revision \in 1 .. Len(revisions) /\ row.revision - 1 \in 1 .. Len(revisions)
        /\ row.revision \in 2 .. Len(revisions) + 1
    BY <1>1, <1>2 DEF EditMade
  <2> QED BY <1>1, <1>2, <2>1 DEF EditMade
<1>3. ASSUME NEW e, EditFollows(e) PROVE EditFollows(e)'
  BY <1>1, <1>3 DEF EditFollows
<1> QED BY <1>1, <1>2, <1>3

(* Who may add to the bundle is its only owner. *)
LEMMA SoleOwner ==
    ASSUME BundlesInv, NEW conversation, MayOwn(conversation)
    PROVE  \A c \in Owners : c = conversation
<1>1. CASE revisions # << >>
  <2>1. Len(revisions) \in 1 .. Len(revisions)
    BY <1>1 DEF BundlesInv, PublishedInv
  <2>2. revisions[Len(revisions)].conversation = conversation
    BY <1>1 DEF MayOwn, HeadRevision
  <2>3. conversation \in Owners
    BY <2>1, <2>2 DEF Owners
  <2> QED BY <2>3 DEF BundlesInv, OwnerInv
<1>2. CASE authored # << >>
  <2>1. 1 \in DOMAIN authored
    BY <1>2 DEF BundlesInv, OwnerInv
  <2>2. authored[1].conversation = conversation
    BY <1>2 DEF MayOwn
  <2>3. conversation \in Owners
    BY <2>1, <2>2 DEF Owners
  <2> QED BY <2>3 DEF BundlesInv, OwnerInv
<1>3. CASE revisions = << >> /\ authored = << >>
  BY <1>3 DEF Owners
<1> QED BY <1>1, <1>2, <1>3

LEMMA PublishKeeps ==
    ASSUME BundlesInv, NEW edit, NEW key, NEW conversation, NEW expected, NEW doc, NEW pinned,
           Publish(edit, key, conversation, expected, doc, pinned), Written(doc), Compiles(doc, pinned),
           edit # None => expected \in 1 .. Len(revisions) /\ doc = ApplyEdit(revisions[expected].doc, edit),
           UNCHANGED authored
    PROVE  /\ PublishedInv' /\ LedgerInv' /\ OwnerInv' /\ RevisionsKept
           /\ \A e : EditFollows(e) => EditFollows(e)'
<1> DEFINE head == Len(revisions)
<1>1. PICK x : x = [doc |-> doc, conversation |-> conversation, pinned |-> pinned]
  OBVIOUS
<1>2. revisions' = Append(revisions, x) /\ expected = head /\ head + 1 <= MaxHead
  BY <1>1 DEF Publish, MayPublish, HeadRevision
<1>3. \E S : revisions \in Seq(S)
  BY DEF BundlesInv, PublishedInv
<1>4. /\ Len(revisions') = head + 1 /\ head \in Nat /\ revisions'[head + 1] = x
      /\ \A r \in 1 .. head : revisions'[r] = revisions[r]
      /\ \A row : EditMade(row) => EditMade(row)'
      /\ \A e : EditFollows(e) => EditFollows(e)'
  BY <1>2, <1>3, PublishedGrows
<1>5. x.doc = doc /\ x.conversation = conversation /\ x.pinned = pinned
  BY <1>1
<1>6. MaxHead \in Nat /\ DOMAIN disk = 1 .. MaxHead
  BY BundlesAssumption DEF BundlesInv, PublishedInv
<1>7. DOMAIN disk' = 1 .. MaxHead /\ disk'[head + 1] = doc /\ \A r \in 1 .. head : disk'[r] = disk[r]
  <2>1. head + 1 \in 1 .. MaxHead /\ \A r \in 1 .. head : r \in 1 .. MaxHead /\ r # head + 1
    BY <1>2, <1>4, <1>6
  <2>2. disk' = [disk EXCEPT ![head + 1] = IF disk[head + 1] = None THEN doc ELSE disk[head + 1]]
        /\ disk[head + 1] \in {None, doc}
    BY <1>2 DEF Publish, Materializable
  <2> QED BY <1>6, <2>1, <2>2
<1>8. PublishedInv'
  <2>1. \E S : revisions' \in Seq(S)
    BY <1>2, <1>3, Appended
  <2>2. ASSUME NEW r \in 1 .. head + 1
        PROVE  /\ Written(revisions'[r].doc) /\ Compiles(revisions'[r].doc, revisions'[r].pinned)
               /\ disk'[r] \in {revisions'[r].doc, Altered}
    <3>1. CASE r = head + 1
      BY <1>4, <1>5, <1>7, <3>1
    <3>2. CASE r # head + 1
      <4>1. r \in 1 .. head
        BY <1>4, <3>2
      <4>2. /\ Written(revisions[r].doc) /\ Compiles(revisions[r].doc, revisions[r].pinned)
            /\ disk[r] \in {revisions[r].doc, Altered}
        BY <4>1 DEF BundlesInv, PublishedInv
      <4> QED BY <1>4, <1>7, <4>1, <4>2
    <3> QED BY <3>1, <3>2
  <2> QED BY <1>2, <1>4, <1>7, <2>1, <2>2 DEF PublishedInv
<1>9. LedgerInv'
  <2>1. PICK row : row = [op |-> IF edit = None THEN "submit" ELSE "edit", edit |-> edit,
                          revision |-> Len(revisions')]
    OBVIOUS
  <2>2. row.op = (IF edit = None THEN "submit" ELSE "edit") /\ row.edit = edit /\ row.revision = head + 1
    BY <1>4, <2>1
  <2>3. ledger' = WithRow(ledger, key, row)
    BY <2>1 DEF Publish
  <2>4. row.op = "edit" => EditMade(row)'
    <3> HAVE row.op = "edit"
    <3>1. edit # None
      BY <2>2
    <3>2. head \in 1 .. Len(revisions) /\ doc = ApplyEdit(revisions[head].doc, edit)
      BY <1>2, <3>1
    <3>3. revisions'[head] = revisions[head] /\ head + 1 \in 2 .. head + 1 /\ head + 1 - 1 = head
      BY <1>4, <3>2
    <3> QED BY <1>4, <1>5, <2>2, <3>2, <3>3 DEF EditMade
  <2>5. ASSUME NEW k \in DOMAIN ledger', k # key, ledger'[k].op = "edit" PROVE EditMade(ledger[k])'
    <3>1. k \in DOMAIN ledger /\ ledger'[k] = ledger[k]
      BY <2>3, <2>5 DEF WithRow
    <3>2. PICK old : old = ledger[k]
      OBVIOUS
    <3>3. EditMade(old)
      BY <2>5, <3>1, <3>2 DEF BundlesInv, LedgerInv
    <3>4. EditMade(old)'
      BY <1>4, <3>3
    <3> QED BY <3>1, <3>2, <3>4
  <2>6. ledger'[key] = row
    BY <2>3 DEF WithRow
  <2>7. ASSUME NEW k \in DOMAIN ledger', ledger'[k].op = "edit" PROVE EditMade(ledger[k])'
    BY <2>4, <2>5, <2>6, <2>7
  <2> QED BY <2>7 DEF LedgerInv
<1>10. OwnerInv'
  <2>1. \A c \in Owners : c = conversation
    BY SoleOwner DEF Publish, MayPublish
  <2>2. \A c \in Owners' : c = conversation
    <3> SUFFICES ASSUME NEW c \in Owners' PROVE c = conversation
      OBVIOUS
    <3>1. CASE \E i \in DOMAIN authored : c = authored[i].conversation
      BY <2>1, <3>1 DEF Owners
    <3>2. CASE \E r \in 1 .. head + 1 : c = revisions'[r].conversation
      <4>1. PICK r \in 1 .. head + 1 : c = revisions'[r].conversation
        BY <3>2
      <4>2. CASE r = head + 1
        BY <1>4, <1>5, <4>1, <4>2
      <4>3. CASE r # head + 1
        <5>1. r \in 1 .. head /\ c = revisions[r].conversation
          BY <1>4, <4>1, <4>3
        <5> QED BY <2>1, <5>1 DEF Owners
      <4> QED BY <4>2, <4>3
    <3> QED BY <1>4, <3>1, <3>2 DEF Owners
  <2> QED BY <2>2 DEF OwnerInv, BundlesInv
<1>11. RevisionsKept
  BY <1>4 DEF RevisionsKept
<1> QED BY <1>4, <1>8, <1>9, <1>10, <1>11

LEMMA InterruptedKeeps ==
    ASSUME BundlesInv, NEW key, NEW conversation, NEW expected, NEW doc,
           PublishInterrupted(key, conversation, expected, doc), UNCHANGED authored
    PROVE  /\ PublishedInv' /\ LedgerInv' /\ OwnerInv' /\ RevisionsKept
           /\ \A e : EditFollows(e) => EditFollows(e)'
<1>1. expected = Len(revisions) /\ disk' = [disk EXCEPT ![Len(revisions) + 1] = doc]
      /\ UNCHANGED <<revisions, ledger, authored>>
  BY DEF PublishInterrupted, MayPublish, HeadRevision
<1>2. Len(revisions) \in Nat
  BY DEF BundlesInv, PublishedInv
<1>3. DOMAIN disk' = DOMAIN disk /\ \A r \in 1 .. Len(revisions) : disk'[r] = disk[r]
  <2>1. \A r \in 1 .. Len(revisions) : r \in DOMAIN disk /\ r # Len(revisions) + 1
    BY <1>2, BundlesAssumption DEF BundlesInv, PublishedInv
  <2> QED BY <1>1, <2>1
<1>4. PublishedInv'
  BY <1>1, <1>3 DEF BundlesInv, PublishedInv
<1> QED BY <1>1, <1>4 DEF BundlesInv, LedgerInv, OwnerInv, Owners, EditMade, EditFollows, RevisionsKept

(* Calls of edit other than the one that ends keep what they read. *)
LEMMA EditorEnds ==
    ASSUME EditorsInv, NEW t \in Editors, editor' = [editor EXCEPT ![t] = NoEdit],
           \A e : EditFollows(e) => EditFollows(e)'
    PROVE  EditorsInv'
<1>1. DOMAIN editor' = Editors
  BY DEF EditorsInv
<1>2. ASSUME NEW u \in Editors PROVE EditFollows(editor[u])'
  <2>1. PICK e : e = editor'[u]
    OBVIOUS
  <2>2. EditFollows(e)
    <3>1. CASE u = t
      BY <2>1, <3>1 DEF EditorsInv, EditFollows, NoEdit
    <3>2. CASE u # t
      BY <2>1, <3>2 DEF EditorsInv
    <3> QED BY <3>1, <3>2
  <2> QED BY <2>1, <2>2
<1> QED BY <1>1, <1>2 DEF EditorsInv

LEMMA EditorsStay ==
    ASSUME EditorsInv, UNCHANGED editor, \A e : EditFollows(e) => EditFollows(e)'
    PROVE  EditorsInv'
<1>1. ASSUME NEW u \in Editors PROVE EditFollows(editor[u])'
  <2>1. PICK e : e = editor[u]
    OBVIOUS
  <2>2. EditFollows(e)'
    BY <2>1 DEF EditorsInv
  <2> QED BY <2>1, <2>2
<1> QED BY <1>1 DEF EditorsInv

LEMMA SubmitKeeps ==
    ASSUME BundlesInv, NEW key, NEW conversation, NEW expected, NEW doc \in Drafts,
           Submit(key, conversation, expected, doc)
    PROVE  BundlesInv' /\ RevisionsKept
<1>1. Written(doc) /\ Compiles(doc, BindingIndex(doc)) /\ UNCHANGED <<authored, editor>>
  BY BundlesAssumption DEF Submit, Written
<1>2. /\ PublishedInv' /\ LedgerInv' /\ OwnerInv' /\ RevisionsKept
      /\ \A e : EditFollows(e) => EditFollows(e)'
  <2>1. CASE Publish(None, key, conversation, expected, doc, BindingIndex(doc))
    <3>1. PICK pinned : pinned = BindingIndex(doc)
      OBVIOUS
    <3>2. PICK edit : edit = None
      OBVIOUS
    <3> QED BY <1>1, <2>1, <3>1, <3>2, PublishKeeps
  <2>2. CASE PublishInterrupted(key, conversation, expected, doc)
    BY <1>1, <2>2, InterruptedKeeps
  <2> QED BY <2>1, <2>2 DEF Submit
<1> QED BY <1>1, <1>2, EditorsStay DEF BundlesInv

LEMMA BeginEditKeeps ==
    ASSUME BundlesInv, NEW t \in Editors, NEW key, NEW conversation, NEW expected, NEW edit \in Edits,
           BeginEdit(t, key, conversation, expected, edit)
    PROVE  BundlesInv' /\ RevisionsKept
<1>1. UNCHANGED <<revisions, disk, authored, ledger>>
  BY DEF BeginEdit
<1>2. PublishedInv' /\ LedgerInv' /\ OwnerInv' /\ RevisionsKept
  BY <1>1 DEF BundlesInv, PublishedInv, LedgerInv, OwnerInv, Owners, EditMade, RevisionsKept
<1>3. PICK e : e = [pc |-> "edit", key |-> key, edit |-> edit, base |-> expected,
                    conversation |-> conversation, doc |-> revisions[expected].doc]
  OBVIOUS
<1>4. editor' = [editor EXCEPT ![t] = e] /\ expected \in DOMAIN revisions
  BY <1>3 DEF BeginEdit, Verified
<1>5. expected \in 1 .. Len(revisions)
  BY <1>4 DEF BundlesInv, PublishedInv
<1>6. EditFollows(e)'
  BY <1>1, <1>3, <1>5 DEF EditFollows
<1>7. \A x : EditFollows(x) => EditFollows(x)'
  BY <1>1 DEF EditFollows
<1>8. ASSUME NEW u \in Editors PROVE EditFollows(editor[u])'
  <2>1. CASE u = t
    BY <1>4, <1>6, <2>1 DEF BundlesInv, EditorsInv
  <2>2. CASE u # t
    <3>1. PICK x : x = editor[u]
      OBVIOUS
    <3>2. EditFollows(x)' /\ x = editor'[u]
      BY <1>4, <1>7, <2>2, <3>1 DEF BundlesInv, EditorsInv
    <3> QED BY <3>2
  <2> QED BY <2>1, <2>2
<1>9. DOMAIN editor' = Editors
  BY <1>4 DEF BundlesInv, EditorsInv
<1> QED BY <1>2, <1>8, <1>9 DEF BundlesInv, EditorsInv

LEMMA FinishEditKeeps ==
    ASSUME BundlesInv, NEW t \in Editors, FinishEdit(t)
    PROVE  BundlesInv' /\ RevisionsKept
<1>1. PICK e : e = editor[t]
  OBVIOUS
<1>2. EditFollows(e) /\ e.pc = "edit"
  BY <1>1 DEF BundlesInv, EditorsInv, FinishEdit
<1>3. e.base \in 1 .. Len(revisions) /\ e.doc = revisions[e.base].doc /\ e.edit \in Edits
  BY <1>2 DEF EditFollows
<1>4. PICK pinned : pinned = revisions[e.base].pinned
  OBVIOUS
<1>5. PICK doc : doc = ApplyEdit(e.doc, e.edit)
  OBVIOUS
<1>6. /\ doc # None /\ Compiles(doc, pinned)
      /\ \/ Publish(e.edit, e.key, e.conversation, e.base, doc, pinned)
         \/ PublishInterrupted(e.key, e.conversation, e.base, doc)
      /\ editor' = [editor EXCEPT ![t] = NoEdit] /\ UNCHANGED authored
  BY <1>1, <1>4, <1>5 DEF FinishEdit
<1>7. Written(doc)
  <2>1. Written(e.doc)
    BY <1>3 DEF BundlesInv, PublishedInv
  <2> QED BY <1>3, <1>5, <1>6, <2>1, EditedIsWritten
<1>8. doc = ApplyEdit(revisions[e.base].doc, e.edit)
  BY <1>3, <1>5
<1>9. /\ PublishedInv' /\ LedgerInv' /\ OwnerInv' /\ RevisionsKept
      /\ \A x : EditFollows(x) => EditFollows(x)'
  <2>1. CASE Publish(e.edit, e.key, e.conversation, e.base, doc, pinned)
    BY <1>3, <1>6, <1>7, <1>8, <2>1, PublishKeeps
  <2>2. CASE PublishInterrupted(e.key, e.conversation, e.base, doc)
    BY <1>6, <2>2, InterruptedKeeps
  <2> QED BY <1>6, <2>1, <2>2
<1> QED BY <1>6, <1>9, EditorEnds DEF BundlesInv

LEMMA AbandonEditKeeps ==
    ASSUME BundlesInv, NEW t \in Editors, AbandonEdit(t)
    PROVE  BundlesInv' /\ RevisionsKept
<1>1. UNCHANGED <<revisions, disk, authored, ledger>> /\ editor' = [editor EXCEPT ![t] = NoEdit]
  BY DEF AbandonEdit
<1>2. PublishedInv' /\ LedgerInv' /\ OwnerInv' /\ RevisionsKept
  BY <1>1 DEF BundlesInv, PublishedInv, LedgerInv, OwnerInv, Owners, EditMade, RevisionsKept
<1>3. \A x : EditFollows(x) => EditFollows(x)'
  BY <1>1 DEF EditFollows
<1> QED BY <1>1, <1>2, <1>3, EditorEnds DEF BundlesInv

LEMMA AlterRevisionKeeps ==
    ASSUME BundlesInv, NEW a \in 1 .. MaxHead, AlterRevision(a)
    PROVE  BundlesInv' /\ RevisionsKept
<1>1. UNCHANGED <<revisions, authored, ledger, editor>> /\ disk' = [disk EXCEPT ![a] = Altered]
  BY DEF AlterRevision
<1>2. DOMAIN disk' = DOMAIN disk /\ \A r \in DOMAIN disk : disk'[r] \in {disk[r], Altered}
  BY <1>1
<1>3. Len(revisions) \in Nat
  BY DEF BundlesInv, PublishedInv
<1>4. \A r \in 1 .. Len(revisions) : r \in DOMAIN disk
  BY <1>3, BundlesAssumption DEF BundlesInv, PublishedInv
<1>5. PublishedInv'
  BY <1>1, <1>2, <1>4 DEF BundlesInv, PublishedInv
<1>6. LedgerInv' /\ OwnerInv' /\ EditorsInv' /\ RevisionsKept
  BY <1>1 DEF BundlesInv, LedgerInv, OwnerInv, Owners, EditMade, EditorsInv, EditFollows, RevisionsKept
<1> QED BY <1>5, <1>6 DEF BundlesInv

LEMMA AuthorKeeps ==
    ASSUME BundlesInv, NEW key, NEW conversation, NEW base, Author(key, conversation, base)
    PROVE  BundlesInv' /\ RevisionsKept
<1>1. UNCHANGED <<revisions, disk, editor>> /\ key \notin DOMAIN ledger
  BY DEF Author
<1>2. PublishedInv' /\ EditorsInv' /\ RevisionsKept
  BY <1>1 DEF BundlesInv, PublishedInv, EditorsInv, EditFollows, RevisionsKept
<1>3. LedgerInv'
  <2>1. PICK row : row = [op |-> "authoring", edit |-> None, revision |-> Len(authored')]
    OBVIOUS
  <2>2. ledger' = WithRow(ledger, key, row) /\ row.op = "authoring"
    BY <2>1 DEF Author
  <2>3. ASSUME NEW k \in DOMAIN ledger', ledger'[k].op = "edit" PROVE EditMade(ledger[k])'
    <3>1. k # key
      BY <2>2, <2>3 DEF WithRow
    <3>2. k \in DOMAIN ledger /\ ledger'[k] = ledger[k]
      BY <2>2, <3>1 DEF WithRow
    <3>3. EditMade(ledger[k])
      BY <2>3, <3>2 DEF BundlesInv, LedgerInv
    <3> QED BY <1>1, <3>2, <3>3 DEF EditMade
  <2> QED BY <2>3 DEF LedgerInv
<1>4. OwnerInv'
  <2>1. PICK x : x = [conversation |-> conversation, base |-> base]
    OBVIOUS
  <2>2. authored' = Append(authored, x) /\ x.conversation = conversation
    BY <2>1 DEF Author
  <2>3. \E S : authored \in Seq(S)
    BY DEF BundlesInv, OwnerInv
  <2>4. /\ Len(authored') = Len(authored) + 1 /\ Len(authored) \in Nat
        /\ authored'[Len(authored) + 1] = x
        /\ \A i \in 1 .. Len(authored) : authored'[i] = authored[i]
    BY <2>2, <2>3, Appended
  <2>8. \E S : authored' \in Seq(S)
    BY <2>2, <2>3, Appended
  <2>5. \A c \in Owners : c = conversation
    BY SoleOwner DEF Author
  <2>6. ASSUME NEW i \in DOMAIN authored' PROVE authored'[i].conversation = conversation
    <3>1. i \in 1 .. Len(authored) + 1
      BY <2>4
    <3>2. CASE i = Len(authored) + 1
      BY <2>2, <2>4, <3>2
    <3>3. CASE i # Len(authored) + 1
      <4>1. i \in 1 .. Len(authored)
        BY <2>4, <3>1, <3>3
      <4>2. i \in DOMAIN authored
        BY <2>3, <4>1
      <4>3. authored[i].conversation \in Owners
        BY <4>2 DEF Owners
      <4> QED BY <2>4, <2>5, <4>1, <4>3
    <3> QED BY <3>2, <3>3
  <2>7. \A c \in Owners' : c = conversation
    BY <1>1, <2>5, <2>6 DEF Owners
  <2> QED BY <2>7, <2>8 DEF OwnerInv
<1> QED BY <1>2, <1>3, <1>4 DEF BundlesInv

LEMMA BundlesStep ==
    ASSUME BundlesInv, [BundlesNext]_bundleVars
    PROVE  BundlesInv' /\ RevisionsKept
<1>1. CASE UNCHANGED bundleVars
  BY <1>1 DEF bundleVars, BundlesInv, PublishedInv, LedgerInv, OwnerInv, Owners, EditMade, EditorsInv,
              EditFollows, RevisionsKept
<1>2. CASE \E k \in Keys, c \in Conversations, e \in 0 .. MaxHead, d \in Drafts : Submit(k, c, e, d)
  BY <1>2, SubmitKeeps
<1>3. CASE \E t \in Editors, k \in Keys, c \in Conversations, e \in 0 .. MaxHead, x \in Edits :
              BeginEdit(t, k, c, e, x)
  BY <1>3, BeginEditKeeps
<1>4. CASE \E t \in Editors : FinishEdit(t) \/ AbandonEdit(t)
  BY <1>4, FinishEditKeeps, AbandonEditKeeps
<1>5. CASE \E k \in Keys, c \in Conversations, b \in 0 .. MaxHead : Author(k, c, b)
  BY <1>5, AuthorKeeps
<1>6. CASE \E r \in 1 .. MaxHead : AlterRevision(r)
  BY <1>6, AlterRevisionKeeps
<1> QED BY <1>1, <1>2, <1>3, <1>4, <1>5, <1>6 DEF BundlesNext

LEMMA BundlesStart ==
    ASSUME BundlesInit
    PROVE  BundlesInv
<1>1. revisions = << >> /\ authored = << >> /\ ledger = << >> /\ disk = [r \in 1 .. MaxHead |-> None]
      /\ editor = [t \in Editors |-> NoEdit]
  BY DEF BundlesInit
<1>2. revisions \in Seq({}) /\ authored \in Seq({}) /\ Len(revisions) = 0
      /\ DOMAIN ledger = {} /\ DOMAIN authored = {}
  BY <1>1
<1>3. PublishedInv
  BY <1>1, <1>2, BundlesAssumption DEF PublishedInv
<1>4. LedgerInv /\ OwnerInv
  BY <1>2 DEF LedgerInv, OwnerInv, Owners
<1>5. EditorsInv
  BY <1>1 DEF EditorsInv, EditFollows, NoEdit
<1> QED BY <1>3, <1>4, <1>5 DEF BundlesInv

(* The invariant says what the runs check. *)
LEMMA BundlesImply ==
    ASSUME BundlesInv
    PROVE  PublishedIsRunnable /\ BundlesAreSound
<1>1. PublishedIsRunnable
  <2> SUFFICES ASSUME NEW r \in 1 .. Len(revisions) PROVE Runnable(revisions[r].doc)
    BY DEF PublishedIsRunnable, HeadRevision
  <2>1. PICK row : row = revisions[r]
    OBVIOUS
  <2>2. IsFiniteSet(StepIds(row.doc)) /\ Compiles(row.doc, row.pinned)
    BY <2>1 DEF BundlesInv, PublishedInv, Written
  <2>3. Runnable(row.doc)
    BY <2>2, CompiledIsRunnable
  <2> QED BY <2>1, <2>3
<1>2. RevisionsKeepTheirText
  BY DEF BundlesInv, LedgerInv, EditMade, PublishedInv, RevisionsKeepTheirText, HeadRevision
<1>3. OneOwner
  <2>1. Cardinality(Owners) <= 1
    <3>1. CASE Owners = {}
      BY <3>1, FS_EmptySet
    <3>2. CASE Owners # {}
      <4>1. PICK c : c \in Owners
        BY <3>2
      <4>2. Owners = {c}
        BY <4>1 DEF BundlesInv, OwnerInv
      <4>3. Cardinality({c}) = 1
        BY FS_Singleton
      <4> QED BY <4>2, <4>3
    <3> QED BY <3>1, <3>2
  <2> QED BY <2>1 DEF OneOwner, Owners, HeadRevision
<1> QED BY <1>1, <1>2, <1>3 DEF BundlesAreSound

-----------------------------------------------------------------------------
(***************************************************************************)
(* The deployments.  An execution holds an intent of a frozen revision,    *)
(* and the intent that is persisted under its key is of the same revision  *)
(* and only gains steps: what one execution recorded is what another finds *)
(* when it activates.  The ledger decides which commands activated, and    *)
(* the slot counts them.                                                   *)
(***************************************************************************)
IntentFields == {"rev", "frozen", "expected", "steps", "outcome", "failure", "history"}

Frozen(i) ==
    /\ DOMAIN i = IntentFields
    /\ i.rev \in 1 .. Len(revisions) /\ i.frozen = revisions[i.rev].doc

IntentSound(i) ==
    /\ Frozen(i)
    /\ i.steps \subseteq {"materialize", "load"}
    /\ "load" \in i.steps => UnavailableKinds(i.frozen) = {}

IntentsInv ==
    \A k \in DOMAIN intents :
        IntentSound(intents[k]) /\ (intents[k].outcome = "activated") = (k \in deployLedger)

(* What an execution may rely on, by where it stands. *)
WorkerSound(x) ==
    /\ DOMAIN x = {"pc", "key", "intent"}
    /\ x.pc # "idle" => Frozen(x.intent)
    /\ x.pc = "persist" => x.intent.outcome = "unresolved" /\ x.intent.steps = {}
    /\ x.pc \notin {"idle", "persist"} =>
          x.key \in DOMAIN intents /\ intents[x.key].rev = x.intent.rev
    /\ x.pc \in {"load", "loaded", "activate"} => "materialize" \in intents[x.key].steps
    /\ x.pc \in {"loaded", "activate"} => UnavailableKinds(x.intent.frozen) = {}
    /\ x.pc = "activate" => "load" \in intents[x.key].steps

WorkersInv == DOMAIN worker = Workers /\ \A w \in Workers : WorkerSound(worker[w])

DeploymentSound(d) ==
    /\ d.rev \in 1 .. Len(revisions) /\ d.doc = revisions[d.rev].doc
    /\ UnavailableKinds(d.doc) = {}
    /\ d.steps = {"materialize", "load"}

DeployedInv ==
    /\ DOMAIN deployed = deployLedger /\ IsFiniteSet(deployLedger)
    /\ \A k \in deployLedger : DeploymentSound(deployed[k]) /\ deployed[k].made \in 1 .. slot.revision
    /\ \A j, k \in deployLedger : deployed[j].made = deployed[k].made => j = k

SlotInv ==
    /\ slot.revision = Cardinality(deployLedger)
    /\ slot.dep # None => slot.dep \in deployLedger /\ deployed[slot.dep].made = slot.revision

(* A Run, or a call about to insert one, names a deployment as it was made. *)
SourceKept(x) ==
    /\ x.dep \in deployLedger
    /\ deployed[x.dep].made = x.revision /\ deployed[x.dep].doc = x.doc

RunsInv ==
    /\ DOMAIN starter = Starters
    /\ \A s \in Starters : starter[s].pc = "insert" => SourceKept(starter[s])
    /\ \A k \in DOMAIN runs : SourceKept(runs[k])

DeployInv == IntentsInv /\ WorkersInv /\ DeployedInv /\ SlotInv /\ RunsInv

WorkflowInv == BundlesInv /\ DeployInv

(* The revisions an execution or a deployment names stay as they are. *)
LEMMA FrozenStays ==
    ASSUME RevisionsKept
    PROVE  /\ \A i : Frozen(i) => Frozen(i)'
           /\ \A i : IntentSound(i) => IntentSound(i)'
           /\ \A d : DeploymentSound(d) => DeploymentSound(d)'
<1>1. \A i : Frozen(i) => Frozen(i)'
  BY DEF RevisionsKept, Frozen
<1>2. \A i : IntentSound(i) => IntentSound(i)'
  BY <1>1 DEF IntentSound
<1>3. \A d : DeploymentSound(d) => DeploymentSound(d)'
  BY DEF RevisionsKept, DeploymentSound
<1> QED BY <1>1, <1>2, <1>3

(* Intents keep their revision and lose no step: no execution loses ground. *)
IntentsKept ==
    \A k \in DOMAIN intents :
        /\ k \in DOMAIN intents' /\ intents'[k].rev = intents[k].rev
        /\ intents[k].steps \subseteq intents'[k].steps

LEMMA WorkerStays ==
    ASSUME RevisionsKept, IntentsKept, NEW x, WorkerSound(x)
    PROVE  WorkerSound(x)'
<1>1. \A i : Frozen(i) => Frozen(i)'
  BY FrozenStays
<1>2. x.pc # "idle" => Frozen(x.intent)'
  BY <1>1 DEF WorkerSound
<1> QED BY <1>2 DEF WorkerSound, IntentsKept

(* One execution moves on, the others stay where they are. *)
LEMMA WorkerMoves ==
    ASSUME RevisionsKept, IntentsKept, WorkersInv, NEW w \in Workers, NEW x,
           worker' = [worker EXCEPT ![w] = x], WorkerSound(x)'
    PROVE  WorkersInv'
<1>1. DOMAIN worker' = Workers
  BY DEF WorkersInv
<1>2. ASSUME NEW u \in Workers PROVE WorkerSound(worker[u])'
  <2>1. CASE u = w
    BY <2>1 DEF WorkersInv
  <2>2. CASE u # w
    <3>1. PICK y : y = worker[u]
      OBVIOUS
    <3>2. WorkerSound(y) /\ worker'[u] = y
      BY <2>2, <3>1 DEF WorkersInv
    <3>3. WorkerSound(y)'
      BY <3>2, WorkerStays
    <3> QED BY <3>2, <3>3
  <2> QED BY <2>1, <2>2
<1> QED BY <1>1, <1>2 DEF WorkersInv

LEMMA WorkersStay ==
    ASSUME RevisionsKept, IntentsKept, WorkersInv, UNCHANGED worker
    PROVE  WorkersInv'
<1>1. ASSUME NEW u \in Workers PROVE WorkerSound(worker[u])'
  <2>1. PICK y : y = worker[u]
    OBVIOUS
  <2>2. WorkerSound(y)'
    BY <2>1, WorkerStays DEF WorkersInv
  <2> QED BY <2>1, <2>2
<1> QED BY <1>1 DEF WorkersInv

LEMMA WorkerEnds ==
    ASSUME RevisionsKept, IntentsKept, WorkersInv, NEW w \in Workers, Ends(w)
    PROVE  WorkersInv'
<1>1. PICK x : x = Idle
  OBVIOUS
<1>2. WorkerSound(x)'
  BY <1>1 DEF WorkerSound, Idle
<1>3. worker' = [worker EXCEPT ![w] = x]
  BY <1>1 DEF Ends
<1> QED BY <1>2, <1>3, WorkerMoves

LEMMA WorkerGoes ==
    ASSUME WorkersInv, NEW w \in Workers, NEW pc, Goes(w, pc)
    PROVE  \E x : /\ worker' = [worker EXCEPT ![w] = x] /\ DOMAIN x = {"pc", "key", "intent"}
                  /\ x.pc = pc /\ x.key = worker[w].key /\ x.intent = worker[w].intent
<1>1. PICK old : old = worker[w]
  OBVIOUS
<1>2. PICK x : x = [old EXCEPT !.pc = pc]
  OBVIOUS
<1>3. worker' = [worker EXCEPT ![w] = x]
  BY <1>1, <1>2 DEF Goes
<1>4. DOMAIN old = {"pc", "key", "intent"}
  BY <1>1 DEF WorkersInv, WorkerSound
<1>5. DOMAIN x = {"pc", "key", "intent"} /\ x.pc = pc /\ x.key = old.key /\ x.intent = old.intent
  BY <1>2, <1>4
<1> QED BY <1>1, <1>3, <1>5

(* A step that leaves a part of the tables alone keeps what is said of it. *)
LEMMA IntentsStay ==
    ASSUME RevisionsKept, IntentsInv, UNCHANGED <<intents, deployLedger>>
    PROVE  IntentsInv' /\ IntentsKept
<1>1. ASSUME NEW k \in DOMAIN intents PROVE IntentSound(intents[k])'
  <2>1. PICK i : i = intents[k]
    OBVIOUS
  <2>2. IntentSound(i)'
    BY <2>1, FrozenStays DEF IntentsInv
  <2> QED BY <2>1, <2>2
<1> QED BY <1>1 DEF IntentsInv, IntentsKept

LEMMA DeployedStays ==
    ASSUME RevisionsKept, DeployedInv, SlotInv, UNCHANGED <<deployed, slot, deployLedger>>
    PROVE  DeployedInv' /\ SlotInv'
<1>1. ASSUME NEW k \in deployLedger PROVE DeploymentSound(deployed[k])'
  <2>1. PICK d : d = deployed[k]
    OBVIOUS
  <2>2. DeploymentSound(d)'
    BY <2>1, FrozenStays DEF DeployedInv
  <2> QED BY <2>1, <2>2
<1> QED BY <1>1 DEF DeployedInv, SlotInv

LEMMA RunsStay ==
    ASSUME RunsInv, UNCHANGED <<deployed, deployLedger, starter, runs>>
    PROVE  RunsInv'
BY DEF RunsInv, SourceKept

LEMMA BeginDeployKeeps ==
    ASSUME BundlesInv, RevisionsKept, UNCHANGED bundleVars, DeployInv,
           NEW w \in Workers, NEW k, NEW r, NEW expected, BeginDeploy(w, k, r, expected)
    PROVE  DeployInv'
<1>1. UNCHANGED <<intents, packages, deployed, slot, deployLedger, starter, runs>> /\ UNCHANGED revisions
  BY DEF BeginDeploy, bundleVars
<1>2. IntentsInv' /\ IntentsKept /\ DeployedInv' /\ SlotInv' /\ RunsInv'
  BY <1>1, IntentsStay, DeployedStays, RunsStay DEF DeployInv
<1>3. PICK i : i = Intent(r, expected)
  OBVIOUS
<1>4. r \in 1 .. Len(revisions)
  BY DEF BeginDeploy, Verified, BundlesInv, PublishedInv
<1>5. Frozen(i) /\ i.outcome = "unresolved" /\ i.steps = {}
  BY <1>3, <1>4 DEF Intent, Frozen, IntentFields
<1>6. PICK x : x = [pc |-> "persist", key |-> k, intent |-> i]
  OBVIOUS
<1>7. worker' = [worker EXCEPT ![w] = x]
  BY <1>3, <1>6 DEF BeginDeploy
<1>8. Frozen(i)'
  BY <1>1, <1>5 DEF Frozen
<1>9. WorkerSound(x)'
  BY <1>5, <1>6, <1>8 DEF WorkerSound
<1> QED BY <1>2, <1>7, <1>9, WorkerMoves DEF DeployInv

LEMMA PersistIntentKeeps ==
    ASSUME RevisionsKept, DeployInv, NEW w \in Workers, PersistIntent(w)
    PROVE  DeployInv'
<1>1. UNCHANGED <<packages, deployed, slot, deployLedger, starter, runs>> /\ worker[w].pc = "persist"
  BY DEF PersistIntent
<1>2. DeployedInv' /\ SlotInv' /\ RunsInv'
  BY <1>1, DeployedStays, RunsStay DEF DeployInv
<1>3. PICK k : k = worker[w].key
  OBVIOUS
<1>4. PICK mine : mine = worker[w].intent
  OBVIOUS
<1>5. Frozen(mine) /\ mine.outcome = "unresolved" /\ mine.steps = {}
  BY <1>1, <1>4 DEF DeployInv, WorkersInv, WorkerSound
<1>6. CASE Ends(w) /\ UNCHANGED intents
  <2>1. IntentsInv' /\ IntentsKept
    BY <1>1, <1>6, IntentsStay DEF DeployInv
  <2> QED BY <1>2, <1>6, <2>1, WorkerEnds DEF DeployInv
<1>7. CASE k \notin deployLedger /\ k \notin DOMAIN intents /\ intents' = WithRow(intents, k, mine)
           /\ Goes(w, "materialize")
  <2>1. /\ DOMAIN intents' = DOMAIN intents \union {k} /\ intents'[k] = mine
        /\ \A j \in DOMAIN intents : j # k /\ intents'[j] = intents[j]
    BY <1>7 DEF WithRow
  <2>2. IntentsKept
    BY <2>1 DEF IntentsKept
  <2>3. IntentsInv'
    <3>1. ASSUME NEW j \in DOMAIN intents'
          PROVE  IntentSound(intents[j])' /\ (intents'[j].outcome = "activated") = (j \in deployLedger')
      <4>1. PICK i : i = intents'[j]
        OBVIOUS
      <4>2. IntentSound(i) /\ (i.outcome = "activated") = (j \in deployLedger)
        <5>1. CASE j = k
          BY <1>5, <1>7, <2>1, <4>1, <5>1 DEF IntentSound
        <5>2. CASE j # k
          BY <2>1, <4>1, <5>2 DEF DeployInv, IntentsInv
        <5> QED BY <5>1, <5>2
      <4>3. IntentSound(i)'
        BY <4>2, FrozenStays
      <4> QED BY <1>1, <4>1, <4>2, <4>3
    <3> QED BY <3>1 DEF IntentsInv
  <2>4. PICK x : /\ worker' = [worker EXCEPT ![w] = x] /\ DOMAIN x = {"pc", "key", "intent"}
                 /\ x.pc = "materialize" /\ x.key = k /\ x.intent = mine
    BY <1>3, <1>4, <1>7, WorkerGoes DEF DeployInv
  <2>5. Frozen(mine)'
    BY <1>5, FrozenStays
  <2>6. WorkerSound(x)'
    BY <2>1, <2>4, <2>5 DEF WorkerSound
  <2> QED BY <1>2, <2>2, <2>3, <2>4, <2>6, WorkerMoves DEF DeployInv
<1>8. CASE /\ k \in DOMAIN intents /\ UNCHANGED intents
           /\ worker' = [worker EXCEPT ![w].pc = "materialize", ![w].intent = intents[k]]
  <2>1. IntentsInv' /\ IntentsKept
    BY <1>1, <1>8, IntentsStay DEF DeployInv
  <2>2. PICK old : old = worker[w]
    OBVIOUS
  <2>3. PICK i : i = intents[k]
    OBVIOUS
  <2>4. PICK x : x = [old EXCEPT !.pc = "materialize", !.intent = i]
    OBVIOUS
  <2>5. worker' = [worker EXCEPT ![w] = x]
    BY <1>8, <2>2, <2>3, <2>4 DEF DeployInv, WorkersInv
  <2>6. DOMAIN old = {"pc", "key", "intent"}
    BY <2>2 DEF DeployInv, WorkersInv, WorkerSound
  <2>7. DOMAIN x = {"pc", "key", "intent"} /\ x.pc = "materialize" /\ x.key = k /\ x.intent = i
    BY <1>3, <2>2, <2>4, <2>6
  <2>8. Frozen(i)'
    BY <1>8, <2>3, FrozenStays DEF DeployInv, IntentsInv, IntentSound
  <2>9. WorkerSound(x)'
    BY <1>8, <2>3, <2>7, <2>8 DEF WorkerSound
  <2> QED BY <1>2, <2>1, <2>5, <2>9, WorkerMoves DEF DeployInv
<1> QED BY <1>3, <1>4, <1>6, <1>7, <1>8 DEF PersistIntent

LEMMA ResumeDeployKeeps ==
    ASSUME RevisionsKept, DeployInv, NEW w \in Workers, NEW k, ResumeDeploy(w, k)
    PROVE  DeployInv'
<1>1. UNCHANGED <<intents, packages, deployed, slot, deployLedger, starter, runs>> /\ k \in DOMAIN intents
  BY DEF ResumeDeploy
<1>2. IntentsInv' /\ IntentsKept /\ DeployedInv' /\ SlotInv' /\ RunsInv'
  BY <1>1, IntentsStay, DeployedStays, RunsStay DEF DeployInv
<1>3. PICK i : i = intents[k]
  OBVIOUS
<1>4. Frozen(i)'
  BY <1>1, <1>3, FrozenStays DEF DeployInv, IntentsInv, IntentSound
<1>5. PICK x : x = [pc |-> "materialize", key |-> k, intent |-> i]
  OBVIOUS
<1>6. worker' = [worker EXCEPT ![w] = x]
  BY <1>3, <1>5 DEF ResumeDeploy
<1>7. WorkerSound(x)'
  BY <1>1, <1>3, <1>4, <1>5 DEF WorkerSound
<1> QED BY <1>2, <1>6, <1>7, WorkerMoves DEF DeployInv

LEMMA MaterializeKeeps ==
    ASSUME RevisionsKept, DeployInv, NEW w \in Workers, MaterializePackage(w)
    PROVE  DeployInv'
<1>1. UNCHANGED <<intents, deployed, slot, deployLedger, starter, runs>>
      /\ worker[w].pc = "materialize" /\ Goes(w, "materialized")
  BY DEF MaterializePackage
<1>2. IntentsInv' /\ IntentsKept /\ DeployedInv' /\ SlotInv' /\ RunsInv'
  BY <1>1, IntentsStay, DeployedStays, RunsStay DEF DeployInv
<1>3. PICK old : old = worker[w]
  OBVIOUS
<1>4. WorkerSound(old)'
  BY <1>2, <1>3, WorkerStays DEF DeployInv, WorkersInv
<1>5. PICK x : /\ worker' = [worker EXCEPT ![w] = x] /\ DOMAIN x = {"pc", "key", "intent"}
               /\ x.pc = "materialized" /\ x.key = old.key /\ x.intent = old.intent
  BY <1>1, <1>3, WorkerGoes DEF DeployInv
<1>6. WorkerSound(x)'
  BY <1>1, <1>3, <1>4, <1>5 DEF WorkerSound
<1> QED BY <1>2, <1>5, <1>6, WorkerMoves DEF DeployInv

LEMMA LoadKeeps ==
    ASSUME RevisionsKept, DeployInv, NEW w \in Workers, LoadPackage(w)
    PROVE  DeployInv'
<1>1. UNCHANGED <<intents, packages, deployed, slot, deployLedger, starter, runs>>
      /\ worker[w].pc = "load" /\ Goes(w, "loaded") /\ UnavailableKinds(worker[w].intent.frozen) = {}
  BY DEF LoadPackage, Loadable
<1>2. IntentsInv' /\ IntentsKept /\ DeployedInv' /\ SlotInv' /\ RunsInv'
  BY <1>1, IntentsStay, DeployedStays, RunsStay DEF DeployInv
<1>3. PICK old : old = worker[w]
  OBVIOUS
<1>4. WorkerSound(old)'
  BY <1>2, <1>3, WorkerStays DEF DeployInv, WorkersInv
<1>5. PICK x : /\ worker' = [worker EXCEPT ![w] = x] /\ DOMAIN x = {"pc", "key", "intent"}
               /\ x.pc = "loaded" /\ x.key = old.key /\ x.intent = old.intent
  BY <1>1, <1>3, WorkerGoes DEF DeployInv
<1>6. WorkerSound(x)'
  BY <1>1, <1>3, <1>4, <1>5 DEF WorkerSound
<1> QED BY <1>2, <1>5, <1>6, WorkerMoves DEF DeployInv

LEMMA WorkerStopsKeeps ==
    ASSUME RevisionsKept, DeployInv, NEW w \in Workers, WorkerStops(w)
    PROVE  DeployInv'
<1>1. UNCHANGED <<intents, packages, deployed, slot, deployLedger, starter, runs>> /\ Ends(w)
  BY DEF WorkerStops
<1>2. IntentsInv' /\ IntentsKept /\ DeployedInv' /\ SlotInv' /\ RunsInv'
  BY <1>1, IntentsStay, DeployedStays, RunsStay DEF DeployInv
<1> QED BY <1>1, <1>2, WorkerEnds DEF DeployInv

(* The intent of one command changes, and no other. *)
LEMMA IntentChanges ==
    ASSUME RevisionsKept, IntentsInv, NEW k \in DOMAIN intents, NEW i,
           intents' = [intents EXCEPT ![k] = i], IntentSound(i), i.rev = intents[k].rev,
           intents[k].steps \subseteq i.steps, (i.outcome = "activated") = (k \in deployLedger'),
           \A j : j # k => (j \in deployLedger') = (j \in deployLedger)
    PROVE  IntentsInv' /\ IntentsKept
<1>1. DOMAIN intents' = DOMAIN intents /\ intents'[k] = i
      /\ \A j \in DOMAIN intents : j # k => intents'[j] = intents[j]
  OBVIOUS
<1>2. IntentsKept
  BY <1>1 DEF IntentsKept
<1>3. ASSUME NEW j \in DOMAIN intents
      PROVE  IntentSound(intents[j])' /\ (intents'[j].outcome = "activated") = (j \in deployLedger')
  <2>1. PICK q : q = intents'[j]
    OBVIOUS
  <2>2. IntentSound(q) /\ (q.outcome = "activated") = (j \in deployLedger')
    <3>1. CASE j = k
      BY <1>1, <2>1, <3>1
    <3>2. CASE j # k
      BY <1>1, <2>1, <3>2 DEF IntentsInv
    <3> QED BY <3>1, <3>2
  <2>3. IntentSound(q)'
    BY <2>2, FrozenStays
  <2> QED BY <2>1, <2>2, <2>3
<1> QED BY <1>1, <1>2, <1>3 DEF IntentsInv

(* Both executions freeze the same revision, so they froze the same document. *)
LEMMA SameDocument ==
    ASSUME IntentsInv, WorkersInv, NEW w \in Workers, worker[w].pc \notin {"idle", "persist"}
    PROVE  /\ worker[w].key \in DOMAIN intents /\ intents[worker[w].key].rev = worker[w].intent.rev
           /\ intents[worker[w].key].frozen = worker[w].intent.frozen
           /\ Frozen(worker[w].intent)
<1>1. PICK x : x = worker[w]
  OBVIOUS
<1>2. WorkerSound(x) /\ x.pc \notin {"idle", "persist"}
  BY <1>1 DEF WorkersInv
<1>3. x.key \in DOMAIN intents /\ intents[x.key].rev = x.intent.rev /\ Frozen(x.intent)
  BY <1>2 DEF WorkerSound
<1>4. Frozen(intents[x.key])
  BY <1>3 DEF IntentsInv, IntentSound
<1>5. intents[x.key].frozen = x.intent.frozen
  BY <1>3, <1>4 DEF Frozen
<1> QED BY <1>1, <1>3, <1>5

LEMMA RecordStepKeeps ==
    ASSUME RevisionsKept, DeployInv, NEW w \in Workers, RecordStep(w)
    PROVE  DeployInv'
<1>1. UNCHANGED <<packages, deployed, slot, deployLedger, starter, runs>>
  BY DEF RecordStep
<1>2. DeployedInv' /\ SlotInv' /\ RunsInv'
  BY <1>1, DeployedStays, RunsStay DEF DeployInv
<1>3. PICK old : old = worker[w]
  OBVIOUS
<1>4. PICK k : k = old.key
  OBVIOUS
<1>5. PICK step : step = IF old.pc = "materialized" THEN "materialize" ELSE "load"
  OBVIOUS
<1>6. old.pc \in {"materialized", "loaded"} /\ Goes(w, IF step = "materialize" THEN "load" ELSE "activate")
  BY <1>3, <1>5 DEF RecordStep
<1>7. k \in DOMAIN intents /\ intents[k].rev = old.intent.rev /\ intents[k].frozen = old.intent.frozen
  BY <1>3, <1>4, <1>6, SameDocument DEF DeployInv
<1>8. PICK row : row = intents[k]
  OBVIOUS
<1>9. PICK i : i = [row EXCEPT !.steps = row.steps \union {step}]
  OBVIOUS
<1>10. intents' = [intents EXCEPT ![k] = i]
  BY <1>3, <1>4, <1>5, <1>8, <1>9 DEF RecordStep
<1>11. IntentSound(row) /\ (row.outcome = "activated") = (k \in deployLedger)
  BY <1>7, <1>8 DEF DeployInv, IntentsInv
<1>12. /\ DOMAIN i = DOMAIN row /\ i.steps = row.steps \union {step}
       /\ i.rev = row.rev /\ i.frozen = row.frozen /\ i.outcome = row.outcome
  BY <1>9, <1>11 DEF IntentSound, Frozen, IntentFields
<1>13. WorkerSound(old)
  BY <1>3 DEF DeployInv, WorkersInv
<1>14. IntentSound(i)
  <2>1. step = "load" => UnavailableKinds(row.frozen) = {}
    BY <1>5, <1>6, <1>7, <1>8, <1>13 DEF WorkerSound
  <2> QED BY <1>5, <1>11, <1>12, <2>1 DEF IntentSound, Frozen
<1>15. IntentsInv' /\ IntentsKept
  <2>1. row.steps \subseteq i.steps /\ i.rev = intents[k].rev
    BY <1>8, <1>12
  <2>2. (i.outcome = "activated") = (k \in deployLedger')
    BY <1>1, <1>11, <1>12
  <2> QED BY <1>1, <1>7, <1>8, <1>10, <1>14, <2>1, <2>2, IntentChanges DEF DeployInv
<1>16. PICK pc : pc = IF step = "materialize" THEN "load" ELSE "activate"
  OBVIOUS
<1>17. PICK x : /\ worker' = [worker EXCEPT ![w] = x] /\ DOMAIN x = {"pc", "key", "intent"}
                /\ x.pc = pc /\ x.key = k /\ x.intent = old.intent
  BY <1>3, <1>4, <1>6, <1>16, WorkerGoes DEF DeployInv
<1>18. WorkerSound(x)'
  <2>1. WorkerSound(old)'
    BY <1>13, <1>15, WorkerStays
  <2>2. intents'[k] = i
    BY <1>7, <1>10
  <2>3. step \in i.steps
    BY <1>12
  <2> QED BY <1>4, <1>5, <1>6, <1>16, <1>17, <2>1, <2>2, <2>3 DEF WorkerSound
<1> QED BY <1>2, <1>15, <1>17, <1>18, WorkerMoves DEF DeployInv

LEMMA RecordFailureKeeps ==
    ASSUME RevisionsKept, DeployInv, NEW w \in Workers, RecordFailure(w)
    PROVE  DeployInv'
<1>1. UNCHANGED <<packages, deployed, slot, deployLedger, starter, runs>> /\ Ends(w)
  BY DEF RecordFailure
<1>2. DeployedInv' /\ SlotInv' /\ RunsInv'
  BY <1>1, DeployedStays, RunsStay DEF DeployInv
<1>3. IntentsInv' /\ IntentsKept
  <2>1. PICK k : k = worker[w].key
    OBVIOUS
  <2>2. CASE k \in deployLedger
    <3>1. UNCHANGED intents
      BY <2>1, <2>2 DEF RecordFailure
    <3> QED BY <1>1, <3>1, IntentsStay DEF DeployInv
  <2>3. CASE k \notin deployLedger
    <3>1. k \in DOMAIN intents
      BY <2>1, SameDocument DEF DeployInv, RecordFailure
    <3>2. PICK row : row = intents[k]
      OBVIOUS
    <3>3. PICK n : n = Failures(row)
      OBVIOUS
    <3>4. PICK i : i = [row EXCEPT !.outcome = "failed", !.failure = TRUE, !.history = n]
      OBVIOUS
    <3>5. intents' = [intents EXCEPT ![k].outcome = "failed", ![k].failure = TRUE, ![k].history = n]
      BY <2>1, <2>3, <3>2, <3>3 DEF RecordFailure
    <3>6. intents' = [intents EXCEPT ![k] = i]
      BY <3>1, <3>2, <3>4, <3>5
    <3>7. IntentSound(row)
      BY <3>1, <3>2 DEF DeployInv, IntentsInv
    <3>8. /\ DOMAIN i = DOMAIN row /\ i.steps = row.steps
          /\ i.rev = row.rev /\ i.frozen = row.frozen /\ i.outcome = "failed"
      BY <3>4, <3>7 DEF IntentSound, Frozen, IntentFields
    <3>9. IntentSound(i)
      BY <3>7, <3>8 DEF IntentSound, Frozen
    <3>10. i.rev = intents[k].rev /\ intents[k].steps \subseteq i.steps
      BY <3>2, <3>8
    <3>11. (i.outcome = "activated") = (k \in deployLedger')
      BY <1>1, <2>3, <3>8
    <3> QED BY <1>1, <3>1, <3>6, <3>9, <3>10, <3>11, IntentChanges DEF DeployInv
  <2> QED BY <2>2, <2>3
<1> QED BY <1>1, <1>2, <1>3, WorkerEnds DEF DeployInv

LEMMA AcquireSourceKeeps ==
    ASSUME RevisionsKept, DeployInv, NEW s \in Starters, NEW k, AcquireSource(s, k)
    PROVE  DeployInv'
<1>1. UNCHANGED <<intents, packages, deployed, slot, deployLedger, worker, runs>>
  BY DEF AcquireSource
<1>2. IntentsInv' /\ IntentsKept /\ DeployedInv' /\ SlotInv'
  BY <1>1, IntentsStay, DeployedStays DEF DeployInv
<1>3. WorkersInv'
  BY <1>1, <1>2, WorkersStay DEF DeployInv
<1>4. PICK x : x = [pc |-> "insert", key |-> k, dep |-> slot.dep, revision |-> slot.revision,
                    doc |-> packages[slot.dep]]
  OBVIOUS
<1>5. starter' = [starter EXCEPT ![s] = x]
  BY <1>4 DEF AcquireSource
<1>6. SourceKept(x)
  BY <1>4 DEF AcquireSource, Acceptable, Loadable, DeployInv, SlotInv, SourceKept
<1>7. RunsInv'
  <2>1. DOMAIN starter' = Starters /\ starter'[s] = x
        /\ \A u \in Starters : u # s => starter'[u] = starter[u]
    BY <1>5 DEF DeployInv, RunsInv
  <2>2. ASSUME NEW u \in Starters, starter'[u].pc = "insert" PROVE SourceKept(starter'[u])
    BY <1>6, <2>1, <2>2 DEF DeployInv, RunsInv
  <2>3. \A j \in DOMAIN runs : SourceKept(runs[j])
    BY DEF DeployInv, RunsInv
  <2> QED BY <1>1, <2>1, <2>2, <2>3 DEF RunsInv, SourceKept
<1> QED BY <1>2, <1>3, <1>7 DEF DeployInv

LEMMA InsertRunKeeps ==
    ASSUME RevisionsKept, DeployInv, NEW s \in Starters, InsertRun(s)
    PROVE  DeployInv'
<1>1. UNCHANGED <<intents, packages, deployed, slot, deployLedger, worker>>
  BY DEF InsertRun
<1>2. IntentsInv' /\ IntentsKept /\ DeployedInv' /\ SlotInv'
  BY <1>1, IntentsStay, DeployedStays DEF DeployInv
<1>3. WorkersInv'
  BY <1>1, <1>2, WorkersStay DEF DeployInv
<1>4. PICK a : a = starter[s]
  OBVIOUS
<1>5. SourceKept(a)
  BY <1>4 DEF InsertRun, DeployInv, RunsInv
<1>6. PICK row : row = [dep |-> a.dep, revision |-> a.revision, doc |-> a.doc]
  OBVIOUS
<1>7. SourceKept(row)
  BY <1>5, <1>6 DEF SourceKept
<1>8. runs' = WithRow(runs, a.key, row) \/ runs' = runs
  BY <1>4, <1>6 DEF InsertRun
<1>9. ASSUME NEW k \in DOMAIN runs' PROVE SourceKept(runs'[k])
  BY <1>7, <1>8 DEF WithRow, DeployInv, RunsInv
<1>10. RunsInv'
  <2>1. starter' = [starter EXCEPT ![s] = NoStart]
    BY DEF InsertRun
  <2>2. DOMAIN starter' = Starters
    BY <2>1 DEF DeployInv, RunsInv
  <2>3. ASSUME NEW u \in Starters, starter'[u].pc = "insert" PROVE SourceKept(starter'[u])
    <3>1. u # s
      BY <2>1, <2>3 DEF NoStart, DeployInv, RunsInv
    <3> QED BY <2>1, <2>3, <3>1 DEF DeployInv, RunsInv
  <2> QED BY <1>1, <1>9, <2>2, <2>3 DEF RunsInv, SourceKept
<1> QED BY <1>2, <1>3, <1>10 DEF DeployInv

LEMMA TablesStay ==
    ASSUME RevisionsKept, DeployInv, UNCHANGED <<intents, deployed, slot, deployLedger, worker, starter, runs>>
    PROVE  DeployInv'
<1>1. IntentsInv' /\ IntentsKept /\ DeployedInv' /\ SlotInv' /\ RunsInv'
  BY IntentsStay, DeployedStays, RunsStay DEF DeployInv
<1> QED BY <1>1, WorkersStay DEF DeployInv

(* The command that compared the slot adds one deployment and moves the slot by one. *)
LEMMA ActivateKeeps ==
    ASSUME RevisionsKept, DeployInv, NEW w \in Workers, ActivateDeployment(w)
    PROVE  DeployInv'
<1>1. UNCHANGED <<packages, starter, runs>> /\ Ends(w) /\ worker[w].pc = "activate"
  BY DEF ActivateDeployment
<1>2. PICK x : x = worker[w]
  OBVIOUS
<1>3. PICK k : k = x.key
  OBVIOUS
<1>4. CASE k \in deployLedger
  <2>1. UNCHANGED <<deployed, slot, deployLedger, intents>>
    BY <1>2, <1>3, <1>4 DEF ActivateDeployment
  <2>2. IntentsInv' /\ IntentsKept /\ DeployedInv' /\ SlotInv' /\ RunsInv'
    BY <1>1, <2>1, IntentsStay, DeployedStays, RunsStay DEF DeployInv
  <2> QED BY <1>1, <2>2, WorkerEnds DEF DeployInv
<1>5. CASE k \notin deployLedger
  <2>1. PICK row : row = intents[k]
    OBVIOUS
  <2>2. PICK d : d = [rev |-> x.intent.rev, doc |-> x.intent.frozen, steps |-> row.steps,
                      made |-> x.intent.expected + 1]
    OBVIOUS
  <2>3. PICK i : i = Completed(row)
    OBVIOUS
  <2>4. /\ slot.revision = x.intent.expected /\ deployed' = WithRow(deployed, k, d)
        /\ slot' = [revision |-> slot.revision + 1, dep |-> k]
        /\ deployLedger' = deployLedger \union {k}
        /\ intents' = [intents EXCEPT ![k] = i]
    BY <1>2, <1>3, <1>5, <2>1, <2>2, <2>3 DEF ActivateDeployment
  <2>5. k \in DOMAIN intents /\ row.rev = x.intent.rev /\ row.frozen = x.intent.frozen /\ Frozen(x.intent)
    BY <1>1, <1>2, <1>3, <2>1, SameDocument DEF DeployInv
  <2>6. IntentSound(row)
    BY <2>1, <2>5 DEF DeployInv, IntentsInv
  <2>7. UnavailableKinds(x.intent.frozen) = {} /\ row.steps = {"materialize", "load"}
    <3>1. WorkerSound(x) /\ x.pc = "activate"
      BY <1>1, <1>2 DEF DeployInv, WorkersInv
    <3>2. {"materialize", "load"} \subseteq row.steps /\ UnavailableKinds(x.intent.frozen) = {}
      BY <1>3, <2>1, <3>1 DEF WorkerSound
    <3> QED BY <2>6, <3>2 DEF IntentSound
  <2>8. /\ DOMAIN i = DOMAIN row /\ i.steps = row.steps
        /\ i.rev = row.rev /\ i.frozen = row.frozen /\ i.outcome = "activated"
    BY <2>3, <2>6 DEF Completed, IntentSound, Frozen, IntentFields
  <2>9. IntentSound(i)
    BY <2>6, <2>8 DEF IntentSound, Frozen
  <2>10. IntentsInv' /\ IntentsKept
    <3>1. i.rev = intents[k].rev /\ intents[k].steps \subseteq i.steps
      BY <2>1, <2>8
    <3>2. (i.outcome = "activated") = (k \in deployLedger')
      BY <2>4, <2>8
    <3>3. \A j : j # k => (j \in deployLedger') = (j \in deployLedger)
      BY <2>4
    <3> QED BY <2>4, <2>5, <2>9, <3>1, <3>2, <3>3, IntentChanges DEF DeployInv
  <2>11. /\ DOMAIN deployed = deployLedger /\ IsFiniteSet(deployLedger)
         /\ slot.revision = Cardinality(deployLedger) /\ slot.revision \in Nat
    BY FS_CardinalityType DEF DeployInv, DeployedInv, SlotInv
  <2>12. IsFiniteSet(deployLedger') /\ Cardinality(deployLedger') = slot.revision + 1
    BY <1>5, <2>4, <2>11, FS_AddElement
  <2>13. slot'.revision = slot.revision + 1 /\ slot'.dep = k
    BY <2>4
  <2>14. /\ DOMAIN deployed' = deployLedger' /\ deployed'[k] = d
         /\ \A j \in deployLedger : j # k /\ deployed'[j] = deployed[j]
    BY <1>5, <2>4, <2>11 DEF WithRow
  <2>15. /\ d.rev = x.intent.rev /\ d.doc = x.intent.frozen /\ d.steps = row.steps
         /\ d.made = slot.revision + 1
    BY <2>2, <2>4
  <2>16. DeploymentSound(d)
    BY <2>5, <2>7, <2>15 DEF DeploymentSound, Frozen
  <2>17. ASSUME NEW j \in deployLedger'
         PROVE  DeploymentSound(deployed[j])' /\ deployed'[j].made \in 1 .. slot.revision + 1
    <3>1. PICK q : q = deployed'[j]
      OBVIOUS
    <3>2. DeploymentSound(q) /\ q.made \in 1 .. slot.revision + 1
      <4>1. CASE j = k
        BY <2>11, <2>14, <2>15, <2>16, <3>1, <4>1
      <4>2. CASE j # k
        <5>1. j \in deployLedger /\ q = deployed[j]
          BY <2>4, <2>14, <3>1, <4>2
        <5>2. DeploymentSound(q) /\ q.made \in 1 .. slot.revision
          BY <5>1 DEF DeployInv, DeployedInv
        <5> QED BY <2>11, <5>2
      <4> QED BY <4>1, <4>2
    <3>3. DeploymentSound(q)'
      BY <3>2, FrozenStays
    <3> QED BY <3>1, <3>2, <3>3
  <2>18. ASSUME NEW j \in deployLedger', NEW m \in deployLedger', deployed'[j].made = deployed'[m].made
         PROVE  j = m
    <3>1. \A l \in deployLedger : deployed'[l].made \in 1 .. slot.revision
      BY <2>14 DEF DeployInv, DeployedInv
    <3>2. deployed'[k].made \notin 1 .. slot.revision
      BY <2>11, <2>14, <2>15
    <3>3. CASE j = k \/ m = k
      BY <2>4, <2>18, <3>1, <3>2, <3>3
    <3>4. CASE j # k /\ m # k
      <4>1. j \in deployLedger /\ m \in deployLedger
        BY <2>4, <3>4
      <4>2. deployed[j].made = deployed[m].made
        BY <2>14, <2>18, <4>1
      <4> QED BY <4>1, <4>2 DEF DeployInv, DeployedInv
    <3> QED BY <3>3, <3>4
  <2>19. DeployedInv' /\ SlotInv'
    <3>1. DeployedInv'
      BY <2>12, <2>13, <2>14, <2>17, <2>18 DEF DeployedInv
    <3>2. SlotInv'
      BY <2>4, <2>12, <2>13, <2>14, <2>15 DEF SlotInv
    <3> QED BY <3>1, <3>2
  <2>20. RunsInv'
    <3>1. \A q : SourceKept(q) => SourceKept(q)'
      BY <2>4, <2>14 DEF SourceKept
    <3>2. ASSUME NEW s \in Starters, starter[s].pc = "insert" PROVE SourceKept(starter[s])'
      <4>1. PICK q : q = starter[s]
        OBVIOUS
      <4>2. SourceKept(q)'
        BY <3>1, <3>2, <4>1 DEF DeployInv, RunsInv
      <4> QED BY <1>1, <4>1, <4>2
    <3>3. ASSUME NEW j \in DOMAIN runs PROVE SourceKept(runs[j])'
      <4>1. PICK q : q = runs[j]
        OBVIOUS
      <4>2. SourceKept(q)'
        BY <3>1, <4>1 DEF DeployInv, RunsInv
      <4> QED BY <1>1, <4>1, <4>2
    <3> QED BY <1>1, <3>2, <3>3 DEF DeployInv, RunsInv
  <2> QED BY <1>1, <2>10, <2>19, <2>20, WorkerEnds DEF DeployInv
<1> QED BY <1>4, <1>5

LEMMA WorkflowStep ==
    ASSUME WorkflowInv, [WorkflowNext]_workflowVars
    PROVE  WorkflowInv'
<1>1. CASE BundlesNext /\ UNCHANGED deployVars
  <2>1. BundlesInv' /\ RevisionsKept
    BY <1>1, BundlesStep DEF WorkflowInv
  <2>2. UNCHANGED <<intents, deployed, slot, deployLedger, worker, starter, runs>>
    BY <1>1 DEF deployVars
  <2> QED BY <2>1, <2>2, TablesStay DEF WorkflowInv
<1>2. CASE UNCHANGED workflowVars
  <2>1. UNCHANGED bundleVars /\ UNCHANGED <<intents, deployed, slot, deployLedger, worker, starter, runs>>
    BY <1>2 DEF workflowVars, deployVars
  <2>2. BundlesInv' /\ RevisionsKept
    BY <2>1, BundlesStep DEF WorkflowInv
  <2> QED BY <2>1, <2>2, TablesStay DEF WorkflowInv
<1>3. CASE DeployNext /\ UNCHANGED bundleVars
  <2>1. BundlesInv' /\ RevisionsKept
    BY <1>3, BundlesStep DEF WorkflowInv
  <2>2. ASSUME NEW w \in Workers, NEW k \in DeployKeys, NEW r \in 1 .. MaxHead,
               NEW e \in 0 .. Cardinality(DeployKeys) - 1, BeginDeploy(w, k, r, e)
        PROVE  DeployInv'
    BY <1>3, <2>1, <2>2, BeginDeployKeeps DEF WorkflowInv
  <2>3. ASSUME NEW w \in Workers, NEW k \in DeployKeys, ResumeDeploy(w, k) PROVE DeployInv'
    BY <2>1, <2>3, ResumeDeployKeeps DEF WorkflowInv
  <2>4. ASSUME NEW w \in Workers,
               \/ PersistIntent(w) \/ MaterializePackage(w) \/ RecordStep(w) \/ LoadPackage(w)
               \/ ActivateDeployment(w) \/ RecordFailure(w) \/ WorkerStops(w)
        PROVE  DeployInv'
    BY <2>1, <2>4, PersistIntentKeeps, MaterializeKeeps, RecordStepKeeps, LoadKeeps, ActivateKeeps,
       RecordFailureKeeps, WorkerStopsKeeps DEF WorkflowInv
  <2>5. ASSUME NEW s \in Starters, NEW k \in RunKeys, AcquireSource(s, k) PROVE DeployInv'
    BY <2>1, <2>5, AcquireSourceKeeps DEF WorkflowInv
  <2>6. ASSUME NEW s \in Starters, InsertRun(s) PROVE DeployInv'
    BY <2>1, <2>6, InsertRunKeeps DEF WorkflowInv
  <2>7. ASSUME NEW k \in DeployKeys, AlterPackage(k) PROVE DeployInv'
    <3>1. UNCHANGED <<intents, deployed, slot, deployLedger, worker, starter, runs>>
      BY <2>7 DEF AlterPackage
    <3> QED BY <2>1, <3>1, TablesStay DEF WorkflowInv
  <2>8. DeployInv'
    BY <1>3, <2>2, <2>3, <2>4, <2>5, <2>6, <2>7 DEF DeployNext
  <2> QED BY <2>1, <2>8 DEF WorkflowInv
<1> QED BY <1>1, <1>2, <1>3 DEF WorkflowNext

LEMMA WorkflowStart ==
    ASSUME WorkflowInit
    PROVE  WorkflowInv
<1>1. BundlesInv
  BY BundlesStart DEF WorkflowInit
<1>2. /\ intents = << >> /\ deployed = << >> /\ slot = [revision |-> 0, dep |-> None] /\ deployLedger = {}
      /\ worker = [w \in Workers |-> Idle] /\ starter = [s \in Starters |-> NoStart] /\ runs = << >>
  BY DEF WorkflowInit, DeployInit
<1>3. DOMAIN intents = {} /\ DOMAIN deployed = {} /\ DOMAIN runs = {}
  BY <1>2
<1>4. IsFiniteSet({}) /\ Cardinality({}) = 0
  BY FS_EmptySet
<1>5. IntentsInv /\ RunsInv
  BY <1>2, <1>3 DEF IntentsInv, RunsInv, NoStart
<1>6. WorkersInv
  BY <1>2 DEF WorkersInv, WorkerSound, Idle
<1>7. DeployedInv /\ SlotInv
  BY <1>2, <1>3, <1>4 DEF DeployedInv, SlotInv
<1> QED BY <1>1, <1>5, <1>6, <1>7 DEF WorkflowInv, DeployInv

LEMMA DeployImplies ==
    ASSUME DeployInv
    PROVE  ActiveIsLoaded /\ OutcomesAgree /\ RunsKeepTheirSource
<1>1. ActiveIsLoaded
  BY DEF DeployInv, DeployedInv, DeploymentSound, SlotInv, ActiveIsLoaded
<1>2. OutcomesAgree
  BY DEF DeployInv, IntentsInv, DeployedInv, OutcomesAgree
<1>3. RunsKeepTheirSource
  BY DEF DeployInv, RunsInv, SourceKept, DeployedInv, RunsKeepTheirSource
<1> QED BY <1>1, <1>2, <1>3

(* Only InsertRun adds a Run, and it compares the slot with what was acquired. *)
LEMMA InsertedFromActive ==
    ASSUME [WorkflowNext]_workflowVars
    PROVE  RunsStartFromActive
<1>1. CASE UNCHANGED runs
  BY <1>1 DEF RunsStartFromActive
<1>2. ASSUME NEW s \in Starters, InsertRun(s) PROVE RunsStartFromActive
  <2>1. PICK a : a = starter[s]
    OBVIOUS
  <2>2. CASE a.key \notin DOMAIN runs /\ SourceCurrent(a)
    <3>1. runs' = WithRow(runs, a.key, [dep |-> a.dep, revision |-> a.revision, doc |-> a.doc])
          /\ slot' = slot
      BY <1>2, <2>1, <2>2 DEF InsertRun
    <3>2. \A k \in DOMAIN runs' \ DOMAIN runs : k = a.key
      BY <3>1 DEF WithRow
    <3>3. a.key \in DOMAIN runs' => runs'[a.key].dep = a.dep /\ runs'[a.key].revision = a.revision
      BY <3>1 DEF WithRow
    <3>4. slot'.dep = a.dep /\ slot'.revision = a.revision
      BY <2>2, <3>1 DEF SourceCurrent
    <3> QED BY <3>2, <3>3, <3>4 DEF RunsStartFromActive
  <2>3. CASE ~(a.key \notin DOMAIN runs /\ SourceCurrent(a))
    <3>1. runs' = runs
      BY <1>2, <2>1, <2>3 DEF InsertRun
    <3> QED BY <3>1 DEF RunsStartFromActive
  <2> QED BY <2>2, <2>3
<1>3. UNCHANGED runs \/ \E s \in Starters : InsertRun(s)
  BY DEF WorkflowNext, workflowVars, deployVars, DeployNext, BeginDeploy, ResumeDeploy, PersistIntent,
         MaterializePackage, RecordStep, LoadPackage, ActivateDeployment, RecordFailure, WorkerStops,
         AcquireSource, AlterPackage
<1> QED BY <1>1, <1>2, <1>3

(***************************************************************************)
(* Whatever authors submit and edit, and in whatever order, a published    *)
(* revision passed the compiler, so its dependencies run out: every step   *)
(* can end, what a step reads is produced before it, the declared outcome  *)
(* does not hang on a condition, and only a workflow that delivers to a    *)
(* pull request writes outside (compiler.py, WorkflowStore._publish).      *)
(***************************************************************************)
THEOREM PublishedStaysRunnable == WorkflowSpec => []PublishedIsRunnable
<1>1. WorkflowInit => WorkflowInv
  BY WorkflowStart
<1>2. WorkflowInv /\ [WorkflowNext]_workflowVars => WorkflowInv'
  BY WorkflowStep
<1>3. WorkflowInv => PublishedIsRunnable
  BY BundlesImply DEF WorkflowInv
<1> QED BY <1>1, <1>2, <1>3, PTL DEF WorkflowSpec

(***************************************************************************)
(* A bundle keeps its text and its owner: an edit is applied to the        *)
(* revision it replaces although that was read in an earlier transaction,  *)
(* directories hold what their rows name unless altered from outside, and  *)
(* one conversation owns the bundle (WorkflowStore in store.py).           *)
(***************************************************************************)
THEOREM BundlesStaySound == WorkflowSpec => []BundlesAreSound
<1>1. WorkflowInit => WorkflowInv
  BY WorkflowStart
<1>2. WorkflowInv /\ [WorkflowNext]_workflowVars => WorkflowInv'
  BY WorkflowStep
<1>3. WorkflowInv => BundlesAreSound
  BY BundlesImply DEF WorkflowInv
<1> QED BY <1>1, <1>2, <1>3, PTL DEF WorkflowSpec

(***************************************************************************)
(* However executions of deploy and rollback commands overlap, stop,       *)
(* resume and fail, what is deployed is a published revision that was      *)
(* materialized and loaded, no two deployments made one slot revision, the *)
(* recorded outcome of a command is the ledger's, a Run is inserted only   *)
(* from the deployment active then, and it keeps the definition it was     *)
(* confirmed with (WorkflowDeployments, create_run).                       *)
(***************************************************************************)
THEOREM DeploymentsStaySound == WorkflowSpec => DeploymentsAreSound
<1>1. WorkflowInit => WorkflowInv
  BY WorkflowStart
<1>2. WorkflowInv /\ [WorkflowNext]_workflowVars => WorkflowInv'
  BY WorkflowStep
<1>3. WorkflowInv => ActiveIsLoaded /\ OutcomesAgree /\ RunsKeepTheirSource
  BY DeployImplies DEF WorkflowInv
<1>4. [WorkflowNext]_workflowVars => RunsStartFromActive
  BY InsertedFromActive
<1> QED BY <1>1, <1>2, <1>3, <1>4, PTL DEF WorkflowSpec, DeploymentsAreSound

=============================================================================
