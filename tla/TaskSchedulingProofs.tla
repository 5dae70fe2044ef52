------------------------ MODULE TaskSchedulingProofs ------------------------
(***************************************************************************)
(* Handing out work, for any tasks, zones, grants and bounds: one writer   *)
(* per zone, an ended task holds no claim, occupancy is ended by a         *)
(* reconciliation only and stays within each grant's ceiling, and a sealed *)
(* set keeps its seal and pins versions that can be read.                  *)
(*                                                                         *)
(* First, the decisions of TaskGraph: they keep every table well-formed,   *)
(* they never touch the claim or the reconciliation of a task, and they    *)
(* leave a sealed set alone.                                               *)
(***************************************************************************)
EXTENDS TaskScheduling, SumTheorems, TLAPS

GraphTypeOK ==
    /\ head \in 0 .. MaxHead
    /\ IsTaskTable(tasks)
    /\ IsSetTable(sets)
    /\ archive \subseteq TaskIds \X Nat \X Nat
    /\ draft = None \/ IsDraft(draft)
    /\ dead \subseteq GrantIds

(* The later document of a task records the same execution as the earlier one. *)
SameWork(old, new) ==
    /\ new.claim = old.claim
    /\ new.recon = old.recon
    /\ new.state \in {old.state, "superseded"}
    /\ new.grant = old.grant
    /\ new.rev >= old.rev

(* A task no one has claimed yet. *)
Fresh(new) ==
    new.state \in {"queued", "superseded"} /\ new.claim = 0 /\ new.recon = "none"

(* Every document of the old table is continued in the new one; the others are fresh. *)
Continues(old, new) ==
    /\ \A t \in DOMAIN old : t \in DOMAIN new /\ SameWork(old[t], new[t])
    /\ \A t \in DOMAIN new \ DOMAIN old : Fresh(new[t])

(* The sets of `new` are those of `old` and more, the sealed ones as they were. *)
KeepsSeals(old, new) ==
    \A e \in DOMAIN old : e \in DOMAIN new /\ (old[e].sealed => new[e] = old[e])

(* The copy a decision works on still holds everything the durable tables hold. *)
DraftFollows ==
    draft # None =>
        /\ head < MaxHead
        /\ Continues(tasks, draft.tasks)
        /\ KeepsSeals(sets, draft.sets)

(***************************************************************************)
(* The archive names revisions the tasks have reached, and it holds every  *)
(* version a set names.  A version a draft names will be held: it is       *)
(* archived already, or the batch produced it and no archived version of   *)
(* the same revision stands in its way.                                    *)
(***************************************************************************)
EntryOf(set, m) == <<m, set.members[m].rev, set.members[m].ver>>

Reached(table, v) == v[1] \in DOMAIN table /\ v[2] <= table[v[1]].rev

WillBeHeld(d, v) ==
    \/ v \in archive
    \/ v \in d.versions /\ \A w \in archive : ~(w[1] = v[1] /\ w[2] = v[2])

Archivable(d) ==
    /\ \A v \in d.versions : Reached(d.tasks, v)
    /\ \A e \in DOMAIN d.sets : \A m \in DOMAIN d.sets[e].members :
          WillBeHeld(d, EntryOf(d.sets[e], m))
    /\ \A r \in DOMAIN d.swaps :
          d.swaps[r] \notin DOMAIN tasks /\ <<d.swaps[r], 1, 1>> \in d.versions

ArchiveInv ==
    /\ \A w \in archive : Reached(tasks, w)
    /\ \A e \in DOMAIN sets : \A m \in DOMAIN sets[e].members :
          EntryOf(sets[e], m) \in archive
    /\ draft # None => Archivable(draft)

GraphInv == GraphTypeOK /\ DraftFollows /\ ArchiveInv

(* What staging one action of a batch may do to the draft. *)
Staged(old, new) ==
    /\ IsDraft(new)
    /\ Continues(old.tasks, new.tasks)
    /\ KeepsSeals(old.sets, new.sets)
    /\ Archivable(new)

-----------------------------------------------------------------------------
LEMMA SameWorkSelf == ASSUME NEW t \in Task PROVE SameWork(t, t)
  BY DEF SameWork, Task

LEMMA ContinuesSelf == ASSUME NEW table, IsTaskTable(table) PROVE Continues(table, table)
  BY SameWorkSelf DEF Continues, IsTaskTable

LEMMA ContinuesTwice ==
    ASSUME NEW a, NEW b, NEW c, IsTaskTable(a), IsTaskTable(b), IsTaskTable(c),
           Continues(a, b), Continues(b, c)
    PROVE  Continues(a, c)
<1>1. ASSUME NEW t \in DOMAIN a PROVE t \in DOMAIN c /\ SameWork(a[t], c[t])
  <2>1. /\ t \in DOMAIN b /\ t \in DOMAIN c /\ SameWork(a[t], b[t]) /\ SameWork(b[t], c[t])
        /\ a[t].rev \in Nat /\ b[t].rev \in Nat /\ c[t].rev \in Nat
    BY DEF Continues, IsTaskTable, Task
  <2> QED BY <2>1 DEF SameWork
<1>2. ASSUME NEW t \in DOMAIN c \ DOMAIN a PROVE Fresh(c[t])
  <2>1. CASE t \in DOMAIN b
    <3>1. Fresh(b[t]) /\ SameWork(b[t], c[t])
      BY <2>1 DEF Continues
    <3> QED BY <3>1 DEF Fresh, SameWork
  <2>2. CASE t \notin DOMAIN b
    BY <2>2 DEF Continues
  <2> QED BY <2>1, <2>2
<1> QED BY <1>1, <1>2 DEF Continues

(* A revision that was reached stays reached. *)
LEMMA ReachedLater ==
    ASSUME NEW a, NEW b, IsTaskTable(a), IsTaskTable(b), Continues(a, b),
           NEW v \in TaskIds \X Nat \X Nat, Reached(a, v)
    PROVE  Reached(b, v)
<1>1. /\ v[1] \in DOMAIN a /\ v[1] \in DOMAIN b /\ v[2] \in Nat
      /\ a[v[1]].rev \in Nat /\ b[v[1]].rev \in Nat
      /\ v[2] <= a[v[1]].rev /\ a[v[1]].rev <= b[v[1]].rev
  BY DEF Reached, Continues, SameWork, IsTaskTable, Task
<1> QED BY <1>1 DEF Reached

(* reseal_task keeps a task document a task document. *)
LEMMA ResealType == ASSUME NEW t \in Task PROVE Reseal(t) \in Task
<1>1. t.ver + 1 \in Nat
  BY DEF Task
<1> QED BY <1>1 DEF Reseal, Task

(* Replacing a predecessor's entry by its successor's keeps a member map a member map. *)
LEMMA FollowType ==
    ASSUME NEW members, NEW swaps,
           DOMAIN members \subseteq TaskIds, members \in [DOMAIN members -> Member],
           DOMAIN swaps \subseteq TaskIds, \A r \in DOMAIN swaps : swaps[r] \in TaskIds
    PROVE  /\ DOMAIN Follow(members, swaps) \subseteq TaskIds
           /\ Follow(members, swaps) \in [DOMAIN Follow(members, swaps) -> Member]
<1> DEFINE gone == DOMAIN swaps \intersect DOMAIN members
           heir == {swaps[r] : r \in gone}
           pred(m) == CHOOSE r \in gone : swaps[r] = m
           entry(m) == IF m \in heir THEN [members[pred(m)] EXCEPT !.rev = 1, !.ver = 1]
                       ELSE members[m]
<1>1. Follow(members, swaps) = [m \in (DOMAIN members \ gone) \union heir |-> entry(m)]
  BY DEF Follow
<1>2. ASSUME NEW m \in heir PROVE pred(m) \in gone
  <2>1. \E r \in gone : swaps[r] = m
    OBVIOUS
  <2> QED BY <2>1
<1>3. ASSUME NEW m \in (DOMAIN members \ gone) \union heir PROVE entry(m) \in Member
  <2>1. CASE m \in heir
    <3>1. members[pred(m)] \in Member
      BY <1>2, <2>1
    <3> QED BY <2>1, <3>1 DEF Member
  <2>2. CASE m \notin heir
    BY <2>2
  <2> QED BY <2>1, <2>2
<1>4. heir \subseteq TaskIds
  OBVIOUS
<1> QED BY <1>1, <1>3, <1>4

(* An entry of the followed map is the first version of an heir, or as it was. *)
LEMMA FollowEntries ==
    ASSUME NEW members, NEW swaps, NEW m \in DOMAIN Follow(members, swaps),
           members \in [DOMAIN members -> Member]
    PROVE  \/ /\ \E r \in DOMAIN swaps : m = swaps[r]
              /\ Follow(members, swaps)[m].rev = 1 /\ Follow(members, swaps)[m].ver = 1
           \/ m \in DOMAIN members /\ Follow(members, swaps)[m] = members[m]
<1> DEFINE gone == DOMAIN swaps \intersect DOMAIN members
           heir == {swaps[r] : r \in gone}
           pred == CHOOSE r \in gone : swaps[r] = m
<1>1. CASE m \in heir
  <2>1. \E r \in gone : swaps[r] = m
    BY <1>1
  <2>2. pred \in gone
    BY <2>1
  <2>3. Follow(members, swaps)[m] = [members[pred] EXCEPT !.rev = 1, !.ver = 1]
    BY <1>1 DEF Follow
  <2>4. members[pred] \in Member
    BY <2>2
  <2> HIDE DEF pred
  <2>5. /\ [members[pred] EXCEPT !.rev = 1, !.ver = 1].rev = 1
        /\ [members[pred] EXCEPT !.rev = 1, !.ver = 1].ver = 1
    BY <2>4 DEF Member
  <2> QED BY <2>1, <2>3, <2>5
<1>2. CASE m \notin heir
  BY <1>2 DEF Follow
<1> QED BY <1>1, <1>2

(* A set with other members is a set. *)
LEMMA SetWithMembers ==
    ASSUME NEW set, IsExpansionSet(set), NEW members,
           DOMAIN members \subseteq TaskIds, members \in [DOMAIN members -> Member]
    PROVE  /\ IsExpansionSet([set EXCEPT !.members = members])
           /\ [set EXCEPT !.members = members].sealed = set.sealed
  BY DEF IsExpansionSet

(* Repointing one entry of a set (_refresh_member) keeps it a set. *)
LEMMA SetRepointed ==
    ASSUME NEW set, IsExpansionSet(set), NEW t \in DOMAIN set.members,
           NEW rev \in Nat, NEW ver \in Nat
    PROVE  IsExpansionSet([set EXCEPT !.members[t].rev = rev, !.members[t].ver = ver])
<1> DEFINE mem == [set.members EXCEPT ![t].rev = rev, ![t].ver = ver]
<1>1. set.members[t] \in Member
  BY DEF IsExpansionSet
<1>2. [set.members[t] EXCEPT !.rev = rev, !.ver = ver] \in Member
  BY <1>1 DEF Member
<1>3. DOMAIN mem = DOMAIN set.members /\ mem \in [DOMAIN mem -> Member]
  BY <1>2 DEF IsExpansionSet
<1>4. [set EXCEPT !.members[t].rev = rev, !.members[t].ver = ver]
        = [set EXCEPT !.members = mem]
  BY DEF IsExpansionSet
<1> QED BY <1>3, <1>4, SetWithMembers DEF IsExpansionSet

-----------------------------------------------------------------------------
(* expand_graph. *)
LEMMA ExpandStaged ==
    ASSUME GraphInv, NEW e \in SetIds, NEW s \in Specs,
           NEW old \in TaskIds \union {None}, ExpandGraph(e, s, old)
    PROVE  Staged(draft, draft')
<1> DEFINE fresh == [spec |-> s, grant |-> draft.grant, state |-> "queued",
                     deps |-> s.deps \union s.fixed, held |-> FALSE, rev |-> 1,
                     ver |-> 1, claim |-> 0, recon |-> "none"]
           kept  == IF old = None THEN draft.tasks
                    ELSE [draft.tasks EXCEPT ![old] =
                             Reseal([@ EXCEPT !.state = "superseded"])]
           swaps == IF old = None THEN draft.swaps ELSE Put(draft.swaps, old, s.id)
           past  == IF old = None THEN {}
                    ELSE {<<old, draft.tasks[old].rev, draft.tasks[old].ver>>}
           pin   == [rev |-> 1, ver |-> 1, outs |-> s.outs, req |-> s.req]
           mem   == Follow(Put(draft.sets[e].members, s.id, pin), swaps)
<1>1. draft # None /\ IsDraft(draft) /\ OwnOpenSet(e)
  BY DEF ExpandGraph, MayStage, GraphTypeOK, GraphInv
<1>2. s \in TaskSpec
  BY GraphAssumption
<1>3. fresh \in Task /\ fresh.spec.id = s.id /\ Fresh(fresh) /\ s.id \in TaskIds
  BY <1>1, <1>2 DEF Task, TaskSpec, IsDraft, Outcomes, Terminal, States, Fresh
<1>4. ASSUME old # None
      PROVE  /\ old \in TaskIds /\ old \in DOMAIN draft.tasks /\ draft.tasks[old] \in Task
             /\ draft.tasks[old].spec.id = old
  BY <1>1, <1>4 DEF ExpandGraph, GraphInv, DraftFollows, Continues, IsDraft, IsTaskTable
<1>5. /\ draft'.tasks = Put(kept, s.id, fresh)
      /\ draft'.sets = [draft.sets EXCEPT ![e].members = mem]
      /\ draft'.swaps = swaps
      /\ draft'.versions = draft.versions \union past \union {<<s.id, 1, 1>>}
      /\ draft'.count = draft.count + 1
      /\ draft'.grant = draft.grant
  BY <1>1 DEF ExpandGraph, IsDraft
<1>6. s.id \notin DOMAIN draft.tasks
  BY DEF ExpandGraph
<1>7. /\ DOMAIN kept = DOMAIN draft.tasks
      /\ \A t \in DOMAIN kept : /\ kept[t] \in Task /\ kept[t].spec.id = t
                                /\ SameWork(draft.tasks[t], kept[t])
  <2>1. CASE old = None
    BY <1>1, <2>1, SameWorkSelf DEF IsDraft, IsTaskTable
  <2>2. CASE old # None
    <3> DEFINE gone == Reseal([draft.tasks[old] EXCEPT !.state = "superseded"])
    <3>1. gone \in Task /\ gone.spec.id = old /\ SameWork(draft.tasks[old], gone)
      <4>1. draft.tasks[old] \in Task /\ draft.tasks[old].spec.id = old
        BY <1>4, <2>2
      <4>2. /\ gone.claim = draft.tasks[old].claim /\ gone.recon = draft.tasks[old].recon
            /\ gone.state = "superseded" /\ gone.spec = draft.tasks[old].spec
            /\ gone.grant = draft.tasks[old].grant /\ gone.rev = draft.tasks[old].rev
            /\ draft.tasks[old].rev \in Nat
        BY <4>1 DEF Reseal, Task
      <4>3. [draft.tasks[old] EXCEPT !.state = "superseded"] \in Task
        BY <4>1 DEF Task, States
      <4>4. gone \in Task
        BY <4>3, ResealType
      <4> QED BY <4>1, <4>2, <4>4 DEF SameWork
    <3>2. /\ DOMAIN kept = DOMAIN draft.tasks
          /\ kept[old] = gone
          /\ \A t \in DOMAIN draft.tasks : t # old => kept[t] = draft.tasks[t]
      BY <1>4, <2>2
    <3>3. \A t \in DOMAIN draft.tasks : /\ draft.tasks[t] \in Task /\ draft.tasks[t].spec.id = t
                                        /\ SameWork(draft.tasks[t], draft.tasks[t])
      BY <1>1, SameWorkSelf DEF IsDraft, IsTaskTable
    <3> QED BY <3>1, <3>2, <3>3
  <2> QED BY <2>1, <2>2
<1> HIDE DEF fresh, kept
<1>8. /\ IsTaskTable(draft'.tasks)
      /\ Continues(draft.tasks, draft'.tasks)
  <2>1. /\ DOMAIN draft'.tasks = DOMAIN draft.tasks \union {s.id}
        /\ draft'.tasks[s.id] = fresh
        /\ \A t \in DOMAIN draft.tasks : draft'.tasks[t] = kept[t]
    BY <1>5, <1>6, <1>7 DEF Put
  <2>2. DOMAIN draft.tasks \subseteq TaskIds
    BY <1>1 DEF IsDraft, IsTaskTable
  <2> QED BY <1>3, <1>7, <2>1, <2>2 DEF IsTaskTable, Continues
<1>9. DOMAIN swaps \subseteq TaskIds /\ \A r \in DOMAIN swaps : swaps[r] \in TaskIds
  BY <1>1, <1>3, <1>4 DEF IsDraft, Put
<1> HIDE DEF swaps
<1>10. /\ e \in DOMAIN draft.sets /\ ~draft.sets[e].sealed
       /\ IsExpansionSet(draft.sets[e])
  BY <1>1 DEF OwnOpenSet, IsDraft, IsSetTable
<1>11. DOMAIN mem \subseteq TaskIds /\ mem \in [DOMAIN mem -> Member]
  <2> DEFINE base == Put(draft.sets[e].members, s.id, pin)
  <2>1. pin \in Member
    BY <1>2 DEF Member, TaskSpec
  <2>2. DOMAIN base \subseteq TaskIds /\ base \in [DOMAIN base -> Member]
    BY <1>3, <1>10, <2>1 DEF Put, IsExpansionSet
  <2> HIDE DEF base
  <2>3. DOMAIN Follow(base, swaps) \subseteq TaskIds
        /\ Follow(base, swaps) \in [DOMAIN Follow(base, swaps) -> Member]
    BY <1>9, <2>2, FollowType
  <2> QED BY <2>3 DEF base
<1> HIDE DEF mem
<1>12. IsSetTable(draft'.sets) /\ KeepsSeals(draft.sets, draft'.sets)
  <2>1. /\ DOMAIN draft'.sets = DOMAIN draft.sets
        /\ draft'.sets[e] = [draft.sets[e] EXCEPT !.members = mem]
        /\ \A d \in DOMAIN draft.sets : d # e => draft'.sets[d] = draft.sets[d]
    BY <1>5, <1>10
  <2>2. IsExpansionSet(draft'.sets[e])
    BY <1>10, <1>11, <2>1, SetWithMembers
  <2>3. IsSetTable(draft.sets)
    BY <1>1 DEF IsDraft
  <2> QED BY <1>10, <2>1, <2>2, <2>3 DEF IsSetTable, KeepsSeals
<1>13. draft'.versions \subseteq TaskIds \X Nat \X Nat
  <2>1. past \subseteq TaskIds \X Nat \X Nat
    BY <1>4 DEF Task
  <2>2. draft.versions \subseteq TaskIds \X Nat \X Nat /\ <<s.id, 1, 1>> \in TaskIds \X Nat \X Nat
    BY <1>1, <1>3 DEF IsDraft
  <2> QED BY <1>5, <2>1, <2>2
<1>14. draft' \in [grant    : GrantIds,
                  tasks    : {draft'.tasks},
                  sets     : {draft'.sets},
                  swaps    : {draft'.swaps},
                  versions : SUBSET (TaskIds \X Nat \X Nat),
                  count    : Nat]
  <2>1. draft.grant \in GrantIds /\ draft.count \in Nat
    BY <1>1 DEF IsDraft
  <2>2. draft' = [grant |-> draft'.grant, tasks |-> draft'.tasks, sets |-> draft'.sets,
                  swaps |-> draft'.swaps, versions |-> draft'.versions, count |-> draft'.count]
    BY <1>1 DEF ExpandGraph, IsDraft
  <2> QED BY <1>5, <1>13, <2>1, <2>2
<1>15. Archivable(draft')
  <2>1. Archivable(draft) /\ draft.versions \subseteq draft'.versions
        /\ <<s.id, 1, 1>> \in draft'.versions
    BY <1>1, <1>5 DEF GraphInv, ArchiveInv
  <2>2. ASSUME NEW x, x \notin DOMAIN tasks, <<x, 1, 1>> \in draft'.versions
        PROVE  WillBeHeld(draft', <<x, 1, 1>>)
    BY <2>2 DEF WillBeHeld, Reached, GraphInv, ArchiveInv
  <2>3. s.id \notin DOMAIN tasks
    BY <1>1, <1>6 DEF GraphInv, DraftFollows, Continues
  <2>4. ASSUME NEW r \in DOMAIN swaps
        PROVE  swaps[r] \notin DOMAIN tasks /\ <<swaps[r], 1, 1>> \in draft'.versions
    BY <2>1, <2>3 DEF swaps, Put, Archivable
  <2>5. ASSUME NEW v \in draft'.versions PROVE Reached(draft'.tasks, v)
    <3>1. v \in TaskIds \X Nat \X Nat /\ IsTaskTable(draft.tasks)
      BY <1>1, <1>13 DEF IsDraft
    <3>2. CASE v \in draft.versions
      BY <1>8, <2>1, <3>1, <3>2, ReachedLater DEF Archivable
    <3>3. CASE v \in past
      <4>1. old # None /\ v = <<old, draft.tasks[old].rev, draft.tasks[old].ver>>
        BY <3>3
      <4>2. Reached(draft.tasks, v)
        BY <1>4, <4>1 DEF Reached, Task
      <4> QED BY <1>8, <3>1, <4>2, ReachedLater
    <3>4. CASE v = <<s.id, 1, 1>>
      <4>1. s.id \in DOMAIN draft'.tasks /\ draft'.tasks[s.id].rev = 1
        BY <1>5 DEF Put, fresh
      <4> QED BY <3>4, <4>1 DEF Reached
    <3> QED BY <1>5, <3>2, <3>3, <3>4
  <2>6. ASSUME NEW d \in DOMAIN draft'.sets, NEW m \in DOMAIN draft'.sets[d].members
        PROVE  WillBeHeld(draft', EntryOf(draft'.sets[d], m))
    <3>1. /\ DOMAIN draft'.sets = DOMAIN draft.sets
          /\ draft'.sets[e].members = mem
          /\ d # e => draft'.sets[d] = draft.sets[d]
      BY <1>5, <1>10 DEF IsExpansionSet
    <3>2. ASSUME NEW c \in DOMAIN draft.sets, NEW n \in DOMAIN draft.sets[c].members
          PROVE  WillBeHeld(draft', EntryOf(draft.sets[c], n))
      BY <2>1 DEF Archivable, WillBeHeld
    <3>3. CASE d # e
      BY <3>1, <3>2, <3>3
    <3>4. CASE d = e
      <4> DEFINE base == Put(draft.sets[e].members, s.id, pin)
      <4>1. base \in [DOMAIN base -> Member]
        <5>1. pin \in Member
          BY <1>2 DEF Member, TaskSpec
        <5> QED BY <1>10, <5>1 DEF Put, IsExpansionSet
      <4>2. mem = Follow(base, swaps)
        BY DEF mem
      <4>3. \A n \in DOMAIN base :
               \/ n = s.id /\ base[n].rev = 1 /\ base[n].ver = 1
               \/ n \in DOMAIN draft.sets[e].members /\ base[n] = draft.sets[e].members[n]
        BY DEF Put
      <4> HIDE DEF base
      <4>4. \/ (\E r \in DOMAIN swaps : m = swaps[r]) /\ mem[m].rev = 1 /\ mem[m].ver = 1
            \/ m \in DOMAIN base /\ mem[m] = base[m]
        BY <3>1, <3>4, <4>1, <4>2, FollowEntries
      <4>5. \/ m \notin DOMAIN tasks /\ <<m, 1, 1>> \in draft'.versions
                 /\ mem[m].rev = 1 /\ mem[m].ver = 1
            \/ m \in DOMAIN draft.sets[e].members /\ mem[m] = draft.sets[e].members[m]
        BY <2>1, <2>3, <2>4, <4>3, <4>4
      <4> QED BY <1>10, <2>2, <3>1, <3>2, <3>4, <4>5 DEF EntryOf
    <3> QED BY <3>3, <3>4
  <2> QED BY <1>5, <2>4, <2>5, <2>6 DEF Archivable
<1> QED BY <1>5, <1>8, <1>9, <1>12, <1>14, <1>15 DEF Staged, IsDraft

(* The four editing actions, whatever field they edit. *)
LEMMA EditStaged ==
    ASSUME GraphInv, draft # None, NEW t \in DOMAIN draft.tasks,
           NEW edited \in Task, edited.spec.id = t, SameWork(draft.tasks[t], edited),
           EditTask(t, edited)
    PROVE  Staged(draft, draft')
<1> DEFINE new == Reseal([edited EXCEPT !.rev = @ + 1])
           pinned(set) == [set EXCEPT !.members[t].rev = new.rev, !.members[t].ver = new.ver]
<1>1. IsDraft(draft)
  BY DEF GraphInv, GraphTypeOK
<1>2. /\ new \in Task /\ new.spec.id = t /\ SameWork(draft.tasks[t], new)
      /\ new.rev \in Nat /\ new.ver \in Nat /\ new.rev > draft.tasks[t].rev
  <2>1. /\ new.claim = edited.claim /\ new.recon = edited.recon
        /\ new.state = edited.state /\ new.spec = edited.spec
        /\ new.grant = edited.grant /\ new.rev = edited.rev + 1
    BY DEF Reseal, Task
  <2>2. new \in Task
    <3>1. [edited EXCEPT !.rev = @ + 1] \in Task
      BY DEF Task
    <3> QED BY <3>1, ResealType
  <2>3. new.rev \in Nat /\ new.ver \in Nat
    BY <2>2 DEF Task
  <2>4. edited.rev \in Nat /\ draft.tasks[t].rev \in Nat
    BY <1>1 DEF Task, IsDraft, IsTaskTable
  <2> QED BY <2>1, <2>2, <2>3, <2>4 DEF SameWork
<1> HIDE DEF new
<1>3. /\ draft'.tasks = [draft.tasks EXCEPT ![t] = new]
      /\ draft'.sets = [e \in DOMAIN draft.sets |->
                           IF ~draft.sets[e].sealed /\ t \in DOMAIN draft.sets[e].members
                             THEN pinned(draft.sets[e]) ELSE draft.sets[e]]
      /\ draft'.versions = draft.versions \union {<<t, new.rev, new.ver>>}
      /\ draft'.grant = draft.grant /\ draft'.swaps = draft.swaps
      /\ draft'.count = draft.count + 1
      /\ draft' = [grant |-> draft'.grant, tasks |-> draft'.tasks, sets |-> draft'.sets,
                   swaps |-> draft'.swaps, versions |-> draft'.versions, count |-> draft'.count]
  BY <1>1 DEF EditTask, IsDraft, new
<1>4. /\ IsTaskTable(draft'.tasks)
      /\ Continues(draft.tasks, draft'.tasks)
  <2>1. \A u \in DOMAIN draft.tasks : /\ draft.tasks[u] \in Task /\ draft.tasks[u].spec.id = u
                                      /\ SameWork(draft.tasks[u], draft.tasks[u])
    BY <1>1, SameWorkSelf DEF IsDraft, IsTaskTable
  <2>2. /\ DOMAIN draft'.tasks = DOMAIN draft.tasks /\ draft'.tasks[t] = new
        /\ \A u \in DOMAIN draft.tasks : u # t => draft'.tasks[u] = draft.tasks[u]
    BY <1>3
  <2>3. DOMAIN draft.tasks \subseteq TaskIds
    BY <1>1 DEF IsDraft, IsTaskTable
  <2> QED BY <1>2, <2>1, <2>2, <2>3 DEF IsTaskTable, Continues
<1>5. IsSetTable(draft'.sets) /\ KeepsSeals(draft.sets, draft'.sets)
  <2>1. IsSetTable(draft.sets)
    BY <1>1 DEF IsDraft
  <2>2. ASSUME NEW e \in DOMAIN draft.sets, t \in DOMAIN draft.sets[e].members
        PROVE  IsExpansionSet(pinned(draft.sets[e]))
    BY <1>2, <2>1, <2>2, SetRepointed DEF IsSetTable
  <2> HIDE DEF pinned
  <2> QED BY <1>3, <2>1, <2>2 DEF IsSetTable, KeepsSeals
<1>6. /\ draft'.versions \subseteq TaskIds \X Nat \X Nat
      /\ draft'.grant \in GrantIds /\ draft'.count \in Nat
  <2>1. t \in TaskIds /\ draft.versions \subseteq TaskIds \X Nat \X Nat
        /\ draft.grant \in GrantIds /\ draft.count \in Nat
    BY <1>1 DEF IsDraft, IsTaskTable
  <2>2. <<t, new.rev, new.ver>> \in TaskIds \X Nat \X Nat
    BY <1>2, <2>1
  <2>3. draft'.versions \subseteq TaskIds \X Nat \X Nat
    BY <1>3, <2>1, <2>2
  <2>4. draft'.grant = draft.grant /\ draft'.count = draft.count + 1
    BY <1>3
  <2> QED BY <2>1, <2>3, <2>4
<1>7. draft' \in [grant    : GrantIds,
                 tasks    : {draft'.tasks},
                 sets     : {draft'.sets},
                 swaps    : {draft'.swaps},
                 versions : SUBSET (TaskIds \X Nat \X Nat),
                 count    : Nat]
  BY <1>3, <1>6
<1>8. DOMAIN draft'.swaps \subseteq TaskIds /\ \A r \in DOMAIN draft'.swaps : draft'.swaps[r] \in TaskIds
  BY <1>1, <1>3 DEF IsDraft
<1>9. Archivable(draft')
  <2>1. Archivable(draft) /\ draft.versions \subseteq draft'.versions
        /\ <<t, new.rev, new.ver>> \in draft'.versions
        /\ IsTaskTable(draft.tasks) /\ IsSetTable(draft.sets) /\ IsTaskTable(tasks)
    BY <1>1, <1>3 DEF GraphInv, GraphTypeOK, ArchiveInv, IsDraft
  <2>2. t \in DOMAIN draft'.tasks /\ draft'.tasks[t] = new
    BY <1>3
  <2>3. ASSUME NEW v \in draft'.versions PROVE Reached(draft'.tasks, v)
    <3>1. v \in TaskIds \X Nat \X Nat
      BY <1>6
    <3>2. CASE v \in draft.versions
      BY <1>4, <2>1, <3>1, <3>2, ReachedLater DEF Archivable
    <3>3. CASE v = <<t, new.rev, new.ver>>
      <4>1. v[1] = t /\ v[2] = new.rev
        BY <3>3
      <4> QED BY <1>2, <2>2, <4>1 DEF Reached
    <3> QED BY <1>3, <3>2, <3>3
  <2>4. WillBeHeld(draft', <<t, new.rev, new.ver>>)
    <3>1. new.rev > draft.tasks[t].rev /\ draft.tasks[t].rev \in Nat
      BY <1>2, <2>1 DEF IsTaskTable, Task
    <3>2. ASSUME NEW w \in archive, w[1] = t, w[2] = new.rev PROVE FALSE
      <4>1. w \in TaskIds \X Nat \X Nat /\ Reached(tasks, w)
        BY DEF GraphInv, GraphTypeOK, ArchiveInv
      <4>2. Reached(draft.tasks, w)
        BY <2>1, <4>1, ReachedLater DEF GraphInv, DraftFollows
      <4> QED BY <1>2, <3>1, <3>2, <4>2 DEF Reached
    <3> QED BY <2>1, <3>2 DEF WillBeHeld
  <2>5. ASSUME NEW e \in DOMAIN draft'.sets, NEW m \in DOMAIN draft'.sets[e].members
        PROVE  WillBeHeld(draft', EntryOf(draft'.sets[e], m))
    <3>1. e \in DOMAIN draft.sets
      BY <1>3
    <3>2. ASSUME NEW n \in DOMAIN draft.sets[e].members
          PROVE  WillBeHeld(draft', EntryOf(draft.sets[e], n))
      BY <2>1, <3>1 DEF Archivable, WillBeHeld
    <3>3. CASE draft'.sets[e] = draft.sets[e]
      BY <3>2, <3>3
    <3>4. CASE t \in DOMAIN draft.sets[e].members /\ draft'.sets[e] = pinned(draft.sets[e])
      <4>1. draft.sets[e].members[t] \in Member /\ IsExpansionSet(draft.sets[e])
        BY <2>1, <3>1, <3>4 DEF IsSetTable, IsExpansionSet
      <4>2. DOMAIN draft'.sets[e].members = DOMAIN draft.sets[e].members
        BY <3>4, <4>1 DEF IsExpansionSet
      <4>3. m # t => draft'.sets[e].members[m] = draft.sets[e].members[m]
        BY <3>4, <4>1, <4>2 DEF IsExpansionSet
      <4>4. draft'.sets[e].members[t].rev = new.rev /\ draft'.sets[e].members[t].ver = new.ver
        BY <3>4, <4>1 DEF IsExpansionSet, Member
      <4> QED BY <2>4, <3>2, <4>2, <4>3, <4>4 DEF EntryOf
    <3> QED BY <1>3, <3>1, <3>3, <3>4
  <2> QED BY <1>3, <2>1, <2>3, <2>5 DEF Archivable
<1> QED BY <1>4, <1>5, <1>7, <1>8, <1>9 DEF Staged, IsDraft

(* seal. *)
LEMMA SealStaged ==
    ASSUME GraphInv, NEW e \in SetIds, Seal(e)
    PROVE  Staged(draft, draft')
<1>1. draft # None /\ IsDraft(draft) /\ OwnOpenSet(e)
  BY DEF Seal, MayStage, GraphInv, GraphTypeOK
<1>2. /\ e \in DOMAIN draft.sets /\ ~draft.sets[e].sealed /\ IsExpansionSet(draft.sets[e])
      /\ IsSetTable(draft.sets)
  BY <1>1 DEF OwnOpenSet, IsDraft, IsSetTable
<1>3. /\ draft'.tasks = draft.tasks /\ draft'.versions = draft.versions
      /\ draft'.sets = [draft.sets EXCEPT ![e].sealed = TRUE]
      /\ draft'.grant = draft.grant /\ draft'.swaps = draft.swaps
      /\ draft'.count = draft.count + 1
      /\ draft' = [grant |-> draft'.grant, tasks |-> draft'.tasks, sets |-> draft'.sets,
                   swaps |-> draft'.swaps, versions |-> draft'.versions, count |-> draft'.count]
  BY <1>1 DEF Seal, IsDraft
<1>4. IsExpansionSet([draft.sets[e] EXCEPT !.sealed = TRUE])
  BY <1>2 DEF IsExpansionSet
<1>5. IsSetTable(draft'.sets) /\ KeepsSeals(draft.sets, draft'.sets)
  BY <1>2, <1>3, <1>4 DEF IsSetTable, KeepsSeals
<1>6. draft' \in [grant    : GrantIds,
                 tasks    : {draft'.tasks},
                 sets     : {draft'.sets},
                 swaps    : {draft'.swaps},
                 versions : SUBSET (TaskIds \X Nat \X Nat),
                 count    : Nat]
  BY <1>1, <1>3 DEF IsDraft
<1>7. Continues(draft.tasks, draft'.tasks)
  BY <1>1, <1>3, ContinuesSelf DEF IsDraft
<1>8. Archivable(draft')
  <2>1. Archivable(draft)
    BY <1>1 DEF GraphInv, ArchiveInv
  <2>2. /\ DOMAIN draft'.sets = DOMAIN draft.sets
        /\ \A d \in DOMAIN draft.sets : draft'.sets[d].members = draft.sets[d].members
    BY <1>2, <1>3 DEF IsSetTable, IsExpansionSet
  <2> QED BY <1>3, <2>1, <2>2 DEF Archivable, WillBeHeld, EntryOf
<1> QED BY <1>1, <1>3, <1>5, <1>6, <1>7, <1>8 DEF Staged, IsDraft

-----------------------------------------------------------------------------
(* Staging any action of a batch touches the draft alone, and keeps it sound. *)
Stage ==
    /\ draft # None
    /\ Staged(draft, draft')
    /\ UNCHANGED <<head, tasks, sets, archive, dead>>

LEMMA StagingSteps ==
    ASSUME GraphInv, DecisionStep
    PROVE  \/ \E g \in GrantIds : BeginDecision(g)
           \/ Stage
           \/ CommitDecision
           \/ RefuseDecision
<1>1. ASSUME NEW e \in SetIds, NEW s \in Specs, NEW old \in TaskIds \union {None},
             ExpandGraph(e, s, old)
      PROVE  Stage
  BY <1>1, ExpandStaged DEF Stage, ExpandGraph, MayStage
<1>2. ASSUME draft # None, NEW t, Editable(t)
      PROVE  /\ t \in DOMAIN draft.tasks /\ draft.tasks[t] \in Task
             /\ draft.tasks[t].spec.id = t /\ draft.tasks[t].spec \in TaskSpec
  BY <1>2 DEF Editable, GraphInv, GraphTypeOK, IsDraft, IsTaskTable, Task
<1>3. ASSUME draft # None, NEW t, Editable(t), NEW edited \in Task, edited.spec.id = t,
             SameWork(draft.tasks[t], edited), EditTask(t, edited)
      PROVE  Stage
  <2>1. t \in DOMAIN draft.tasks
    BY <1>2, <1>3
  <2>2. Staged(draft, draft')
    BY <1>3, <2>1, EditStaged
  <2> QED BY <1>3, <2>2 DEF Stage, EditTask
<1>4. ASSUME NEW t \in TaskIds, BindRole(t) \/ SetPriority(t) PROVE Stage
  <2>1. draft # None /\ Editable(t) /\ EditTask(t, draft.tasks[t])
    BY <1>4 DEF BindRole, SetPriority, MayStage
  <2>2. SameWork(draft.tasks[t], draft.tasks[t])
    BY <1>2, <2>1, SameWorkSelf
  <2> QED BY <1>2, <1>3, <2>1, <2>2
<1>5. ASSUME NEW t \in TaskIds, NEW deps \in SUBSET TaskIds, SetDependencies(t, deps)
      PROVE  Stage
  <2> DEFINE edited == [draft.tasks[t] EXCEPT !.deps = deps \union draft.tasks[t].spec.fixed]
  <2>1. draft # None /\ Editable(t) /\ EditTask(t, edited)
    BY <1>5 DEF SetDependencies, MayStage
  <2>2. edited \in Task /\ edited.spec.id = t /\ SameWork(draft.tasks[t], edited)
    BY <1>2, <2>1 DEF Task, TaskSpec, SameWork
  <2> QED BY <1>3, <2>1, <2>2
<1>6. ASSUME NEW t \in TaskIds, NEW held \in BOOLEAN, RequestDispatch(t, held)
      PROVE  Stage
  <2> DEFINE edited == [draft.tasks[t] EXCEPT !.held = held]
  <2>1. draft # None /\ Editable(t) /\ EditTask(t, edited)
    BY <1>6 DEF RequestDispatch, MayStage
  <2>2. edited \in Task /\ edited.spec.id = t /\ SameWork(draft.tasks[t], edited)
    BY <1>2, <2>1 DEF Task, SameWork
  <2> QED BY <1>3, <2>1, <2>2
<1>7. ASSUME NEW e \in SetIds, Seal(e) PROVE Stage
  BY <1>7, SealStaged DEF Stage, Seal, MayStage
<1> QED BY <1>1, <1>4, <1>5, <1>6, <1>7 DEF DecisionStep

(* Every step of the graph keeps its tables well-formed and its draft sound. *)
LEMMA GraphPreserved ==
    ASSUME GraphInv, GraphStep
    PROVE  GraphInv'
<1>1. ASSUME NEW g \in GrantIds, BeginDecision(g) PROVE GraphInv'
  <2> DEFINE d == [grant |-> g, tasks |-> tasks, sets |-> sets,
                   swaps |-> << >>, versions |-> {}, count |-> 0]
  <2>1. draft' = d /\ head < MaxHead /\ UNCHANGED <<head, tasks, sets, archive, dead>>
    BY <1>1 DEF BeginDecision
  <2>2. IsDraft(d)
    BY DEF IsDraft, GraphInv, GraphTypeOK
  <2>3. KeepsSeals(sets, sets) /\ Continues(tasks, tasks)
    BY ContinuesSelf DEF KeepsSeals, GraphInv, GraphTypeOK
  <2>4. Archivable(d)
    BY DEF GraphInv, ArchiveInv, Archivable, WillBeHeld
  <2>5. ArchiveInv'
    BY <2>1, <2>4 DEF GraphInv, ArchiveInv, Archivable, WillBeHeld
  <2> QED BY <2>1, <2>2, <2>3, <2>5 DEF GraphInv, GraphTypeOK, DraftFollows
<1>2. CASE Stage
  <2>1. KeepsSeals(sets, draft'.sets)
    BY <1>2 DEF Stage, Staged, KeepsSeals, GraphInv, DraftFollows
  <2>2. Continues(tasks, draft'.tasks) /\ IsDraft(draft')
    BY <1>2, ContinuesTwice DEF Stage, Staged, GraphInv, GraphTypeOK, DraftFollows, IsDraft
  <2>3. ArchiveInv'
    BY <1>2 DEF Stage, Staged, GraphInv, ArchiveInv, Archivable, WillBeHeld
  <2> QED BY <1>2, <2>1, <2>2, <2>3 DEF Stage, GraphInv, GraphTypeOK, DraftFollows
<1>3. CASE CommitDecision
  <2>1. draft # None /\ IsDraft(draft) /\ draft' = None
    BY <1>3 DEF CommitDecision, GraphInv, GraphTypeOK
  <2>2. head' \in 0 .. MaxHead
    BY <1>3, <2>1, GraphAssumption DEF CommitDecision, GraphInv, GraphTypeOK, DraftFollows
  <2>3. \A t \in DOMAIN draft.tasks :
           <<t, draft.tasks[t].rev, draft.tasks[t].ver>> \in TaskIds \X Nat \X Nat
    BY <2>1 DEF IsDraft, IsTaskTable, Task
  <2>4. NewVersions \subseteq TaskIds \X Nat \X Nat
    BY <2>1, <2>3 DEF NewVersions, IsDraft
  <2>5. archive' \subseteq TaskIds \X Nat \X Nat
    BY <1>3, <2>4 DEF CommitDecision, GraphInv, GraphTypeOK
  <2>6. IsTaskTable(tasks') /\ IsSetTable(sets')
    BY <1>3, <2>1 DEF CommitDecision, IsDraft
  <2>7. /\ archive' = archive \union NewVersions /\ tasks' = draft.tasks /\ sets' = draft.sets
        /\ Archivable(draft) /\ Continues(tasks, draft.tasks)
        /\ archive \subseteq TaskIds \X Nat \X Nat /\ IsTaskTable(tasks) /\ IsTaskTable(draft.tasks)
    BY <1>3, <2>1 DEF CommitDecision, GraphInv, GraphTypeOK, ArchiveInv, DraftFollows, IsDraft
  <2>8. ASSUME NEW w \in archive' PROVE Reached(draft.tasks, w)
    <3>1. CASE w \in archive
      BY <2>7, <3>1, ReachedLater DEF GraphInv, ArchiveInv
    <3>2. CASE w \in draft.versions
      BY <2>7, <3>2 DEF Archivable
    <3>3. ASSUME NEW t \in DOMAIN draft.tasks,
                 w = <<t, draft.tasks[t].rev, draft.tasks[t].ver>>
          PROVE  Reached(draft.tasks, w)
      BY <2>7, <3>3 DEF Reached, IsTaskTable, Task
    <3> QED BY <2>7, <3>1, <3>2, <3>3 DEF NewVersions
  <2>9. ASSUME NEW v, WillBeHeld(draft, v) PROVE v \in archive'
    BY <2>7, <2>9 DEF WillBeHeld, NewVersions
  <2>10. ArchiveInv'
    BY <2>1, <2>7, <2>8, <2>9 DEF ArchiveInv, Archivable
  <2> QED BY <1>3, <2>1, <2>2, <2>5, <2>6, <2>10
          DEF CommitDecision, GraphInv, GraphTypeOK, DraftFollows
<1>4. CASE RefuseDecision
  BY <1>4 DEF RefuseDecision, GraphInv, GraphTypeOK, DraftFollows, ArchiveInv
<1>5. ASSUME NEW e \in SetIds, NEW g \in GrantIds, NEW outs \in SUBSET Outs,
             NEW limit \in Limits \union {None}, CreateExpansion(e, g, outs, limit)
      PROVE  GraphInv'
  <2> DEFINE set == [grant |-> g, sealed |-> FALSE, limit |-> limit,
                     outs |-> outs, members |-> << >>]
  <2>1. IsExpansionSet(set)
    BY DEF IsExpansionSet
  <2>2. sets' = Put(sets, e, set) /\ draft = None /\ UNCHANGED <<head, tasks, archive, draft, dead>>
    BY <1>5 DEF CreateExpansion
  <2> HIDE DEF set
  <2>3. IsSetTable(sets')
    BY <2>1, <2>2 DEF Put, IsSetTable, GraphInv, GraphTypeOK
  <2>4. /\ set.members = << >>
        /\ \A d \in DOMAIN sets' : sets'[d] = set \/ (d \in DOMAIN sets /\ sets'[d] = sets[d])
    BY <2>2 DEF Put, set
  <2>5. ArchiveInv'
    BY <2>2, <2>4 DEF GraphInv, ArchiveInv, EntryOf
  <2> QED BY <2>2, <2>3, <2>5 DEF GraphInv, GraphTypeOK, DraftFollows
<1>6. ASSUME NEW g \in GrantIds, GrantDies(g) PROVE GraphInv'
  BY <1>6 DEF GrantDies, GraphInv, GraphTypeOK, DraftFollows, ArchiveInv
<1> QED BY <1>1, <1>2, <1>3, <1>4, <1>5, <1>6, StagingSteps DEF GraphStep

(***************************************************************************)
(* No decision touches the claim, the reconciliation or the grant of a     *)
(* task: what a step leaves in the durable table continues what it held.   *)
(***************************************************************************)
LEMMA GraphRows ==
    ASSUME GraphInv, GraphStep
    PROVE  Continues(tasks, tasks')
<1>1. CASE UNCHANGED tasks
  BY <1>1, ContinuesSelf DEF GraphInv, GraphTypeOK
<1>2. CASE CommitDecision
  BY <1>2 DEF CommitDecision, GraphInv, DraftFollows
<1> QED BY <1>1, <1>2, StagingSteps
        DEF GraphStep, BeginDecision, Stage, RefuseDecision, CreateExpansion, GrantDies

(* A sealed set is the same after any step of the graph. *)
LEMMA GraphKeepsSeals ==
    ASSUME GraphInv, GraphStep
    PROVE  KeepsSeals(sets, sets')
<1>1. CASE UNCHANGED sets
  BY <1>1 DEF KeepsSeals
<1>2. CASE CommitDecision
  BY <1>2 DEF CommitDecision, GraphInv, DraftFollows
<1>3. ASSUME NEW e \in SetIds, NEW g \in GrantIds, NEW outs \in SUBSET Outs,
             NEW limit \in Limits \union {None}, CreateExpansion(e, g, outs, limit)
      PROVE  KeepsSeals(sets, sets')
  BY <1>3 DEF CreateExpansion, Put, KeepsSeals
<1> QED BY <1>1, <1>2, <1>3, StagingSteps
        DEF GraphStep, BeginDecision, Stage, RefuseDecision, GrantDies

-----------------------------------------------------------------------------
(***************************************************************************)
(* What a task document says about the ledger: its claim is a row of that  *)
(* task; an ending, as its state or as its reconciliation, means that the  *)
(* row was released; and a reconciled ending cannot be claimed again.      *)
(***************************************************************************)
RowTrue(t, row) ==
    /\ row.claim <= Len(ledger)
    /\ row.claim # 0 => ledger[row.claim].task = t
    /\ row.state \in Terminal \/ row.recon \in Terminal =>
          row.claim # 0 /\ ~ledger[row.claim].live
    /\ row.recon \in Terminal => row.state \notin Claimable

ClaimsTrue(table) == \A t \in DOMAIN table : RowTrue(t, table[t])

IInv ==
    /\ TypeOK
    /\ DraftFollows
    /\ ArchiveInv
    /\ Len(ledger) <= MaxClaims
    /\ ClaimsTrue(tasks)
    /\ OneWriterPerZone

-----------------------------------------------------------------------------
(* What the graph does to documents keeps them true of the ledger. *)
LEMMA ContinuesTrue ==
    ASSUME ledger \in Seq(Row), NEW old, NEW new, ClaimsTrue(old), Continues(old, new)
    PROVE  ClaimsTrue(new)
<1> SUFFICES ASSUME NEW t \in DOMAIN new PROVE RowTrue(t, new[t])
  BY DEF ClaimsTrue
<1>1. CASE t \in DOMAIN old
  BY <1>1 DEF Continues, ClaimsTrue, RowTrue, SameWork, Terminal, Claimable
<1>2. CASE t \notin DOMAIN old
  <2>1. Len(ledger) \in Nat
    OBVIOUS
  <2> QED BY <1>2, <2>1 DEF Continues, Fresh, RowTrue, Terminal
<1> QED BY <1>1, <1>2

(* A decision, an expansion or a grant's death. *)
LEMMA GraphStepInvariant ==
    ASSUME IInv, GraphStep, UNCHANGED <<ledger, policy, reading>>
    PROVE  IInv'
<1>1. GraphInv
  BY DEF IInv, TypeOK, GraphInv, GraphTypeOK
<1>2. GraphInv'
  BY <1>1, GraphPreserved
<1>3. ClaimsTrue(tasks')
  BY <1>1, GraphRows, ContinuesTrue DEF IInv, TypeOK
<1>4. ClaimsTrue(tasks)'
  BY <1>3 DEF ClaimsTrue, RowTrue
<1>5. \A t \in DOMAIN tasks' : tasks'[t].claim <= Len(ledger)
  BY <1>3 DEF ClaimsTrue, RowTrue
<1>6. TypeOK' /\ DraftFollows' /\ ArchiveInv'
  BY <1>2, <1>5 DEF GraphInv, GraphTypeOK, TypeOK, IInv
<1> QED BY <1>4, <1>6 DEF IInv, OneWriterPerZone, LiveRows

(* A document of a task that is written back keeps the task table well-formed. *)
LEMMA TaskWritten ==
    ASSUME IsTaskTable(tasks), ArchiveInv, NEW t \in DOMAIN tasks, NEW row \in Task,
           row.spec = tasks[t].spec, row.rev = tasks[t].rev,
           tasks' = [tasks EXCEPT ![t] = row], UNCHANGED <<sets, archive>>, draft' = None
    PROVE  /\ IsTaskTable(tasks')
           /\ ArchiveInv'
           /\ DOMAIN tasks' = DOMAIN tasks
           /\ tasks'[t] = row
           /\ \A u \in DOMAIN tasks : u # t => tasks'[u] = tasks[u]
<1>1. /\ DOMAIN tasks' = DOMAIN tasks /\ tasks'[t] = row
      /\ \A u \in DOMAIN tasks : u # t => tasks'[u] = tasks[u]
  OBVIOUS
<1>2. IsTaskTable(tasks')
  BY <1>1 DEF IsTaskTable
<1>3. ArchiveInv'
  BY <1>1 DEF ArchiveInv, Reached
<1> QED BY <1>1, <1>2, <1>3

(* claim. *)
LEMMA ClaimInvariant ==
    ASSUME IInv, NEW t \in TaskIds, Claim(t)
    PROVE  IInv'
<1> DEFINE doc == Reseal([tasks[t] EXCEPT !.state = "claimed", !.claim = Len(ledger) + 1])
           row == [task |-> t, zone |-> tasks[t].spec.zone,
                   rev |-> tasks[t].rev, ver |-> tasks[t].ver,
                   cost |-> CostOf[tasks[t].grant], live |-> TRUE,
                   outcome |-> "claimed"]
<1>1. /\ t \in DOMAIN tasks /\ tasks[t] \in Task /\ tasks[t].state \in Claimable
      /\ ledger \in Seq(Row) /\ Len(ledger) \in Nat /\ DOMAIN ledger = 1 .. Len(ledger)
      /\ draft = None /\ draft' = None
      /\ UNCHANGED <<head, sets, archive, draft, dead, policy, reading>>
  BY DEF Claim, IInv, TypeOK, IsTaskTable
<1>2. row \in Row
  BY <1>1, SchedulingAssumption DEF Row, Task, TaskSpec
<1>3. /\ doc.claim = Len(ledger) + 1 /\ doc.state = "claimed"
      /\ doc.recon = tasks[t].recon /\ doc.spec = tasks[t].spec
      /\ doc.rev = tasks[t].rev
  BY <1>1 DEF Reseal, Task
<1>4. doc \in Task
  <2>1. Len(ledger) + 1 \in Nat /\ "claimed" \in States
    BY <1>1 DEF States
  <2>2. [tasks[t] EXCEPT !.state = "claimed", !.claim = Len(ledger) + 1] \in Task
    BY <1>1, <2>1 DEF Task
  <2> QED BY <2>2, ResealType
<1>5. tasks' = [tasks EXCEPT ![t] = doc] /\ ledger' = Append(ledger, row)
  BY DEF Claim
<1> HIDE DEF doc, row
<1>6. /\ ledger' \in Seq(Row) /\ Len(ledger') = Len(ledger) + 1
      /\ DOMAIN ledger' = 1 .. Len(ledger) + 1
      /\ ledger'[Len(ledger) + 1] = row
      /\ \A i \in 1 .. Len(ledger) : ledger'[i] = ledger[i]
  BY <1>1, <1>2, <1>5
<1>7. /\ IsTaskTable(tasks') /\ DOMAIN tasks' = DOMAIN tasks /\ tasks'[t] = doc /\ ArchiveInv'
      /\ \A u \in DOMAIN tasks : u # t => tasks'[u] = tasks[u]
  BY <1>1, <1>3, <1>4, <1>5, TaskWritten DEF IInv, TypeOK
<1>8. row.task = t /\ row.zone = tasks[t].spec.zone /\ row.live = TRUE
  BY DEF row
<1>9. ClaimsTrue(tasks)'
  <2>1. RowTrue(t, tasks[t])'
    <3>1. tasks[t].recon \notin Terminal
      BY <1>1 DEF IInv, ClaimsTrue, RowTrue
    <3> QED BY <1>1, <1>3, <1>6, <1>7, <1>8, <3>1 DEF RowTrue, Terminal
  <2>2. ASSUME NEW u \in DOMAIN tasks, u # t PROVE RowTrue(u, tasks[u])'
    <3>1. RowTrue(u, tasks[u]) /\ tasks[u].claim \in Nat
      BY DEF IInv, ClaimsTrue, TypeOK, IsTaskTable, Task
    <3>2. tasks[u].claim # 0 => ledger'[tasks[u].claim] = ledger[tasks[u].claim]
      BY <1>1, <1>6, <3>1 DEF RowTrue
    <3> QED BY <1>1, <1>6, <1>7, <2>2, <3>1, <3>2 DEF RowTrue
  <2> QED BY <1>7, <2>1, <2>2 DEF ClaimsTrue
<1>10. OneWriterPerZone'
  <2>1. LiveRows' \subseteq LiveRows \union {Len(ledger) + 1}
    BY <1>1, <1>6 DEF LiveRows
  <2>2. ASSUME NEW i \in LiveRows PROVE ledger'[i] = ledger[i]
    BY <1>1, <1>6 DEF LiveRows
  <2>3. ASSUME NEW i \in LiveRows, ledger[i].task # t
        PROVE  ~Overlap(ledger[i].zone, row.zone) /\ ~Overlap(row.zone, ledger[i].zone)
    BY <1>8, <2>3 DEF Claim, Waiting, ZoneBusy, Overlap
  <2>4. ASSUME NEW i \in LiveRows', NEW j \in LiveRows', ledger'[i].task # ledger'[j].task
        PROVE  ~Overlap(ledger'[i].zone, ledger'[j].zone)
    <3>1. CASE i \in LiveRows /\ j \in LiveRows
      BY <2>2, <2>4, <3>1 DEF IInv, OneWriterPerZone
    <3>2. CASE i \in LiveRows /\ j = Len(ledger) + 1
      BY <1>6, <1>8, <2>2, <2>3, <2>4, <3>2
    <3>3. CASE i = Len(ledger) + 1 /\ j \in LiveRows
      BY <1>6, <1>8, <2>2, <2>3, <2>4, <3>3
    <3>4. CASE i = Len(ledger) + 1 /\ j = Len(ledger) + 1
      BY <2>4, <3>4
    <3> QED BY <2>1, <3>1, <3>2, <3>3, <3>4
  <2> QED BY <2>4 DEF OneWriterPerZone
<1>11. \A u \in DOMAIN tasks' : tasks'[u].claim <= Len(ledger')
  BY <1>9 DEF ClaimsTrue, RowTrue
<1>12. TypeOK' /\ DraftFollows'
  BY <1>1, <1>6, <1>7, <1>11 DEF IInv, TypeOK, DraftFollows
<1>13. Len(ledger') <= MaxClaims
  BY <1>1, <1>6, SchedulingAssumption DEF Claim
<1> QED BY <1>1, <1>7, <1>9, <1>10, <1>12, <1>13 DEF IInv

(* An untrusted report. *)
LEMMA ObserveInvariant ==
    ASSUME IInv, NEW t \in TaskIds, NEW o \in Outcomes, ObserveTask(t, o)
    PROVE  IInv'
<1> DEFINE st == IF o \in Terminal /\ ~Reconciled(t) THEN "claimed" ELSE tasks[t].state
           doc == Reseal([tasks[t] EXCEPT !.state = st])
<1>1. /\ t \in DOMAIN tasks /\ tasks[t] \in Task
      /\ draft = None /\ draft' = None
      /\ UNCHANGED <<head, sets, archive, draft, dead, ledger, policy, reading>>
  BY DEF ObserveTask, Reportable, IInv, TypeOK, IsTaskTable
<1>2. /\ doc.claim = tasks[t].claim /\ doc.state = st
      /\ doc.recon = tasks[t].recon /\ doc.spec = tasks[t].spec
      /\ doc.rev = tasks[t].rev
  BY <1>1 DEF Reseal, Task
<1>3. doc \in Task
  <2>1. [tasks[t] EXCEPT !.state = st] \in Task
    BY <1>1 DEF Task, States
  <2> QED BY <2>1, ResealType
<1>4. tasks' = [tasks EXCEPT ![t] = doc]
  BY DEF ObserveTask
<1> HIDE DEF doc
<1>5. /\ IsTaskTable(tasks') /\ DOMAIN tasks' = DOMAIN tasks /\ tasks'[t] = doc /\ ArchiveInv'
      /\ \A u \in DOMAIN tasks : u # t => tasks'[u] = tasks[u]
  BY <1>1, <1>2, <1>3, <1>4, TaskWritten DEF IInv, TypeOK
<1>6. RowTrue(t, doc)
  BY <1>1, <1>2 DEF IInv, ClaimsTrue, RowTrue, Reconciled, Terminal, Claimable
<1>7. ClaimsTrue(tasks')
  BY <1>5, <1>6 DEF IInv, ClaimsTrue
<1>8. ClaimsTrue(tasks)' /\ \A u \in DOMAIN tasks' : tasks'[u].claim <= Len(ledger')
  BY <1>1, <1>7 DEF ClaimsTrue, RowTrue
<1>9. TypeOK' /\ DraftFollows'
  BY <1>1, <1>5, <1>8 DEF IInv, TypeOK, DraftFollows
<1> QED BY <1>1, <1>5, <1>8, <1>9 DEF IInv, OneWriterPerZone, LiveRows

(* What a reconciliation does to the ledger: at most the row it names is released. *)
LEMMA ReconcileLedger ==
    ASSUME IInv, NEW t \in TaskIds, NEW o \in Outcomes, Reconcile(t, o)
    PROVE  /\ tasks[t].claim \in 1 .. Len(ledger)
           /\ ledger' \in Seq(Row) /\ Len(ledger') = Len(ledger)
           /\ DOMAIN ledger' = DOMAIN ledger /\ DOMAIN ledger = 1 .. Len(ledger)
           /\ \A i \in DOMAIN ledger : /\ ledger'[i].task = ledger[i].task
                                       /\ ledger'[i].zone = ledger[i].zone
                                       /\ ledger'[i].cost = ledger[i].cost
                                       /\ ledger'[i].live => ledger[i].live
                                       /\ i # tasks[t].claim => ledger'[i] = ledger[i]
           /\ o \in Terminal => ~ledger'[tasks[t].claim].live
           /\ ledger' # ledger => /\ o \in Terminal
                                  /\ ledger[tasks[t].claim].live
                                  /\ ledger'[tasks[t].claim].outcome = o
<1> DEFINE c == tasks[t].claim
           rel == [ledger[c] EXCEPT !.live = FALSE, !.outcome = o]
<1>1. /\ t \in DOMAIN tasks /\ tasks[t] \in Task /\ c # 0 /\ c <= Len(ledger)
      /\ ledger \in Seq(Row) /\ Len(ledger) \in Nat /\ DOMAIN ledger = 1 .. Len(ledger)
  BY DEF Reconcile, Reportable, IInv, TypeOK, IsTaskTable
<1>2. c \in 1 .. Len(ledger) /\ ledger[c] \in Row
  BY <1>1 DEF Task
<1>3. CASE o \in Terminal /\ ~Reconciled(t) /\ ledger[c].live
  <2>1. ledger' = [ledger EXCEPT ![c] = rel]
    BY <1>3 DEF Reconcile
  <2>2. /\ rel \in Row /\ rel.task = ledger[c].task /\ rel.zone = ledger[c].zone
        /\ rel.cost = ledger[c].cost /\ rel.live = FALSE /\ rel.outcome = o
    BY <1>2, <1>3 DEF Row, Terminal
  <2> HIDE DEF rel
  <2>3. ledger' \in Seq(Row) /\ Len(ledger') = Len(ledger) /\ DOMAIN ledger' = DOMAIN ledger
    BY <1>1, <1>2, <2>1, <2>2
  <2>4. ledger'[c] = rel /\ \A i \in DOMAIN ledger : i # c => ledger'[i] = ledger[i]
    BY <1>1, <1>2, <2>1
  <2> QED BY <1>1, <1>2, <1>3, <2>2, <2>3, <2>4
<1>4. CASE ~(o \in Terminal /\ ~Reconciled(t) /\ ledger[c].live)
  <2>1. ledger' = ledger
    BY <1>4 DEF Reconcile
  <2>2. Reconciled(t) => ~ledger[c].live
    BY <1>1 DEF Reconciled, IInv, ClaimsTrue, RowTrue
  <2> QED BY <1>1, <1>2, <1>4, <2>1, <2>2
<1> QED BY <1>3, <1>4

(* The owner's reconciliation. *)
LEMMA ReconcileInvariant ==
    ASSUME IInv, NEW t \in TaskIds, NEW o \in Outcomes, Reconcile(t, o)
    PROVE  IInv'
<1> DEFINE st == IF o = "started" THEN tasks[t].state ELSE o
           doc == Reseal([tasks[t] EXCEPT !.recon = o, !.state = st])
<1>1. /\ t \in DOMAIN tasks /\ tasks[t] \in Task
      /\ draft = None /\ draft' = None
      /\ UNCHANGED <<head, sets, archive, draft, dead, policy, reading>>
  BY DEF Reconcile, Reportable, IInv, TypeOK, IsTaskTable
<1>2. /\ doc.claim = tasks[t].claim /\ doc.state = st
      /\ doc.recon = o /\ doc.spec = tasks[t].spec
      /\ doc.rev = tasks[t].rev
  BY <1>1 DEF Reseal, Task
<1>3. doc \in Task
  <2>1. [tasks[t] EXCEPT !.recon = o, !.state = st] \in Task
    BY <1>1 DEF Task, States, Outcomes
  <2> QED BY <2>1, ResealType
<1>4. tasks' = [tasks EXCEPT ![t] = doc]
  BY DEF Reconcile
<1> HIDE DEF doc
<1>5. /\ IsTaskTable(tasks') /\ DOMAIN tasks' = DOMAIN tasks /\ tasks'[t] = doc /\ ArchiveInv'
      /\ \A u \in DOMAIN tasks : u # t => tasks'[u] = tasks[u]
  BY <1>1, <1>2, <1>3, <1>4, TaskWritten DEF IInv, TypeOK
<1>6. ClaimsTrue(tasks)'
  <2>1. RowTrue(t, tasks[t])'
    <3>1. /\ doc.claim \in DOMAIN ledger /\ doc.claim # 0
          /\ doc.claim <= Len(ledger') /\ ledger'[doc.claim].task = t
      BY <1>1, <1>2, ReconcileLedger DEF IInv, ClaimsTrue, RowTrue
    <3>2. CASE o \in Terminal
      <4>1. ~ledger'[doc.claim].live
        BY <1>2, <3>2, ReconcileLedger
      <4>2. doc.state \notin Claimable
        BY <1>2, <3>2 DEF Terminal, Claimable
      <4> QED BY <1>5, <3>1, <4>1, <4>2 DEF RowTrue
    <3>3. CASE o \notin Terminal
      <4>1. doc.recon \notin Terminal
        BY <1>2, <3>3
      <4>2. doc.state \in Terminal => tasks[t].state \in Terminal
        BY <1>2, <3>3 DEF Terminal
      <4>3. tasks[t].state \in Terminal => ~ledger'[doc.claim].live
        BY <1>1, <1>2, <3>1, ReconcileLedger DEF IInv, ClaimsTrue, RowTrue
      <4> QED BY <1>5, <3>1, <4>1, <4>2, <4>3 DEF RowTrue
    <3> QED BY <3>2, <3>3
  <2>2. ASSUME NEW u \in DOMAIN tasks, u # t PROVE RowTrue(u, tasks[u])'
    <3>1. RowTrue(u, tasks[u]) /\ tasks[u].claim \in Nat /\ tasks'[u] = tasks[u]
      BY <1>5, <2>2 DEF IInv, ClaimsTrue, TypeOK, IsTaskTable, Task
    <3>2. /\ Len(ledger') = Len(ledger)
          /\ tasks[u].claim # 0 =>
                /\ ledger'[tasks[u].claim].task = ledger[tasks[u].claim].task
                /\ ledger'[tasks[u].claim].live => ledger[tasks[u].claim].live
      BY <3>1, ReconcileLedger DEF RowTrue
    <3> QED BY <3>1, <3>2 DEF RowTrue
  <2> QED BY <1>5, <2>1, <2>2 DEF ClaimsTrue
<1>7. OneWriterPerZone'
  <2>1. LiveRows' \subseteq LiveRows
    BY ReconcileLedger DEF LiveRows
  <2>2. \A i \in LiveRows : ledger'[i].task = ledger[i].task /\ ledger'[i].zone = ledger[i].zone
    BY ReconcileLedger DEF LiveRows
  <2> QED BY <2>1, <2>2 DEF IInv, OneWriterPerZone
<1>8. \A u \in DOMAIN tasks' : tasks'[u].claim <= Len(ledger')
  BY <1>6 DEF ClaimsTrue, RowTrue
<1>9. TypeOK' /\ DraftFollows'
  BY <1>1, <1>5, <1>8, ReconcileLedger DEF IInv, TypeOK, DraftFollows
<1> QED BY <1>1, <1>5, <1>6, <1>7, <1>9, ReconcileLedger DEF IInv

(* The inductive invariant holds of every reachable state. *)
THEOREM Invariance == Spec => []IInv
<1>1. Init => IInv
  <2> SUFFICES ASSUME Init PROVE IInv
    OBVIOUS
  <2>1. ledger \in Seq(Row) /\ Len(ledger) = 0 /\ LiveRows = {}
    BY DEF Init, LiveRows
  <2>2. TypeOK
    BY <2>1, GraphAssumption DEF Init, InitGraph, TypeOK, IsTaskTable, IsSetTable
  <2> QED BY <2>1, <2>2, SchedulingAssumption
          DEF Init, InitGraph, IInv, DraftFollows, ArchiveInv, ClaimsTrue, OneWriterPerZone
<1>2. IInv /\ [Next]_vars => IInv'
  <2> SUFFICES ASSUME IInv, [Next]_vars PROVE IInv'
    OBVIOUS
  <2>1. ASSUME NEW p \in Policies, ActivatePolicy(p) PROVE IInv'
    BY <2>1, SchedulingAssumption
    DEF ActivatePolicy, graph, IInv, TypeOK, DraftFollows, ArchiveInv, ClaimsTrue, RowTrue,
        OneWriterPerZone, LiveRows
  <2>2. ASSUME NEW r \in Readings, ObserveResource(r) PROVE IInv'
    BY <2>2, SchedulingAssumption
    DEF ObserveResource, graph, IInv, TypeOK, DraftFollows, ArchiveInv, ClaimsTrue, RowTrue,
        OneWriterPerZone, LiveRows
  <2>3. CASE UNCHANGED vars
    BY <2>3
    DEF vars, graph, IInv, TypeOK, DraftFollows, ArchiveInv, Archivable, WillBeHeld, ClaimsTrue, RowTrue, OneWriterPerZone, LiveRows
  <2> QED BY <2>1, <2>2, <2>3, GraphStepInvariant, ClaimInvariant, ObserveInvariant,
             ReconcileInvariant DEF Next
<1> QED BY <1>1, <1>2, PTL DEF Spec

(* Every table stays well-formed under every operation of the store. *)
THEOREM TypeCorrect == Spec => []TypeOK
<1>1. IInv => TypeOK
  BY DEF IInv
<1> QED BY <1>1, Invariance, PTL

(***************************************************************************)
(* One writer per zone: superseding, editing or reporting on a claimed     *)
(* task never lets a second task's claim into an overlapping directory.    *)
(***************************************************************************)
THEOREM ZonesExclusive == Spec => []OneWriterPerZone
<1>1. IInv => OneWriterPerZone
  BY DEF IInv
<1> QED BY <1>1, Invariance, PTL

(***************************************************************************)
(* A task that counts as ended holds no slot and no zone: the claim it     *)
(* names was released by a reconciliation.                                 *)
(***************************************************************************)
THEOREM EndedTasksReleased == Spec => []EndedIsReleased
<1>1. IInv => EndedIsReleased
  BY DEF IInv, ClaimsTrue, RowTrue, EndedIsReleased
<1> QED BY <1>1, Invariance, PTL

(***************************************************************************)
(* Every version a sealed set pins can be read back: a commit archives     *)
(* what its batch produced, and nothing archived stands for another digest *)
(* of the same revision.                                                   *)
(***************************************************************************)
THEOREM PinsCanBeRead == Spec => []PinsAreArchived
<1>1. IInv => PinsAreArchived
  BY DEF IInv, ArchiveInv, EntryOf, PinsAreArchived
<1> QED BY <1>1, Invariance, PTL

-----------------------------------------------------------------------------
(* A claim adds one row, for the task it names; the other rows stay. *)
LEMMA ClaimLedger ==
    ASSUME IInv, NEW t \in TaskIds, Claim(t)
    PROVE  /\ Len(ledger) \in Nat /\ Len(ledger) + 1 \in 1 .. MaxClaims
           /\ DOMAIN ledger = 1 .. Len(ledger) /\ DOMAIN ledger' = 1 .. Len(ledger) + 1
           /\ \A i \in DOMAIN ledger : ledger'[i] = ledger[i]
           /\ ledger'[Len(ledger) + 1].task = t
           /\ ledger'[Len(ledger) + 1].zone = tasks[t].spec.zone
           /\ ledger'[Len(ledger) + 1].live
           /\ ledger'[Len(ledger) + 1].cost = CostOf[tasks[t].grant]
           /\ tasks[t].spec.zone \in Zones
<1>1. /\ ledger \in Seq(Row) /\ Len(ledger) \in Nat /\ DOMAIN ledger = 1 .. Len(ledger)
      /\ tasks[t] \in Task
  BY DEF Claim, IInv, TypeOK, IsTaskTable
<1>2. Len(ledger) < MaxClaims
  BY DEF Claim
<1> QED BY <1>1, <1>2, SchedulingAssumption DEF Claim, Task, TaskSpec

(* A reconciled ending is the state of the task, which still names its claim. *)
LEMMA ReconcileTask ==
    ASSUME IInv, NEW t \in TaskIds, NEW o \in Terminal, Reconcile(t, o)
    PROVE  tasks'[t].state = o /\ tasks'[t].claim = tasks[t].claim
<1>1. t \in DOMAIN tasks /\ tasks[t] \in Task
  BY DEF Reconcile, Reportable, IInv, TypeOK, IsTaskTable
<1>2. tasks'[t] = Reseal([tasks[t] EXCEPT !.recon = o, !.state = o])
  BY <1>1 DEF Reconcile, Terminal
<1> QED BY <1>1, <1>2 DEF Reseal, Task

(***************************************************************************)
(* A sealed set is never rewritten: only decisions and create_expansion    *)
(* write sets, and each leaves a sealed one as it was published.           *)
(***************************************************************************)
THEOREM SealsStand == Spec => SealIsFinal
<1> DEFINE Keeps == \A e \in DOMAIN sets :
                       e \in DOMAIN sets' /\ (sets[e].sealed => sets'[e] = sets[e])
<1>1. IInv /\ [Next]_vars => [Keeps]_vars
  <2> SUFFICES ASSUME IInv, Next PROVE KeepsSeals(sets, sets')
    BY DEF KeepsSeals
  <2>1. CASE GraphStep
    BY <2>1, GraphKeepsSeals DEF IInv, TypeOK, GraphInv, GraphTypeOK
  <2>2. CASE UNCHANGED sets
    BY <2>2 DEF KeepsSeals
  <2> QED BY <2>1, <2>2
          DEF Next, Claim, ObserveTask, Reconcile, ActivatePolicy, ObserveResource, graph
<1> QED BY <1>1, Invariance, PTL DEF Spec, SealIsFinal

(***************************************************************************)
(* Occupancy ends by a reconciliation of its own task and in no other way: *)
(* rows are never removed, and a released row never changes again.         *)
(***************************************************************************)
THEOREM ReleasesAreReconciled == Spec => ReleasedByReconciliation
<1> DEFINE Kept(i) == /\ i \in DOMAIN ledger'
                      /\ ledger'[i] # ledger[i] =>
                            /\ ledger[i].live /\ ~ledger'[i].live
                            /\ ledger'[i].outcome \in Terminal
                            /\ tasks'[ledger[i].task].state = ledger'[i].outcome
                            /\ tasks'[ledger[i].task].claim = i
<1>1. IInv /\ [Next]_vars => [\A i \in DOMAIN ledger : Kept(i)]_vars
  <2> SUFFICES ASSUME IInv, Next, NEW i \in DOMAIN ledger PROVE Kept(i)
    OBVIOUS
  <2>1. CASE UNCHANGED ledger
    BY <2>1
  <2>2. ASSUME NEW t \in TaskIds, Claim(t) PROVE Kept(i)
    <3>1. i \in DOMAIN ledger' /\ ledger'[i] = ledger[i]
      BY <2>2, ClaimLedger
    <3> QED BY <3>1
  <2>3. ASSUME NEW t \in TaskIds, NEW o \in Outcomes, Reconcile(t, o) PROVE Kept(i)
    <3>1. CASE ledger'[i] = ledger[i]
      BY <2>3, <3>1, ReconcileLedger
    <3>2. CASE ledger'[i] # ledger[i]
      <4>1. i = tasks[t].claim /\ o \in Terminal /\ ledger[i].live /\ ledger'[i].outcome = o
        BY <2>3, <3>2, ReconcileLedger
      <4>2. ledger[i].task = t
        <5>1. t \in DOMAIN tasks /\ tasks[t].claim # 0
          BY <2>3 DEF Reconcile, Reportable
        <5> QED BY <4>1, <5>1 DEF IInv, ClaimsTrue, RowTrue
      <4>3. tasks'[t].state = o /\ tasks'[t].claim = i
        BY <2>3, <4>1, ReconcileTask
      <4>4. i \in DOMAIN ledger' /\ ~ledger'[i].live
        BY <2>3, <4>1, ReconcileLedger
      <4> QED BY <4>1, <4>2, <4>3, <4>4
    <3> QED BY <3>1, <3>2
  <2> QED BY <2>1, <2>2, <2>3 DEF Next, ObserveTask, ActivatePolicy, ObserveResource
<1> QED BY <1>1, Invariance, PTL DEF Spec, ReleasedByReconciliation

(***************************************************************************)
(* A fan-in never runs over results it did not have: only claim adds a     *)
(* row, and it does so only past _join_blocked.                            *)
(***************************************************************************)
THEOREM JoinsSeePins == Spec => JoinSeesPinnedResults
<1> DEFINE Pinned(t) ==
              \A e \in tasks[t].spec.joins \intersect DOMAIN sets :
                  /\ sets[e].sealed
                  /\ \A m \in DOMAIN sets[e].members \ {t} : sets[e].members[m].req =>
                        \E j \in DOMAIN ledger :
                            /\ ledger[j].task = m /\ ~ledger[j].live
                            /\ ledger[j].rev = sets[e].members[m].rev
                            /\ ledger[j].ver = sets[e].members[m].ver
<1>1. IInv /\ [Next]_vars =>
        [\A i \in DOMAIN ledger' \ DOMAIN ledger : Pinned(ledger'[i].task)]_vars
  <2> SUFFICES ASSUME IInv, Next, NEW i \in DOMAIN ledger' \ DOMAIN ledger
               PROVE  Pinned(ledger'[i].task)
    OBVIOUS
  <2>1. CASE DOMAIN ledger' = DOMAIN ledger
    BY <2>1
  <2>2. ASSUME NEW t \in TaskIds, Claim(t) PROVE Pinned(ledger'[i].task)
    <3>1. ledger'[i].task = t
      BY <2>2, ClaimLedger
    <3>2. ~JoinBlocked(t)
      BY <2>2 DEF Claim
    <3>3. Pinned(t)
      BY <3>2 DEF JoinBlocked, MemberPending, LastSettled, Settled
    <3> QED BY <3>1, <3>3
  <2>3. ASSUME NEW t \in TaskIds, NEW o \in Outcomes, Reconcile(t, o)
        PROVE  DOMAIN ledger' = DOMAIN ledger
    BY <2>3, ReconcileLedger
  <2> QED BY <2>1, <2>2, <2>3 DEF Next, ObserveTask, ActivatePolicy, ObserveResource
<1> QED BY <1>1, Invariance, PTL DEF Spec, JoinSeesPinnedResults

(***************************************************************************)
(* The ledger implements WriteZones: a claim is an acquisition, the        *)
(* reconciliation that ends it a release, everything else a stutter.       *)
(***************************************************************************)
THEOREM LedgerRefinement == Spec => ImplementsWriteZones
<1> DEFINE use(i) == [claim |-> i, task |-> ledger[i].task, zone |-> ledger[i].zone]
           Held == {use(i) : i \in LiveRows}
<1>1. Init => WZ!Init
  BY DEF Init, WZ!Init, LiveRows
<1>2. IInv /\ [Next]_vars => [WZ!Next]_Held
  <2> SUFFICES ASSUME IInv, [Next]_vars PROVE WZ!Next \/ Held' = Held
    OBVIOUS
  <2>1. CASE UNCHANGED ledger
    BY <2>1 DEF LiveRows
  <2>2. ASSUME NEW t \in TaskIds, Claim(t) PROVE WZ!Next
    <3>1. PICK n : n = Len(ledger) + 1
      OBVIOUS
    <3>2. PICK h : h = [claim |-> n, task |-> t, zone |-> tasks[t].spec.zone]
      OBVIOUS
    <3>3. LiveRows' = LiveRows \union {n} /\ n \notin LiveRows
      BY <2>2, <3>1, ClaimLedger DEF LiveRows
    <3>4. use(n)' = h /\ \A i \in LiveRows : use(i)' = use(i)
      BY <2>2, <3>1, <3>2, ClaimLedger DEF LiveRows
    <3>5. Held' = Held \union {h}
      BY <3>3, <3>4
    <3>6. \A g \in Held : g.claim # h.claim
      BY <3>2, <3>3
    <3>7. \A i \in LiveRows : ledger[i].task # t => ~Overlap(ledger[i].zone, h.zone)
      BY <2>2, <3>2 DEF Claim, Waiting, ZoneBusy
    <3>8. \A g \in Held : g.task # h.task => ~WZ!Overlap(g.zone, h.zone)
      BY <3>2, <3>7 DEF Overlap, Inside, WZ!Overlap, WZ!Inside
    <3>9. h \in WZ!Holding
      BY <2>2, <3>1, <3>2, ClaimLedger DEF WZ!Holding
    <3>10. WZ!Acquire(h)
      BY <3>5, <3>6, <3>8 DEF WZ!Acquire
    <3> QED BY <3>9, <3>10 DEF WZ!Next
  <2>3. ASSUME NEW t \in TaskIds, NEW o \in Outcomes, Reconcile(t, o), ledger' # ledger
        PROVE  WZ!Next
    <3>1. PICK c : c = tasks[t].claim
      OBVIOUS
    <3>2. PICK h : h = use(c)
      OBVIOUS
    <3>3. c \in DOMAIN ledger /\ c \in 1 .. MaxClaims /\ c \in LiveRows
      BY <2>3, <3>1, ReconcileLedger, SchedulingAssumption DEF LiveRows, IInv, TypeOK
    <3>4. LiveRows' = LiveRows \ {c}
      BY <2>3, <3>1, <3>3, ReconcileLedger DEF LiveRows
    <3>5. \A i \in LiveRows' : use(i)' = use(i)
      BY <2>3, ReconcileLedger DEF LiveRows
    <3>6. \A i \in LiveRows : i # c => use(i) # h
      BY <3>2
    <3>7. Held' = {use(i) : i \in LiveRows \ {c}}
      BY <3>4, <3>5
    <3>8. Held' = Held \ {h} /\ h \in Held
      BY <3>2, <3>3, <3>6, <3>7
    <3>9. h \in WZ!Holding
      <4>1. ledger[c] \in Row
        BY <3>3 DEF IInv, TypeOK
      <4> QED BY <3>2, <3>3, <4>1 DEF WZ!Holding, Row
    <3>10. WZ!Release(h)
      BY <3>8 DEF WZ!Release
    <3> QED BY <3>9, <3>10 DEF WZ!Next
  <2> QED BY <2>1, <2>2, <2>3
          DEF Next, ObserveTask, ActivatePolicy, ObserveResource, vars
<1> QED BY <1>1, <1>2, Invariance, PTL DEF Spec, ImplementsWriteZones, WZ!Spec

-----------------------------------------------------------------------------
(***************************************************************************)
(* Backpressure.  Ceilings differ from grant to grant, so what is kept is  *)
(* a bound per live claim: it and the live claims handed out before it fit *)
(* under the ceiling of its own grant.  Releasing an older claim only      *)
(* loosens the bound, and a task never changes its grant.                  *)
(***************************************************************************)
CapOfRow(k) == CapOf[tasks[ledger[k].task].grant]
LiveUpTo(k) == {i \in LiveRows : i <= k}
Costs == [i \in DOMAIN ledger |-> ledger[i].cost]

WithinCap(k) ==
    CapOfRow(k) # None =>
        /\ Cardinality(LiveUpTo(k)) <= CapOfRow(k)
        /\ SumFunctionOnSet(Costs, LiveUpTo(k)) <= CapOfRow(k)

CeilingInv ==
    /\ \A k \in DOMAIN ledger : ledger[k].task \in DOMAIN tasks
    /\ \A k \in LiveRows : WithinCap(k)

LEMMA LedgerFacts ==
    IInv => /\ Len(ledger) \in Nat /\ DOMAIN ledger = 1 .. Len(ledger)
            /\ \A i \in DOMAIN ledger : ledger[i].cost \in Nat
            /\ LiveRows \in SUBSET (1 .. Len(ledger)) /\ IsFiniteSet(LiveRows)
            /\ \A k \in DOMAIN ledger : LiveUpTo(k) \in SUBSET LiveRows /\ IsFiniteSet(LiveUpTo(k))
            /\ \A t \in DOMAIN tasks : CapOf[tasks[t].grant] \in Nat \union {None}
<1> SUFFICES ASSUME IInv
             PROVE  /\ Len(ledger) \in Nat /\ DOMAIN ledger = 1 .. Len(ledger)
                    /\ \A i \in DOMAIN ledger : ledger[i].cost \in Nat
                    /\ LiveRows \in SUBSET (1 .. Len(ledger)) /\ IsFiniteSet(LiveRows)
                    /\ \A k \in DOMAIN ledger :
                          LiveUpTo(k) \in SUBSET LiveRows /\ IsFiniteSet(LiveUpTo(k))
                    /\ \A t \in DOMAIN tasks : CapOf[tasks[t].grant] \in Nat \union {None}
  OBVIOUS
<1>1. /\ ledger \in Seq(Row) /\ Len(ledger) \in Nat /\ DOMAIN ledger = 1 .. Len(ledger)
      /\ \A i \in DOMAIN ledger : ledger[i].cost \in Nat
  <2>1. ledger \in Seq(Row) /\ Len(ledger) \in Nat /\ DOMAIN ledger = 1 .. Len(ledger)
    BY DEF IInv, TypeOK
  <2>2. \A i \in DOMAIN ledger : ledger[i] \in Row
    BY <2>1
  <2> QED BY <2>1, <2>2 DEF Row
<1>2. LiveRows \in SUBSET (1 .. Len(ledger)) /\ \A k \in DOMAIN ledger : LiveUpTo(k) \in SUBSET LiveRows
  BY <1>1 DEF LiveRows, LiveUpTo
<1>3. IsFiniteSet(1 .. Len(ledger))
  BY <1>1, FS_Interval
<1>4. IsFiniteSet(LiveRows)
  BY <1>2, <1>3, FS_Subset
<1>5. \A k \in DOMAIN ledger : IsFiniteSet(LiveUpTo(k))
  BY <1>2, <1>4, FS_Subset
<1>6. \A t \in DOMAIN tasks : CapOf[tasks[t].grant] \in Nat \union {None}
  BY SchedulingAssumption DEF IInv, TypeOK, IsTaskTable, Task
<1> QED BY <1>1, <1>2, <1>4, <1>5, <1>6

(* A step that adds no row, and changes neither the grant of a task nor the cost of a row. *)
LEMMA CeilingKept ==
    ASSUME IInv, IInv', CeilingInv,
           \A u \in DOMAIN tasks : u \in DOMAIN tasks' /\ tasks'[u].grant = tasks[u].grant,
           DOMAIN ledger' = DOMAIN ledger,
           \A i \in DOMAIN ledger : /\ ledger'[i].task = ledger[i].task
                                    /\ ledger'[i].cost = ledger[i].cost
                                    /\ ledger'[i].live => ledger[i].live
    PROVE  CeilingInv'
<1>1. \A k \in DOMAIN ledger' : ledger'[k].task \in DOMAIN tasks'
  BY DEF CeilingInv
<1>2. ASSUME NEW k \in LiveRows', CapOfRow(k)' # None
      PROVE  /\ Cardinality(LiveUpTo(k)') <= CapOfRow(k)'
             /\ SumFunctionOnSet(Costs', LiveUpTo(k)') <= CapOfRow(k)'
  <2>1. k \in LiveRows /\ k \in DOMAIN ledger /\ CapOfRow(k)' = CapOfRow(k)
    BY DEF LiveRows, CeilingInv, CapOfRow
  <2>2. /\ LiveUpTo(k)' \in SUBSET LiveUpTo(k) /\ IsFiniteSet(LiveUpTo(k))
        /\ LiveUpTo(k) \subseteq DOMAIN ledger
    BY <2>1, LedgerFacts DEF LiveUpTo, LiveRows
  <2>3. /\ IsFiniteSet(LiveUpTo(k)') /\ Cardinality(LiveUpTo(k)') <= Cardinality(LiveUpTo(k))
        /\ Cardinality(LiveUpTo(k)') \in Nat /\ Cardinality(LiveUpTo(k)) \in Nat
    BY <2>2, FS_Subset, FS_CardinalityType
  <2>4. \A i \in LiveUpTo(k) : Costs[i] \in Nat /\ Costs'[i] = Costs[i]
    BY <2>2, LedgerFacts DEF Costs
  <2>5. SumFunctionOnSet(Costs', LiveUpTo(k)') = SumFunctionOnSet(Costs, LiveUpTo(k)')
    <3>1. \A i \in LiveUpTo(k)' : Costs'[i] = Costs[i]
      BY <2>2, <2>4
    <3> QED BY <2>3, <3>1, SumSame
  <2>6. /\ SumFunctionOnSet(Costs, LiveUpTo(k)') <= SumFunctionOnSet(Costs, LiveUpTo(k))
        /\ SumFunctionOnSet(Costs, LiveUpTo(k)') \in Nat
        /\ SumFunctionOnSet(Costs, LiveUpTo(k)) \in Nat
    <3>1. \A i \in LiveUpTo(k)' : Costs[i] \in Nat
      BY <2>2, <2>4
    <3> QED BY <2>2, <2>3, <2>4, <3>1, SumSubset, SumNat
  <2>7. CapOfRow(k) \in Nat
    BY <1>2, <2>1, LedgerFacts DEF CapOfRow, CeilingInv
  <2>8. Cardinality(LiveUpTo(k)) <= CapOfRow(k) /\ SumFunctionOnSet(Costs, LiveUpTo(k)) <= CapOfRow(k)
    BY <1>2, <2>1 DEF CeilingInv, WithinCap
  <2> QED BY <2>1, <2>3, <2>5, <2>6, <2>7, <2>8
<1> QED BY <1>1, <1>2 DEF CeilingInv, WithinCap

(* claim: _admit compared the occupancy with the ceiling of the grant. *)
LEMMA CeilingClaim ==
    ASSUME IInv, IInv', CeilingInv, NEW t \in TaskIds, Claim(t)
    PROVE  CeilingInv'
<1> DEFINE g == tasks[t].grant
<1>0. PICK n : n = Len(ledger) + 1
  OBVIOUS
<1>1. /\ t \in DOMAIN tasks /\ tasks[t] \in Task /\ Admitted(g)
      /\ DOMAIN tasks' = DOMAIN tasks
      /\ \A u \in DOMAIN tasks : tasks'[u].grant = tasks[u].grant
  <2>1. t \in DOMAIN tasks /\ \A u \in DOMAIN tasks : tasks[u] \in Task
    BY DEF Claim, IInv, TypeOK, IsTaskTable
  <2>2. Reseal([tasks[t] EXCEPT !.state = "claimed", !.claim = Len(ledger) + 1]).grant = g
    BY <2>1 DEF Reseal, Task
  <2>3. tasks' = [tasks EXCEPT ![t] =
                     Reseal([tasks[t] EXCEPT !.state = "claimed", !.claim = Len(ledger) + 1])]
    BY DEF Claim
  <2>4. Admitted(g)
    BY DEF Claim
  <2> QED BY <2>1, <2>2, <2>3, <2>4
<1>2. /\ Len(ledger) \in Nat /\ DOMAIN ledger = 1 .. Len(ledger) /\ DOMAIN ledger' = 1 .. n
      /\ \A i \in DOMAIN ledger : ledger'[i] = ledger[i]
      /\ ledger'[n].task = t /\ ledger'[n].live /\ ledger'[n].cost = CostOf[g]
  BY <1>0, ClaimLedger
<1>3. LiveRows' = LiveRows \union {n} /\ n \notin LiveRows
  BY <1>0, <1>2 DEF LiveRows
<1>4. \A k \in DOMAIN ledger' : ledger'[k].task \in DOMAIN tasks'
  BY <1>0, <1>1, <1>2 DEF CeilingInv
<1>5. ASSUME NEW k \in LiveRows PROVE WithinCap(k)'
  <2>1. k \in DOMAIN ledger /\ CapOfRow(k)' = CapOfRow(k) /\ LiveUpTo(k) \subseteq DOMAIN ledger
    BY <1>1, <1>2 DEF LiveRows, LiveUpTo, CapOfRow, CeilingInv
  <2>2. LiveUpTo(k)' = LiveUpTo(k)
    BY <1>0, <1>2, <1>3, <2>1 DEF LiveUpTo, LiveRows
  <2>3. \A i \in LiveUpTo(k) : Costs'[i] = Costs[i]
    BY <1>0, <1>2, <2>1 DEF Costs
  <2>4. IsFiniteSet(LiveUpTo(k))
    BY <2>1, LedgerFacts
  <2>5. SumFunctionOnSet(Costs', LiveUpTo(k)) = SumFunctionOnSet(Costs, LiveUpTo(k))
    BY <2>3, <2>4, SumSame
  <2>6. WithinCap(k)
    BY DEF CeilingInv
  <2> QED BY <2>1, <2>2, <2>5, <2>6 DEF WithinCap
<1>6. WithinCap(n)'
  <2> SUFFICES ASSUME CapOf[g] # None
               PROVE  /\ Cardinality(LiveUpTo(n)') <= CapOf[g]
                      /\ SumFunctionOnSet(Costs', LiveUpTo(n)') <= CapOf[g]
    BY <1>1, <1>2 DEF WithinCap, CapOfRow
  <2>1. CapOf[g] \in Nat /\ CostOf[g] \in Nat /\ policy # None /\ policy.max \in Nat
    <3>1. g \in GrantIds
      BY <1>1 DEF Task
    <3>2. policy # None /\ policy \in Policy
      BY <1>1 DEF Admitted, IInv, TypeOK
    <3> QED BY <3>1, <3>2, SchedulingAssumption DEF Policy
  <2>2. Ceiling(g) \in Nat /\ Ceiling(g) <= CapOf[g]
    <3>1. {policy.max, CapOf[g]} \in SUBSET Nat
      BY <2>1
    <3>2. /\ Min({policy.max, CapOf[g]}) \in {policy.max, CapOf[g]}
          /\ Min({policy.max, CapOf[g]}) <= CapOf[g]
      BY <3>1, MinOfNat
    <3> QED BY <2>1, <3>2 DEF Ceiling
  <2>3. LiveUpTo(n)' = LiveRows \union {n}
    BY <1>0, <1>2, <1>3, LedgerFacts DEF LiveUpTo
  <2>4. IsFiniteSet(LiveRows)
    BY LedgerFacts
  <2>5. Cardinality(LiveRows \union {n}) = Cardinality(LiveRows) + 1 /\ Cardinality(LiveRows) \in Nat
    BY <1>3, <2>4, FS_AddElement, FS_CardinalityType
  <2>6. LiveRows \subseteq DOMAIN ledger
    BY DEF LiveRows
  <2>7. /\ \A i \in LiveRows : Costs'[i] = Costs[i] /\ Costs[i] \in Nat /\ Costs'[i] \in Int
        /\ Costs'[n] = CostOf[g] /\ Costs'[n] \in Int
    BY <1>0, <1>2, <2>1, <2>6, LedgerFacts DEF Costs
  <2>8. /\ SumFunctionOnSet(Costs', LiveRows) = SumFunctionOnSet(Costs, LiveRows)
        /\ SumFunctionOnSet(Costs, LiveRows) \in Nat
    BY <2>4, <2>7, SumSame, SumNat
  <2>9. SumFunctionOnSet(Costs', LiveRows \union {n}) = CostOf[g] + SumFunctionOnSet(Costs', LiveRows)
    BY <1>3, <2>4, <2>7, SumAdd
  <2>10. ConsumedCost = SumFunctionOnSet(Costs, LiveRows)
    BY DEF ConsumedCost, Costs
  <2>11. Cardinality(LiveRows) < Ceiling(g) /\ ConsumedCost + CostOf[g] <= Ceiling(g)
    BY <1>1 DEF Admitted
  <2> HIDE DEF g
  <2>12. Cardinality(LiveRows \union {n}) <= CapOf[g]
    BY <2>1, <2>2, <2>5, <2>11
  <2>13. SumFunctionOnSet(Costs', LiveRows \union {n}) <= CapOf[g]
    BY <2>1, <2>2, <2>8, <2>9, <2>10, <2>11
  <2> QED BY <2>3, <2>12, <2>13
<1> QED BY <1>3, <1>4, <1>5, <1>6 DEF CeilingInv

(***************************************************************************)
(* The executions running at once, and what they cost together, stay       *)
(* within the ceiling of the grant that was handed work last, whatever is  *)
(* superseded, corrected or reconciled while they run.                     *)
(***************************************************************************)
THEOREM BackpressureHolds == Spec => []OccupancyWithinCeiling
<1>1. Init => CeilingInv
  BY DEF Init, CeilingInv, LiveRows
<1>2. IInv /\ IInv' /\ CeilingInv /\ [Next]_vars => CeilingInv'
  <2> SUFFICES ASSUME IInv, IInv', CeilingInv, [Next]_vars PROVE CeilingInv'
    OBVIOUS
  <2> DEFINE Kept == \A u \in DOMAIN tasks : u \in DOMAIN tasks' /\ tasks'[u].grant = tasks[u].grant
  <2>1. ASSUME Kept, UNCHANGED ledger PROVE CeilingInv'
    BY <2>1, CeilingKept
  <2>2. CASE GraphStep /\ UNCHANGED <<ledger, policy, reading>>
    <3>1. GraphInv
      BY DEF IInv, TypeOK, GraphInv, GraphTypeOK
    <3>2. Kept
      BY <2>2, <3>1, GraphRows DEF Continues, SameWork
    <3> QED BY <2>1, <2>2, <3>2
  <2>3. ASSUME NEW t \in TaskIds, NEW o \in Outcomes, ObserveTask(t, o) PROVE CeilingInv'
    <3> DEFINE st == IF o \in Terminal /\ ~Reconciled(t) THEN "claimed" ELSE tasks[t].state
    <3>1. t \in DOMAIN tasks /\ tasks[t] \in Task
      BY <2>3 DEF ObserveTask, Reportable, IInv, TypeOK, IsTaskTable
    <3>2. Reseal([tasks[t] EXCEPT !.state = st]).grant = tasks[t].grant
      BY <3>1 DEF Reseal, Task
    <3>3. tasks' = [tasks EXCEPT ![t] = Reseal([tasks[t] EXCEPT !.state = st])] /\ UNCHANGED ledger
      BY <2>3 DEF ObserveTask
    <3>4. Kept
      BY <3>1, <3>2, <3>3
    <3> QED BY <2>1, <3>3, <3>4
  <2>4. ASSUME NEW t \in TaskIds, NEW o \in Outcomes, Reconcile(t, o) PROVE CeilingInv'
    <3> DEFINE st == IF o = "started" THEN tasks[t].state ELSE o
    <3>1. t \in DOMAIN tasks /\ tasks[t] \in Task
      BY <2>4 DEF Reconcile, Reportable, IInv, TypeOK, IsTaskTable
    <3>2. Reseal([tasks[t] EXCEPT !.recon = o, !.state = st]).grant = tasks[t].grant
      BY <3>1 DEF Reseal, Task
    <3>3. tasks' = [tasks EXCEPT ![t] = Reseal([tasks[t] EXCEPT !.recon = o, !.state = st])]
      BY <2>4 DEF Reconcile
    <3>4. Kept
      BY <3>1, <3>2, <3>3
    <3>5. /\ DOMAIN ledger' = DOMAIN ledger
          /\ \A i \in DOMAIN ledger : /\ ledger'[i].task = ledger[i].task
                                      /\ ledger'[i].cost = ledger[i].cost
                                      /\ ledger'[i].live => ledger[i].live
      BY <2>4, ReconcileLedger
    <3> QED BY <3>4, <3>5, CeilingKept
  <2>5. CASE UNCHANGED <<tasks, ledger>>
    BY <2>1, <2>5
  <2> QED BY <2>2, <2>3, <2>4, <2>5, CeilingClaim
          DEF Next, ActivatePolicy, ObserveResource, vars, graph
<1>3. IInv /\ CeilingInv => OccupancyWithinCeiling
  <2> SUFFICES ASSUME IInv, CeilingInv, LiveRows # {},
                      CapOf[tasks[ledger[Max(LiveRows)].task].grant] # None
               PROVE  /\ Cardinality(LiveRows) <= CapOf[tasks[ledger[Max(LiveRows)].task].grant]
                      /\ ConsumedCost <= CapOf[tasks[ledger[Max(LiveRows)].task].grant]
    BY DEF OccupancyWithinCeiling
  <2>1. Max(LiveRows) \in LiveRows /\ \A i \in LiveRows : i <= Max(LiveRows)
    BY LedgerFacts, MaxOfBounded
  <2>2. LiveUpTo(Max(LiveRows)) = LiveRows
    BY <2>1 DEF LiveUpTo
  <2>3. WithinCap(Max(LiveRows))
    BY <2>1 DEF CeilingInv
  <2> QED BY <2>2, <2>3 DEF WithinCap, CapOfRow, ConsumedCost, Costs
<1> QED BY <1>1, <1>2, <1>3, Invariance, PTL DEF Spec
=============================================================================
