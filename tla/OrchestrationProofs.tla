------------------------- MODULE OrchestrationProofs -------------------------
(***************************************************************************)
(* The components of a Run, each for any candidates, callers, plans,       *)
(* executions, generations and requests: the gate opens by a review that   *)
(* saw the checks, one known process runs at a time and only an open gate  *)
(* completes, an approved plan was its commander's and keeps only what it  *)
(* may, a plan in the Run was paid for, a configuration in use was         *)
(* reviewed, the facts of a profile were earned with the secret that is    *)
(* sealed now, and the provider receives nothing unrecorded or unasked.    *)
(***************************************************************************)
EXTENDS RunPlanning, SerialCoordinator, PlanningExecutions, ProjectRegistry, ProjectQualification,
        GoRelay, SumTheorems, TLAPS

-----------------------------------------------------------------------------
(***************************************************************************)
(* The gate of candidates.  Evidence is only appended, and a review that   *)
(* passed saw checks that were there before it.                            *)
(***************************************************************************)
SoundReview(r) ==
    /\ r.kind = "review" /\ r.check = "review"
    /\ r.status = "passed" =>
          /\ r.saw \subseteq DOMAIN evidence
          /\ r.candidate \in DOMAIN candidates =>
                /\ r.by \in candidates[r.candidate].reviewers
                /\ r.key # candidates[r.candidate].writer

GateInv ==
    /\ \E S : candidates \in Seq(S)
    /\ \E S : evidence \in Seq(S)
    /\ \A e \in DOMAIN evidence :
          evidence[e].kind = "review" /\ evidence[e].status = "passed" => evidence[e].saw \subseteq 1 .. e - 1
    /\ reviewing # None => SoundReview(reviewing) /\ reviewing.candidate \in DOMAIN candidates

(* What any step does to the store: a candidate is added, or evidence is; what is altered stays so or is lost. *)
GateMoves ==
    /\ altered \subseteq altered' \union lost'
    /\ \/ /\ evidence' = evidence
          /\ candidates' = candidates \/ \E x : candidates' = Append(candidates, x)
          /\ \/ reviewing' \in {reviewing, None}
             \/ SoundReview(reviewing') /\ reviewing'.candidate \in DOMAIN candidates
       \/ /\ candidates' = candidates /\ reviewing' \in {reviewing, None}
          /\ \E r : /\ r.kind = "check" \/ SoundReview(r)
                    /\ evidence' = Append(evidence, r)

(* The calls the store takes, for any arguments: other callers than the coordinator use it too. *)
AnyGateStep ==
    \/ \E content, input, writer, reviewers : Freeze(content, input, writer, reviewers)
    \/ \E c, reviewers, key : RebindReviewers(c, reviewers, key)
    \/ \E c, check, key, log : \E passed \in BOOLEAN : RecordCheck(c, check, passed, key, log)
    \/ \E c, reviewer, shown, verdict, key, log : ReadForReview(c, reviewer, shown, verdict, key, log)
    \/ SaveReview
    \/ \E object : LoseArtifact(object) \/ AlterArtifact(object) \/ WriteObject(object)

GateSpec == GateInit /\ [][AnyGateStep]_gateVars

LEMMA IsSequence ==
    ASSUME NEW s, \E S : s \in Seq(S)
    PROVE  Len(s) \in Nat /\ DOMAIN s = 1 .. Len(s)
  OBVIOUS

LEMMA GateKeeps == ASSUME GateInv, GateMoves PROVE GateInv'
<1>0. /\ Len(candidates) \in Nat /\ DOMAIN candidates = 1 .. Len(candidates)
      /\ Len(evidence) \in Nat /\ DOMAIN evidence = 1 .. Len(evidence)
  BY IsSequence DEF GateInv
<1>1. CASE /\ evidence' = evidence /\ candidates' = candidates
           /\ \/ reviewing' \in {reviewing, None}
              \/ SoundReview(reviewing') /\ reviewing'.candidate \in DOMAIN candidates
  BY <1>1 DEF GateInv, SoundReview
<1>2. CASE /\ evidence' = evidence /\ \E x : candidates' = Append(candidates, x)
           /\ \/ reviewing' \in {reviewing, None}
              \/ SoundReview(reviewing') /\ reviewing'.candidate \in DOMAIN candidates
  <2>1. PICK x : candidates' = Append(candidates, x)
    BY <1>2
  <2>2. /\ \E S : candidates' \in Seq(S)
        /\ DOMAIN candidates \subseteq DOMAIN candidates'
        /\ \A c \in DOMAIN candidates : candidates'[c] = candidates[c]
    <3>1. \E S : candidates \in Seq(S)
      BY DEF GateInv
    <3>2. /\ \E S : Append(candidates, x) \in Seq(S)
          /\ DOMAIN Append(candidates, x) = 1 .. Len(candidates) + 1
          /\ \A c \in DOMAIN candidates : Append(candidates, x)[c] = candidates[c]
      BY <3>1, Appended
    <3> QED BY ONLY <1>0, <2>1, <3>2
  <2>3. reviewing' # None => SoundReview(reviewing') /\ reviewing'.candidate \in DOMAIN candidates
    BY <1>2 DEF GateInv
  <2>4. reviewing' # None => SoundReview(reviewing)' /\ reviewing'.candidate \in DOMAIN candidates'
    BY <1>2, <2>2, <2>3 DEF SoundReview
  <2> QED BY <1>2, <2>2, <2>4 DEF GateInv
<1>3. CASE /\ candidates' = candidates /\ reviewing' \in {reviewing, None}
           /\ \E r : (r.kind = "check" \/ SoundReview(r)) /\ evidence' = Append(evidence, r)
  <2>1. PICK r : (r.kind = "check" \/ SoundReview(r)) /\ evidence' = Append(evidence, r)
    BY <1>3
  <2>2. /\ \E S : evidence' \in Seq(S)
        /\ DOMAIN evidence' = 1 .. Len(evidence) + 1
        /\ evidence'[Len(evidence) + 1] = r
        /\ \A e \in DOMAIN evidence : evidence'[e] = evidence[e]
    <3>1. \E S : evidence \in Seq(S)
      BY DEF GateInv
    <3>2. \E S : Append(evidence, r) \in Seq(S)
      BY <3>1, Appended
    <3>3. /\ DOMAIN Append(evidence, r) = 1 .. Len(evidence) + 1
          /\ Append(evidence, r)[Len(evidence) + 1] = r
          /\ \A e \in DOMAIN evidence : Append(evidence, r)[e] = evidence[e]
      BY <3>1, Appended
    <3> QED BY ONLY <2>1, <3>2, <3>3
  <2>3. ASSUME NEW e \in DOMAIN evidence', evidence'[e].kind = "review", evidence'[e].status = "passed"
        PROVE  evidence'[e].saw \subseteq 1 .. e - 1
    <3>1. CASE e \in DOMAIN evidence
      BY <2>2, <2>3, <3>1 DEF GateInv
    <3>2. CASE e = Len(evidence) + 1
      BY <1>0, <2>1, <2>2, <2>3, <3>2 DEF SoundReview
    <3> QED BY <1>0, <2>2, <3>1, <3>2
  <2>4. reviewing' # None => SoundReview(reviewing)' /\ reviewing'.candidate \in DOMAIN candidates'
    BY <1>0, <1>3, <2>2 DEF SoundReview, GateInv
  <2> QED BY <1>3, <2>2, <2>3, <2>4 DEF GateInv
<1> QED BY <1>1, <1>2, <1>3 DEF GateMoves

LEMMA LastIn ==
    ASSUME NEW n \in Nat, NEW S \in SUBSET (1 .. n), S # {}
    PROVE  LastOf(S) \in S /\ \A d \in S : d <= LastOf(S)
<1>1. \E e \in S : \A d \in S : d <= e
  BY MaxOfBounded
<1> QED BY <1>1 DEF LastOf

LEMMA LastIs ==
    ASSUME NEW n \in Nat, NEW S \in SUBSET (1 .. n), n \in S
    PROVE  LastOf(S) = n
<1>1. LastOf(S) \in S /\ \A d \in S : d <= LastOf(S)
  BY LastIn
<1>2. n <= LastOf(S) /\ LastOf(S) \in 1 .. n
  BY <1>1
<1> QED BY <1>2


(***************************************************************************)
(* A gate that passes after a step was decided before it, and relied on    *)
(* the same objects, when the records it looks at are the same ones.       *)
(***************************************************************************)
Same(c, kind, check) ==
    /\ Positions(evidence', c, kind, check) = Positions(evidence, c, kind, check)
    /\ \A e \in Positions(evidence, c, kind, check) : evidence'[e] = evidence[e]

LEMMA GateStands ==
    ASSUME NEW c, NEW i, GateInv, candidates' = candidates, altered \subseteq altered' \union lost',
           ~Gate(c, i), Gate(c, i)', Same(c, "review", "review"), \A k \in CheckIds : Same(c, "check", k)
    PROVE  ObjectRestored(c, i)
<1> DEFINE reviews == Positions(evidence, c, "review", "review")
           last == LastOf(reviews)
<1>1. /\ c = Len(candidates) /\ candidates[c].input = i
      /\ \A k \in CheckIds : Passed(evidence', c, k)
      /\ reviews # {} /\ evidence'[last].status = "passed"
      /\ evidence'[last].saw = {Latest(evidence', c, k) : k \in CheckIds}
  BY DEF Gate, GateOf, Decided, Reviews, Newest, Same
<1>2. Len(evidence) \in Nat /\ DOMAIN evidence = 1 .. Len(evidence)
  BY IsSequence DEF GateInv
<1>3. last \in reviews
  BY <1>1, <1>2, LastIn DEF Positions
<1>4. evidence'[last] = evidence[last]
  BY <1>3 DEF Same
<1>5. ASSUME NEW k \in CheckIds
      PROVE  /\ Passed(evidence, c, k) /\ Latest(evidence', c, k) = Latest(evidence, c, k)
             /\ evidence'[Latest(evidence, c, k)] = evidence[Latest(evidence, c, k)]
  <2>1. /\ Positions(evidence, c, "check", k) # {}
        /\ evidence'[LastOf(Positions(evidence, c, "check", k))].status = "passed"
        /\ Latest(evidence', c, k) = Latest(evidence, c, k)
    BY <1>1 DEF Passed, Present, Latest, Same
  <2>2. LastOf(Positions(evidence, c, "check", k)) \in Positions(evidence, c, "check", k)
    BY <1>2, <2>1, LastIn DEF Positions
  <2>3. evidence'[LastOf(Positions(evidence, c, "check", k))] = evidence[LastOf(Positions(evidence, c, "check", k))]
    BY <2>2 DEF Same
  <2> QED BY <2>1, <2>3 DEF Passed, Present, Latest
<1>6. {Latest(evidence', c, k) : k \in CheckIds} = {Latest(evidence, c, k) : k \in CheckIds}
  BY <1>5
<1>7. Decided(evidence, c, i)
  BY <1>1, <1>4, <1>5, <1>6 DEF Decided, Reviews, Newest
<1>8. Relied(evidence, c) \intersect Gone' = {}
  <2>1. (Relied(evidence, c) \intersect Gone)' = {}
    BY DEF Gate, GateOf
  <2>2. Positions(evidence', c, "review", "review") = reviews
    BY DEF Same
  <2>3. {evidence'[Latest(evidence', c, k)].log : k \in CheckIds} = {evidence[Latest(evidence, c, k)].log : k \in CheckIds}
    BY <1>5
  <2>4. Relied(evidence, c)' = Relied(evidence, c)
    BY <1>4, <2>2, <2>3 DEF Relied, Reviews
  <2> QED BY <2>1, <2>4
<1>9. PICK x \in Relied(evidence, c) : x \in Gone
  BY <1>7 DEF Gate, GateOf
<1>10. x \in lost /\ x \notin lost'
  BY <1>8, <1>9 DEF Gone
<1> QED BY <1>7, <1>10 DEF ObjectRestored

OpensByReview ==
    \A c \in DOMAIN candidates, i \in {candidates[j].input : j \in DOMAIN candidates} :
         ~Gate(c, i) /\ Gate(c, i)' => ReviewSaved(c) \/ ObjectRestored(c, i)

LEMMA GateOpens == ASSUME GateInv, GateMoves PROVE OpensByReview
<1> SUFFICES ASSUME NEW c \in DOMAIN candidates, NEW i, ~Gate(c, i), Gate(c, i)'
             PROVE  ReviewSaved(c) \/ ObjectRestored(c, i)
  BY DEF OpensByReview
<1>0. /\ Len(candidates) \in Nat /\ DOMAIN candidates = 1 .. Len(candidates)
      /\ Len(evidence) \in Nat /\ DOMAIN evidence = 1 .. Len(evidence)
  BY IsSequence DEF GateInv
<1>1. c = Len(candidates')
  BY DEF Gate, GateOf, Decided, Newest
<1>2. candidates' = candidates /\ altered \subseteq altered' \union lost'
  <2>1. CASE \E x : candidates' = Append(candidates, x)
    <3>1. PICK x : candidates' = Append(candidates, x)
      BY <2>1
    <3>2. \E S : candidates \in Seq(S)
      BY DEF GateInv
    <3>3. Len(Append(candidates, x)) = Len(candidates) + 1
      BY <3>2, Appended
    <3>4. c = Len(candidates) + 1
      BY <1>1, <3>1, <3>3
    <3> QED BY <1>0, <3>4
  <2> QED BY <2>1 DEF GateMoves
<1>3. CASE evidence' = evidence
  BY <1>2, <1>3, GateStands DEF Same
<1>4. CASE \E r : (r.kind = "check" \/ SoundReview(r)) /\ evidence' = Append(evidence, r)
  <2> DEFINE n == Len(evidence) + 1
  <2>1. PICK r : (r.kind = "check" \/ SoundReview(r)) /\ evidence' = Append(evidence, r)
    BY <1>4
  <2>2. /\ Len(evidence') = n /\ DOMAIN evidence' = 1 .. n /\ evidence'[n] = r
        /\ \A e \in DOMAIN evidence : evidence'[e] = evidence[e]
    <3>1. \E S : evidence \in Seq(S)
      BY DEF GateInv
    <3>2. /\ Len(Append(evidence, r)) = n
          /\ DOMAIN Append(evidence, r) = 1 .. n
          /\ Append(evidence, r)[n] = r
          /\ \A e \in DOMAIN evidence : Append(evidence, r)[e] = evidence[e]
      BY <3>1, Appended
    <3> QED BY ONLY <2>1, <3>2
  <2>3. n \in Nat /\ 1 .. n = DOMAIN evidence \union {n} /\ n \notin DOMAIN evidence
    BY <1>0
  <2> DEFINE reviews == Positions(evidence', c, "review", "review")
             last == LastOf(reviews)
  <2> HIDE DEF n
  <2>4. /\ reviews # {} /\ evidence'[last].status = "passed"
        /\ evidence'[last].saw = {Latest(evidence', c, k) : k \in CheckIds}
    BY <1>2 DEF Gate, GateOf, Decided, Reviews
  <2>5. last \in reviews /\ last \in 1 .. n /\ evidence'[last].kind = "review"
    <3>1. reviews \in SUBSET (1 .. n)
      BY <2>2 DEF Positions
    <3>2. last \in reviews
      BY <2>3, <2>4, <3>1, LastIn
    <3> QED BY <3>1, <3>2 DEF Positions
  <2>6. CASE ~(r.kind = "check" /\ r.candidate = c /\ r.check \in CheckIds)
             /\ ~(r.kind = "review" /\ r.candidate = c)
    <3>1. Same(c, "review", "review")
      BY <2>2, <2>3, <2>6 DEF Same, Positions
    <3>2. \A k \in CheckIds : Same(c, "check", k)
      BY <2>2, <2>3, <2>6 DEF Same, Positions
    <3> QED BY <1>2, <3>1, <3>2, GateStands
  <2>7. CASE r.kind = "check" /\ r.candidate = c /\ r.check \in CheckIds
    <3>1. n \in Positions(evidence', c, "check", r.check) /\ Positions(evidence', c, "check", r.check) \in SUBSET (1 .. n)
      BY <2>2, <2>3, <2>7 DEF Positions
    <3>2. Latest(evidence', c, r.check) = n
      BY <2>3, <3>1, LastIs DEF Latest
    <3>3. n \in evidence'[last].saw
      BY <2>4, <2>7, <3>2
    <3>4. last \in DOMAIN evidence /\ evidence'[last] = evidence[last]
      BY <2>2, <2>3, <2>5, <2>7
    <3>5. evidence[last].saw \subseteq 1 .. last - 1
      BY <2>4, <2>5, <3>4 DEF GateInv
    <3> QED BY <1>0, <2>3, <3>3, <3>4, <3>5
  <2>8. CASE r.kind = "review" /\ r.candidate = c
    <3>1. SoundReview(r)
      BY <2>1, <2>8
    <3>2. n \in reviews /\ reviews \in SUBSET (1 .. n)
      BY <2>2, <2>3, <2>8, <3>1 DEF Positions, SoundReview
    <3>3. last = n
      BY <2>3, <3>2, LastIs
    <3>4. evidence'[Len(evidence')] = r /\ r.status = "passed"
      BY <2>2, <2>4, <3>3
    <3>5. r.by \in candidates[c].reviewers /\ r.key # candidates[c].writer
      BY <2>8, <3>1, <3>4 DEF SoundReview
    <3> QED BY <2>2, <2>8, <3>4, <3>5 DEF n, ReviewSaved
  <2> QED BY <2>6, <2>7, <2>8
<1> QED BY <1>3, <1>4 DEF GateMoves

(* The review that is read sees checks that are there, of an approved reviewer who did not write. *)
LEMMA ReviewIsSound ==
    ASSUME GateInv, NEW c, NEW reviewer, NEW shown, NEW verdict, NEW key, NEW log
    PROVE  SoundReview(ReviewRecord(c, reviewer, shown, verdict, key, log))
<1> DEFINE r == ReviewRecord(c, reviewer, shown, verdict, key, log)
           seen == {Latest(evidence, c, k) : k \in {j \in CheckIds : Present(evidence, c, j)}}
<1>1. /\ r.kind = "review" /\ r.check = "review" /\ r.candidate = c /\ r.key = key /\ r.by = reviewer /\ r.saw = shown
      /\ r.status = "passed" => shown = seen /\ reviewer \in candidates[c].reviewers /\ key # candidates[c].writer
  BY DEF ReviewRecord
<1>2. Len(evidence) \in Nat /\ DOMAIN evidence = 1 .. Len(evidence)
  BY IsSequence DEF GateInv
<1>3. seen \subseteq DOMAIN evidence
  <2> SUFFICES ASSUME NEW k \in CheckIds, Present(evidence, c, k)
               PROVE  Latest(evidence, c, k) \in DOMAIN evidence
    OBVIOUS
  <2>1. Positions(evidence, c, "check", k) \in SUBSET (1 .. Len(evidence)) /\ Positions(evidence, c, "check", k) # {}
    BY <1>2 DEF Present, Positions
  <2> QED BY <1>2, <2>1, LastIn DEF Latest
<1> HIDE DEF r, seen
<1>4. SoundReview(r)
  BY <1>1, <1>3 DEF SoundReview
<1> QED BY <1>4 DEF r

LEMMA MovesPlainly ==
    ASSUME evidence' = evidence, altered \subseteq altered' \union lost', reviewing' = reviewing,
           candidates' = candidates \/ \E x : candidates' = Append(candidates, x)
    PROVE  GateMoves
  BY DEF GateMoves

LEMMA SaveMoves ==
    ASSUME NEW r, r.kind = "check" \/ SoundReview(r), SavesEvidence(r), reviewing' \in {reviewing, None}
    PROVE  GateMoves
<1>1. altered' = altered /\ candidates' = candidates /\ evidence' \in {evidence, Append(evidence, r)}
  BY DEF SavesEvidence, Writes, WithEvidence
<1> QED BY <1>1 DEF GateMoves

LEMMA GateStepMoves == ASSUME GateInv, AnyGateStep PROVE GateMoves
<1>1. CASE \E content, input, writer, reviewers : Freeze(content, input, writer, reviewers)
  <2>1. /\ candidates' = candidates \/ \E x : candidates' = Append(candidates, x)
        /\ UNCHANGED <<evidence, reviewing, altered>>
    BY <1>1 DEF Freeze, Frozen, Writes
  <2> QED BY <2>1, MovesPlainly
<1>2. CASE \E c, reviewers, key : RebindReviewers(c, reviewers, key)
  <2>1. (\E x : candidates' = Append(candidates, x)) /\ UNCHANGED <<evidence, reviewing, altered>>
    BY <1>2 DEF RebindReviewers
  <2> QED BY <2>1, MovesPlainly
<1>3. CASE \E c, check, key, log : \E passed \in BOOLEAN : RecordCheck(c, check, passed, key, log)
  <2>1. PICK c, check, key, log : \E passed \in BOOLEAN : RecordCheck(c, check, passed, key, log)
    BY <1>3
  <2>2. PICK passed \in BOOLEAN : RecordCheck(c, check, passed, key, log)
    BY <2>1
  <2>3. PICK r : r = CheckRecord(c, check, passed, key, log)
    OBVIOUS
  <2>4. r.kind = "check"
    BY <2>3 DEF CheckRecord
  <2>5. SavesEvidence(r) /\ reviewing' = reviewing
    BY <2>2, <2>3 DEF RecordCheck
  <2> QED BY <2>4, <2>5, SaveMoves
<1>4. CASE \E c, reviewer, shown, verdict, key, log : ReadForReview(c, reviewer, shown, verdict, key, log)
  <2>1. PICK c, reviewer, shown, verdict, key, log : ReadForReview(c, reviewer, shown, verdict, key, log)
    BY <1>4
  <2>2. SoundReview(reviewing') /\ UNCHANGED <<candidates, evidence, altered>>
    BY <2>1, ReviewIsSound DEF ReadForReview
  <2>3. reviewing'.candidate \in DOMAIN candidates
    BY <2>1 DEF ReadForReview, ReviewRecord
  <2> QED BY <2>2, <2>3 DEF GateMoves
<1>5. CASE SaveReview
  <2>1. SoundReview(reviewing) /\ reviewing' = None
    BY <1>5 DEF SaveReview, GateInv
  <2>2. CASE SavesEvidence(reviewing)
    BY <2>1, <2>2, SaveMoves
  <2>3. CASE UNCHANGED <<candidates, evidence, lost, altered>>
    BY <2>1, <2>3 DEF GateMoves
  <2> QED BY <1>5, <2>2, <2>3 DEF SaveReview
<1>6. CASE \E object : LoseArtifact(object) \/ AlterArtifact(object) \/ WriteObject(object)
  <2>1. altered \subseteq altered' \union lost' /\ UNCHANGED <<candidates, evidence, reviewing>>
    BY <1>6 DEF LoseArtifact, AlterArtifact, WriteObject, Writes
  <2> QED BY <2>1, MovesPlainly
<1> QED BY <1>1, <1>2, <1>3, <1>4, <1>5, <1>6 DEF AnyGateStep

LEMMA GateStutters == ASSUME GateInv, UNCHANGED gateVars PROVE GateInv'
  BY DEF GateInv, SoundReview, gateVars

LEMMA GateStarts == GateInit => GateInv
  BY DEF GateInit, GateInv

(***************************************************************************)
(* For any candidates, keys, objects and callers: a gate that was shut is  *)
(* open after a step only if the step saved a passing review of that       *)
(* candidate, by a reviewer approved for it who is not its writer, or      *)
(* wrote back a lost object the gate, decided before, was missing.         *)
(***************************************************************************)
THEOREM GatesOpenByReview == GateSpec => GateOpensByReview
<1>1. GateInv /\ [AnyGateStep]_gateVars => GateInv'
  BY GateStepMoves, GateKeeps, GateStutters
<1>2. GateInv /\ [AnyGateStep]_gateVars => [OpensByReview]_gateVars
  BY GateStepMoves, GateOpens
<1> QED BY <1>1, <1>2, GateStarts, PTL DEF GateSpec, GateOpensByReview, OpensByReview

-----------------------------------------------------------------------------
(***************************************************************************)
(* The serial coordinator.  The process that runs belongs to the first     *)
(* attempt that is not over, which is the one advance looks at.            *)
(***************************************************************************)
Live == {"queued", "running", "unknown"}
AttemptStates == Live \union {"completed", "failed", "blocked", "cancelled", "invalidated"}
TaskStates == {"none", "queued", "candidate_ready", "checking", "awaiting_review", "failed", "blocked",
               "completed", "cancelled", "invalidating", "invalidated"}
HostStates == {"absent", "workspace", "prepared", "running", "exited", "stopped"}

SerialAttempt == [id : Ids, task : Tasks, stage : {"write", "check", "review"}, fence : Nat, permit : Nat,
                  state : AttemptStates]
SerialRow == [attempts : Seq(SerialAttempt), tasks : [Tasks -> TaskStates], bound : [Tasks -> Nat],
              candidate : Nat, check : Nat, paused : BOOLEAN, cancelled : BOOLEAN, retries : Nat]
Process == [state : HostStates, stage : {None, "write", "check", "review"}, code : Nat, fence : Nat, enabled : BOOLEAN, activated : BOOLEAN]

Numbered(xs) ==
    /\ xs \in Seq(SerialAttempt)
    /\ \A a, b \in DOMAIN xs : a # b => xs[a].id # xs[b].id
    /\ \A a \in DOMAIN xs : xs[a].stage = "review" <=> xs[a].task = "reviewer"

(* A task that was enqueued has an attempt, and the reviewer's comes after one of the worker's. *)
Covered(xs, ts) ==
    /\ \A t \in Tasks : ts[t] # "none" => \E a \in DOMAIN xs : xs[a].task = t
    /\ \A b \in DOMAIN xs : xs[b].task = "reviewer" => \E a \in DOMAIN xs : xs[a].task = "worker"

Hosted(h) == h \in [Ids -> Process] /\ \A i \in Ids : h[i].state = "running" => h[i].activated

Runs(xs, h, a) == h[xs[a].id].state = "running"

(* What runs is the first attempt that is not over. *)
Watched(xs, h) ==
    \A a \in DOMAIN xs : Runs(xs, h, a) =>
        xs[a].state \in Live /\ \A b \in DOMAIN xs : b < a => xs[b].state \notin Live

SerialInv ==
    /\ GateInv
    /\ serial \in SerialRow /\ approved \in Nat
    /\ Numbered(serial.attempts) /\ Covered(serial.attempts, serial.tasks)
    /\ Hosted(host) /\ Watched(serial.attempts, host)

-----------------------------------------------------------------------------
(* Attempts are rewritten in place: none is over and then live, none starts. *)
Rewritten(xs, ys) ==
    /\ DOMAIN ys = DOMAIN xs /\ ys \in Seq(SerialAttempt)
    /\ \A a \in DOMAIN xs :
          /\ ys[a].id = xs[a].id /\ ys[a].task = xs[a].task /\ ys[a].stage = xs[a].stage
          /\ ys[a].state \in Live => xs[a].state \in Live

NoneStarts(xs, h, ys, g) == \A a \in DOMAIN xs : Runs(xs, g, a) => Runs(xs, h, a) /\ ys[a].state \in Live

LEMMA RewriteKeeps ==
    ASSUME NEW xs, NEW ys, NEW h, NEW g, Numbered(xs), Watched(xs, h), Rewritten(xs, ys), NoneStarts(xs, h, ys, g)
    PROVE  Numbered(ys) /\ Watched(ys, g)
<1>1. Numbered(ys)
  BY DEF Numbered, Rewritten
<1>2. Watched(ys, g)
  BY DEF Watched, Rewritten, NoneStarts, Runs
<1> QED BY <1>1, <1>2

LEMMA RewriteCovers ==
    ASSUME NEW xs, NEW ys, NEW ts, NEW us, Covered(xs, ts), Rewritten(xs, ys),
           \A t \in Tasks : us[t] # "none" => \E a \in DOMAIN xs : xs[a].task = t
    PROVE  Covered(ys, us)
  BY DEF Covered, Rewritten

(* An attempt is added under an identity nobody has used. *)
Joins(xs, h, x) ==
    /\ x \in SerialAttempt /\ x.state = "queued"
    /\ h[x.id].state # "running" /\ \A a \in DOMAIN xs : xs[a].id # x.id
    /\ x.stage = "review" <=> x.task = "reviewer"

LEMMA Extended ==
    ASSUME NEW xs \in Seq(SerialAttempt), NEW x \in SerialAttempt
    PROVE  /\ Append(xs, x) \in Seq(SerialAttempt) /\ Len(xs) \in Nat /\ DOMAIN xs = 1 .. Len(xs)
           /\ DOMAIN Append(xs, x) = 1 .. Len(xs) + 1
           /\ Append(xs, x)[Len(xs) + 1] = x /\ \A a \in 1 .. Len(xs) : Append(xs, x)[a] = xs[a]
  OBVIOUS

LEMMA AppendKeeps ==
    ASSUME NEW xs \in Seq(SerialAttempt), NEW x \in SerialAttempt
    PROVE  /\ \A a \in DOMAIN xs : Append(xs, x)[a] = xs[a]
           /\ DOMAIN xs \subseteq DOMAIN Append(xs, x)
           /\ \A a \in DOMAIN Append(xs, x) : a \notin DOMAIN xs => Append(xs, x)[a] = x
<1>1. PICK n \in Nat : n = Len(xs)
  OBVIOUS
<1>2. PICK ys : ys = Append(xs, x)
  OBVIOUS
<1>3. DOMAIN xs = 1 .. n /\ DOMAIN ys = 1 .. n + 1 /\ ys[n + 1] = x /\ \A a \in 1 .. n : ys[a] = xs[a]
  BY <1>1, <1>2, Extended
<1>4. \A a \in 1 .. n + 1 : a \in 1 .. n \/ a = n + 1
  BY <1>1
<1> QED BY <1>2, <1>3, <1>4

LEMMA JoinKeeps ==
    ASSUME NEW xs, NEW h, NEW x, Numbered(xs), Watched(xs, h), Joins(xs, h, x)
    PROVE  Numbered(Append(xs, x)) /\ Watched(Append(xs, x), h)
<1>0. xs \in Seq(SerialAttempt) /\ x \in SerialAttempt
  BY DEF Numbered, Joins
<1>1. PICK ys : ys = Append(xs, x)
  OBVIOUS
<1>2. PICK n \in Nat : n = Len(xs)
  BY <1>0
<1>3. /\ ys \in Seq(SerialAttempt) /\ DOMAIN xs = 1 .. n
      /\ DOMAIN ys = 1 .. n + 1 /\ ys[n + 1] = x /\ \A a \in 1 .. n : ys[a] = xs[a]
  BY <1>0, <1>1, <1>2, Extended
<1>4. \A a \in DOMAIN ys : a \in DOMAIN xs \/ a = n + 1
  BY <1>3
<1>5. Numbered(ys)
  <2>1. \A a, b \in DOMAIN ys : a # b => ys[a].id # ys[b].id
    BY <1>3, <1>4 DEF Numbered, Joins
  <2>2. \A a \in DOMAIN ys : ys[a].stage = "review" <=> ys[a].task = "reviewer"
    BY <1>3, <1>4 DEF Numbered, Joins
  <2> QED BY <1>3, <2>1, <2>2 DEF Numbered
<1>6. Watched(ys, h)
  <2> SUFFICES ASSUME NEW a \in DOMAIN ys, Runs(ys, h, a)
               PROVE  ys[a].state \in Live /\ \A b \in DOMAIN ys : b < a => ys[b].state \notin Live
    BY DEF Watched
  <2>1. a \in DOMAIN xs
    BY <1>3, <1>4 DEF Joins, Runs
  <2>2. ys[a] = xs[a] /\ Runs(xs, h, a)
    BY <1>3, <2>1 DEF Runs
  <2>3. \A b \in DOMAIN ys : b < a => b \in DOMAIN xs /\ ys[b] = xs[b]
    BY <1>3, <2>1
  <2> QED BY <2>1, <2>2, <2>3 DEF Watched
<1> QED BY <1>1, <1>5, <1>6

LEMMA JoinCovers ==
    ASSUME NEW xs, NEW h, NEW x, NEW ts, NEW us, Numbered(xs), Covered(xs, ts), Joins(xs, h, x),
           x.task = "reviewer" => \E a \in DOMAIN xs : xs[a].task = "worker",
           \A t \in Tasks : us[t] # "none" => ts[t] # "none" \/ t = x.task
    PROVE  Covered(Append(xs, x), us)
<1>0. xs \in Seq(SerialAttempt) /\ x \in SerialAttempt
  BY DEF Numbered, Joins
<1>1. PICK ys : ys = Append(xs, x)
  OBVIOUS
<1>2. PICK n \in Nat : n = Len(xs)
  BY <1>0
<1>3. /\ ys \in Seq(SerialAttempt) /\ DOMAIN xs = 1 .. n
      /\ DOMAIN ys = 1 .. n + 1 /\ ys[n + 1] = x /\ \A a \in 1 .. n : ys[a] = xs[a]
  BY <1>0, <1>1, <1>2, Extended
<1>4. DOMAIN xs \subseteq DOMAIN ys /\ n + 1 \in DOMAIN ys /\ \A a \in DOMAIN ys : a \in DOMAIN xs \/ a = n + 1
  BY <1>3
<1>5. \A t \in Tasks : us[t] # "none" => \E a \in DOMAIN ys : ys[a].task = t
  <2> SUFFICES ASSUME NEW t \in Tasks, us[t] # "none" PROVE \E a \in DOMAIN ys : ys[a].task = t
    OBVIOUS
  <2>1. CASE t = x.task
    BY <1>3, <1>4, <2>1
  <2>2. CASE ts[t] # "none"
    <3>1. PICK a \in DOMAIN xs : xs[a].task = t
      BY <2>2 DEF Covered
    <3> QED BY <1>3, <1>4, <3>1
  <2> QED BY <2>1, <2>2
<1>6. ASSUME NEW b \in DOMAIN ys, ys[b].task = "reviewer" PROVE \E a \in DOMAIN ys : ys[a].task = "worker"
  <2>1. PICK a \in DOMAIN xs : xs[a].task = "worker"
    <3>1. CASE b \in DOMAIN xs
      <4>1. xs[b].task = "reviewer"
        BY <1>3, <1>6, <3>1
      <4> QED BY <3>1, <4>1 DEF Covered
    <3>2. CASE b = n + 1
      BY <1>3, <1>6, <3>2
    <3> QED BY <1>4, <3>1, <3>2
  <2> QED BY <1>3, <1>4, <2>1
<1> QED BY <1>1, <1>5, <1>6 DEF Covered

LEMMA JoinShrinks ==
    ASSUME NEW xs \in Seq(SerialAttempt), NEW h, NEW x \in SerialAttempt, Watched(Append(xs, x), h)
    PROVE  Watched(xs, h)
<1>1. PICK ys : ys = Append(xs, x)
  OBVIOUS
<1>2. PICK n \in Nat : n = Len(xs)
  OBVIOUS
<1>3. /\ DOMAIN xs = 1 .. n /\ DOMAIN ys = 1 .. n + 1 /\ \A a \in 1 .. n : ys[a] = xs[a]
  BY <1>1, <1>2, Extended
<1>4. DOMAIN xs \subseteq DOMAIN ys
  BY <1>3
<1>5. Watched(ys, h)
  BY <1>1
<1> HIDE <1>1
<1> QED BY ONLY <1>3, <1>4, <1>5 DEF Watched, Runs

(* The first attempt that is not over starts: nothing else runs. *)
LEMMA FirstStarts ==
    ASSUME NEW xs, NEW h, NEW g, Numbered(xs), Watched(xs, h), NEW a \in DOMAIN xs,
           xs[a].state \in Live, \A b \in DOMAIN xs : xs[b].state \in Live => a <= b,
           \A b \in DOMAIN xs : b # a => (Runs(xs, g, b) => Runs(xs, h, b))
    PROVE  Watched(xs, g)
<1>0. DOMAIN xs \subseteq Nat
  BY DEF Numbered
<1> SUFFICES ASSUME NEW b \in DOMAIN xs, Runs(xs, g, b)
             PROVE  xs[b].state \in Live /\ \A c \in DOMAIN xs : c < b => xs[c].state \notin Live
  BY DEF Watched
<1>1. CASE b = a
  BY <1>0, <1>1
<1>2. CASE b # a
  BY <1>2 DEF Watched
<1> QED BY <1>1, <1>2

-----------------------------------------------------------------------------
LEMMA FreshIsUnused ==
    ASSUME Unused # {}
    PROVE  Fresh \in Unused
<1>1. Cardinality(Ids) \in Nat
  BY IdsAssumption, FS_CardinalityType
<1>2. Unused \in SUBSET Nat
  BY <1>1, IdsAssumption DEF Unused
<1>3. Min(Unused) \in Unused /\ \A y \in Unused : Min(Unused) <= y
  BY <1>2, MinOfNat
<1>4. \E i \in Unused : \A j \in Unused : i <= j
  BY <1>3
<1> QED BY <1>4 DEF Fresh

LEMMA AttemptJoins ==
    ASSUME SerialInv, Unused # {}, NEW t \in Tasks, NEW stage \in {"write", "check", "review"}, NEW fence \in Nat,
           stage = "review" <=> t = "reviewer"
    PROVE  Joins(serial.attempts, host, Attempt(t, stage, fence))
<1>1. PICK i \in Ids : i = Fresh /\ host[i] = NoProcess /\ \A a \in Attempts : serial.attempts[a].id # i
  BY FreshIsUnused DEF Unused
<1>2. PICK x : x = [id |-> i, task |-> t, stage |-> stage, fence |-> fence, permit |-> 1, state |-> "queued"]
  OBVIOUS
<1>3. x = Attempt(t, stage, fence)
  BY <1>1, <1>2 DEF Attempt
<1>4. x \in SerialAttempt /\ x.id = i /\ x.state = "queued" /\ x.task = t /\ x.stage = stage
  BY <1>2 DEF SerialAttempt, AttemptStates, Live
<1>5. host[x.id].state # "running"
  BY <1>1, <1>4 DEF NoProcess
<1>6. Joins(serial.attempts, host, x)
  BY <1>1, <1>4, <1>5 DEF Joins, Attempts
<1> QED BY <1>3, <1>6

LEMMA FirstIn ==
    ASSUME SerialInv, NEW S \in SUBSET Attempts, S # {}
    PROVE  /\ (CHOOSE a \in S : \A b \in S : a <= b) \in S
           /\ \A b \in S : (CHOOSE a \in S : \A b2 \in S : a <= b2) <= b
<1>1. S \in SUBSET Nat
  BY DEF SerialInv, Numbered, Attempts
<1>2. \E a \in S : \A b \in S : a <= b
  BY <1>1, MinOfNat
<1> QED BY <1>2

LEMMA LastAttemptIn ==
    ASSUME SerialInv, NEW t \in Tasks, Of(t) # {}
    PROVE  LastAttempt(t) \in Attempts /\ serial.attempts[LastAttempt(t)].task = t
<1>1. PICK n \in Nat : Attempts = 1 .. n
  BY DEF SerialInv, Numbered, Attempts
<1>2. Of(t) \in SUBSET (1 .. n)
  BY <1>1 DEF Of
<1>3. \E a \in Of(t) : \A b \in Of(t) : b <= a
  BY <1>2, MaxOfBounded
<1>4. LastAttempt(t) \in Of(t)
  BY <1>3 DEF LastAttempt
<1> QED BY <1>4 DEF Of

LEMMA EnqueuedHas ==
    ASSUME SerialInv, NEW t \in Tasks, serial.tasks[t] # "none"
    PROVE  Of(t) # {}
  BY DEF SerialInv, Covered, Of, Attempts

(* What an action has to show: the rest of the invariant follows. *)
LEMMA SerialKept ==
    ASSUME SerialInv, UNCHANGED gateVars \/ GateMoves, serial' \in SerialRow, approved' \in Nat,
           Numbered(serial'.attempts), Covered(serial'.attempts, serial'.tasks),
           Hosted(host'), Watched(serial'.attempts, host')
    PROVE  SerialInv'
<1>1. GateInv'
  BY GateKeeps, GateStutters DEF SerialInv
<1>2. Numbered(serial.attempts)'
  BY DEF Numbered
<1>3. Covered(serial.attempts, serial.tasks)'
  BY DEF Covered
<1>4. Hosted(host)'
  BY DEF Hosted
<1>5. Watched(serial.attempts, host)'
  BY DEF Watched, Runs
<1> QED BY <1>1, <1>2, <1>3, <1>4, <1>5 DEF SerialInv

LEMMA RowKept == ASSUME SerialInv, UNCHANGED serial PROVE
           /\ serial' \in SerialRow /\ Numbered(serial'.attempts) /\ Covered(serial'.attempts, serial'.tasks)
  BY DEF SerialInv

(***************************************************************************)
(* What a step does to the attempts and their processes.  Attempts are     *)
(* rewritten in place or one is added, a writer's only before the worker   *)
(* or after it failed; a process starts for an attempt that is committed   *)
(* with it, or is a check left behind by a stop.                           *)
(***************************************************************************)
Grows(xs, ys) ==
    /\ DOMAIN xs \subseteq DOMAIN ys
    /\ \A a \in DOMAIN xs : /\ ys[a].id = xs[a].id /\ ys[a].stage = xs[a].stage
                            /\ ys[a].state \in Live => xs[a].state \in Live
    /\ \A a \in DOMAIN ys \ DOMAIN xs :
          /\ a = Len(xs) + 1 /\ host[ys[a].id].state # "running"
          /\ ys[a].stage = "write" =>
                serial.tasks["worker"] \in {"none", "failed"} /\ serial'.tasks["worker"] = "queued"

Ran(i) == host[i].state = "running" /\ host'[i].stage = host[i].stage
Calm == \A i \in Ids : host'[i].state = "running" => Ran(i)

Starts(i) ==
    /\ \A j \in Ids : j # i /\ host'[j].state = "running" => Ran(j)
    /\ \/ \E a \in DOMAIN serial'.attempts : serial'.attempts[a].id = i /\ serial'.attempts[a].stage = host'[i].stage
       \/ /\ serial' = serial /\ stops' = stops + 1 /\ \A a \in DOMAIN serial.attempts : serial.attempts[a].id # i
          /\ serial.tasks["worker"] = "candidate_ready" /\ host'[i].stage = "check"

SerialMoves == Grows(serial.attempts, serial'.attempts) /\ (Calm \/ \E i \in Ids : Starts(i))

LEMMA RewriteSame == ASSUME SerialInv PROVE Rewritten(serial.attempts, serial.attempts)
  BY DEF SerialInv, Numbered, Rewritten

LEMMA RewriteMoves ==
    ASSUME SerialInv, Calm \/ UNCHANGED host, Rewritten(serial.attempts, serial'.attempts)
    PROVE  SerialMoves
<1>1. Calm
  BY DEF Calm, Ran
<1>2. Grows(serial.attempts, serial'.attempts)
  BY DEF Rewritten, Grows
<1> QED BY <1>1, <1>2 DEF SerialMoves

LEMMA SameMoves == ASSUME SerialInv, Calm \/ UNCHANGED host, serial'.attempts = serial.attempts PROVE SerialMoves
  BY RewriteSame, RewriteMoves

(* One attempt joins, and all of them may be rewritten before and after. *)
LEMMA JoinGrows ==
    ASSUME SerialInv, NEW ys, Rewritten(serial.attempts, ys), NEW x, Joins(ys, host, x),
           NEW zs, Rewritten(Append(ys, x), zs),
           x.stage = "write" => serial.tasks["worker"] \in {"none", "failed"} /\ serial'.tasks["worker"] = "queued"
    PROVE  Grows(serial.attempts, zs)
<1>0. serial.attempts \in Seq(SerialAttempt) /\ ys \in Seq(SerialAttempt) /\ x \in SerialAttempt
  BY DEF SerialInv, Numbered, Rewritten, Joins
<1>1. PICK n \in Nat : n = Len(serial.attempts) /\ DOMAIN serial.attempts = 1 .. n
  BY <1>0
<1>2. Len(ys) = n
  BY <1>0, <1>1 DEF Rewritten
<1>3. PICK ws : ws = Append(ys, x)
  OBVIOUS
<1>4. /\ DOMAIN ws = 1 .. n + 1 /\ ws[n + 1] = x /\ \A a \in 1 .. n : ws[a] = ys[a]
  BY <1>0, <1>2, <1>3, Extended
<1>5. Rewritten(ws, zs)
  BY <1>3
<1>6. \A a \in 1 .. n : a \in 1 .. n + 1
  BY <1>1
<1>7. \A a \in (1 .. n + 1) \ (1 .. n) : a = n + 1
  BY <1>1
<1> QED BY <1>1, <1>4, <1>5, <1>6, <1>7 DEF Grows, Rewritten, Joins

LEMMA EnqueueKeeps == ASSUME SerialInv, NEW t \in Tasks, Enqueue(t) PROVE SerialInv' /\ SerialMoves
<1> DEFINE stage == IF t = "worker" THEN "write" ELSE "review"
<1>1. stage \in {"write", "check", "review"} /\ (stage = "review" <=> t = "reviewer")
  BY DEF Tasks
<1>2. PICK x : x = Attempt(t, stage, 1)
  OBVIOUS
<1>3. Joins(serial.attempts, host, x) /\ x.task = t
  BY <1>1, <1>2, AttemptJoins DEF Enqueue, Attempt
<1>4. /\ serial' = [serial EXCEPT !.attempts = Append(@, x), !.tasks[t] = "queued", !.bound[t] = approved]
      /\ UNCHANGED <<host, approved, gateVars>>
  BY <1>2 DEF Enqueue, Commits, Committed
<1>5. /\ serial'.attempts = Append(serial.attempts, x)
      /\ \A u \in Tasks : serial'.tasks[u] = IF u = t THEN "queued" ELSE serial.tasks[u]
  BY <1>4 DEF SerialInv, SerialRow
<1>6. Numbered(serial'.attempts) /\ Watched(serial'.attempts, host')
  BY <1>3, <1>4, <1>5, JoinKeeps DEF SerialInv
<1>7. Covered(serial'.attempts, serial'.tasks)
  <2>1. x.task = "reviewer" => \E a \in DOMAIN serial.attempts : serial.attempts[a].task = "worker"
    BY <1>3 DEF Enqueue, SerialInv, Covered, Tasks
  <2>2. \A u \in Tasks : serial'.tasks[u] # "none" => serial.tasks[u] # "none" \/ u = x.task
    BY <1>3, <1>5
  <2> QED BY <1>3, <1>5, <2>1, <2>2, JoinCovers DEF SerialInv
<1>8. serial' \in SerialRow
  <2>1. Append(serial.attempts, x) \in Seq(SerialAttempt)
    BY <1>5, <1>6 DEF Numbered
  <2>2. "queued" \in TaskStates
    BY DEF TaskStates
  <2> QED BY <1>4, <2>1, <2>2 DEF SerialInv, SerialRow
<1>9. SerialMoves
  <2>1. x.stage = "write" => serial.tasks["worker"] \in {"none", "failed"} /\ serial'.tasks["worker"] = "queued"
    BY <1>2, <1>5 DEF Enqueue, Attempt
  <2>2. Rewritten(Append(serial.attempts, x), Append(serial.attempts, x))
    BY <1>5, <1>6 DEF Numbered, Rewritten
  <2>3. Grows(serial.attempts, serial'.attempts)
    BY <1>3, <1>5, <2>1, <2>2, RewriteSame, JoinGrows
  <2>4. Calm
    BY <1>4 DEF Calm, Ran
  <2> QED BY <2>3, <2>4 DEF SerialMoves
<1> QED BY <1>4, <1>6, <1>7, <1>8, <1>9, SerialKept DEF SerialInv

(* Only fields no process depends on are rewritten, and the host changes no state. *)
LEMMA HostStands ==
    ASSUME SerialInv, \A i \in Ids : host'[i].state = host[i].state
    PROVE  \A a \in Attempts : Runs(serial.attempts, host', a) => Runs(serial.attempts, host, a)
                                /\ serial.attempts[a].state \in Live
<1> SUFFICES ASSUME NEW a \in Attempts, Runs(serial.attempts, host', a)
             PROVE  Runs(serial.attempts, host, a) /\ serial.attempts[a].state \in Live
  OBVIOUS
<1>1. serial.attempts[a].id \in Ids
  <2>1. serial.attempts[a] \in SerialAttempt
    BY DEF SerialInv, Numbered, Attempts
  <2> QED BY <2>1 DEF SerialAttempt
<1>2. Runs(serial.attempts, host, a)
  BY <1>1 DEF Runs
<1> QED BY <1>2 DEF SerialInv, Watched, Attempts

LEMMA SameAttempts ==
    ASSUME SerialInv, \A a \in Attempts : Runs(serial.attempts, host', a) => Runs(serial.attempts, host, a)
    PROVE  Watched(serial.attempts, host')
  BY DEF SerialInv, Watched, Attempts

LEMMA RetryKeeps == ASSUME SerialInv, NEW t \in Tasks, Retry(t) PROVE SerialInv' /\ SerialMoves
<1>1. PICK a, i, fence :
        /\ a = LastAttempt(t) /\ i = serial.attempts[a].id /\ fence = serial.attempts[a].fence + 1
        /\ serial.attempts[a].stage = "write" /\ Unused # {}
        /\ host' = [host EXCEPT ![i].fence = fence, ![i].enabled = FALSE]
        /\ \/ serial' = [serial EXCEPT !.attempts = Append([@ EXCEPT ![a].fence = fence], Attempt(t, "write", 1)),
                                    !.tasks[t] = "queued", !.retries = @ + 1]
           \/ serial' = serial
        /\ UNCHANGED <<approved, gateVars>>
  BY DEF Retry, Commits, Committed, StopsBefore
<1>2. a \in Attempts /\ serial.attempts[a].task = t
  BY <1>1, EnqueuedHas, LastAttemptIn DEF Retry
<1>3. serial.attempts[a] \in SerialAttempt /\ i \in Ids /\ fence \in Nat
  <2>1. serial.attempts[a] \in SerialAttempt
    BY <1>2 DEF SerialInv, Numbered, Attempts
  <2> QED BY <1>1, <2>1 DEF SerialAttempt
<1>4. t # "reviewer"
  BY <1>1, <1>2 DEF SerialInv, Numbered, Attempts
<1>5. Hosted(host') /\ \A j \in Ids : host'[j].state = host[j].state /\ host'[j].stage = host[j].stage
  <2>1. host[i] \in Process /\ host \in [Ids -> Process] /\ (host[i].state = "running" => host[i].activated)
    BY <1>3 DEF SerialInv, Hosted
  <2>2. PICK p : p = [host[i] EXCEPT !.fence = fence, !.enabled = FALSE]
    OBVIOUS
  <2>3. p \in Process /\ p.state = host[i].state /\ p.activated = host[i].activated /\ p.stage = host[i].stage
    BY <1>3, <2>1, <2>2 DEF Process
  <2>4. host' = [host EXCEPT ![i] = p]
    BY <1>1, <1>3, <2>1, <2>2
  <2> QED BY <1>3, <2>1, <2>3, <2>4 DEF SerialInv, Hosted
<1>6. \A b \in Attempts : Runs(serial.attempts, host', b) => Runs(serial.attempts, host, b)
                                /\ serial.attempts[b].state \in Live
  BY <1>5, HostStands
<1>c. Calm
  BY <1>5 DEF Calm, Ran
<1>7. CASE serial' = serial
  BY <1>1, <1>5, <1>6, <1>7, <1>c, SameAttempts, RowKept, SerialKept, SameMoves DEF SerialInv
<1>8. CASE serial' = [serial EXCEPT !.attempts = Append([@ EXCEPT ![a].fence = fence], Attempt(t, "write", 1)),
                                    !.tasks[t] = "queued", !.retries = @ + 1]
  <2>1. PICK x : x = Attempt(t, "write", 1)
    OBVIOUS
  <2>2. PICK r : r = [serial.attempts[a] EXCEPT !.fence = fence]
    OBVIOUS
  <2>3. PICK ys : ys = [serial.attempts EXCEPT ![a] = r]
    OBVIOUS
  <2>4. /\ serial' = [serial EXCEPT !.attempts = Append(ys, x), !.tasks[t] = "queued", !.retries = @ + 1]
    BY <1>8, <2>1, <2>2, <2>3
  <2>5. /\ r \in SerialAttempt /\ r.id = serial.attempts[a].id /\ r.task = serial.attempts[a].task
        /\ r.stage = serial.attempts[a].stage /\ r.state = serial.attempts[a].state
    BY <1>3, <2>2 DEF SerialAttempt
  <2>6. /\ DOMAIN ys = DOMAIN serial.attempts /\ ys \in Seq(SerialAttempt)
        /\ \A b \in DOMAIN serial.attempts : ys[b] = IF b = a THEN r ELSE serial.attempts[b]
    BY <1>2, <2>3, <2>5 DEF SerialInv, Numbered, Attempts
  <2>7. Rewritten(serial.attempts, ys)
    BY <2>5, <2>6 DEF Rewritten
  <2>8. NoneStarts(serial.attempts, host, ys, host')
    BY <1>6, <2>5, <2>6 DEF NoneStarts, Attempts
  <2>9. Numbered(ys) /\ Watched(ys, host') /\ Covered(ys, serial.tasks)
    BY <2>7, <2>8, RewriteKeeps, RewriteCovers DEF SerialInv, Covered
  <2>10. Joins(serial.attempts, host, x) /\ x.task = t
    BY <1>1, <1>4, <2>1, AttemptJoins DEF Attempt
  <2>11. Joins(ys, host', x)
    <3>1. x.id \in Ids
      BY <2>10 DEF Joins, SerialAttempt
    <3>2. \A b \in DOMAIN ys : ys[b].id = serial.attempts[b].id
      BY <2>5, <2>6
    <3> QED BY <1>5, <2>6, <2>10, <3>1, <3>2 DEF Joins
  <2>12. Numbered(Append(ys, x)) /\ Watched(Append(ys, x), host')
    BY <2>9, <2>11, JoinKeeps
  <2>13. /\ serial'.attempts = Append(ys, x)
         /\ \A u \in Tasks : serial'.tasks[u] = IF u = t THEN "queued" ELSE serial.tasks[u]
    BY <2>4 DEF SerialInv, SerialRow
  <2>14. Covered(Append(ys, x), serial'.tasks)
    BY <1>4, <2>9, <2>10, <2>11, <2>13, JoinCovers
  <2>15. serial' \in SerialRow
    <3>1. Append(ys, x) \in Seq(SerialAttempt)
      BY <2>12 DEF Numbered
    <3>2. "queued" \in TaskStates
      BY DEF TaskStates
    <3>3. PICK ys2 : ys2 = Append(ys, x)
      OBVIOUS
    <3>4. PICK us : us = [serial.tasks EXCEPT ![t] = "queued"]
      OBVIOUS
    <3>5. PICK k : k = serial.retries + 1
      OBVIOUS
    <3>6. ys2 \in Seq(SerialAttempt) /\ serial \in SerialRow
      BY <3>1, <3>3 DEF SerialInv
    <3>7. serial' = [serial EXCEPT !.attempts = ys2, !.tasks = us, !.retries = k]
      BY <2>4, <3>3, <3>4, <3>5, <3>6 DEF SerialRow
    <3>8. us \in [Tasks -> TaskStates] /\ k \in Nat
      BY <3>2, <3>4, <3>5, <3>6 DEF SerialRow
    <3> QED BY ONLY <3>6, <3>7, <3>8 DEF SerialRow
  <2>16. SerialMoves
    <3>1. serial.tasks["worker"] = "failed" /\ serial'.tasks["worker"] = "queued"
      BY <1>4, <2>13 DEF Retry, Tasks
    <3>2. Rewritten(Append(ys, x), serial'.attempts)
      BY <2>12, <2>13 DEF Numbered, Rewritten
    <3>3. Joins(ys, host, x)
      BY <2>5, <2>6, <2>10 DEF Joins
    <3>4. Grows(serial.attempts, serial'.attempts)
      BY <2>7, <3>1, <3>2, <3>3, JoinGrows
    <3> QED BY <1>c, <3>4 DEF SerialMoves
  <2> QED BY <1>1, <1>5, <2>12, <2>13, <2>14, <2>15, <2>16, SerialKept DEF SerialInv
<1> QED BY <1>1, <1>7, <1>8

(* A commit that rewrites the attempts in place. *)
LEMMA RewriteCommits ==
    ASSUME SerialInv, Hosted(host'), UNCHANGED <<approved, gateVars>>,
           NEW ys, Rewritten(serial.attempts, ys), NoneStarts(serial.attempts, host, ys, host'),
           NEW ts \in [Tasks -> TaskStates], NEW paused \in BOOLEAN, NEW cancelled \in BOOLEAN,
           \A t \in Tasks : ts[t] # "none" => Of(t) # {},
           serial' = [serial EXCEPT !.attempts = ys, !.tasks = ts, !.paused = paused, !.cancelled = cancelled],
           Calm \/ UNCHANGED host
    PROVE  SerialInv' /\ SerialMoves
<1>1. Numbered(ys) /\ Watched(ys, host')
  BY RewriteKeeps DEF SerialInv
<1>2. Covered(ys, ts)
  <2>1. \A t \in Tasks : ts[t] # "none" => \E a \in DOMAIN serial.attempts : serial.attempts[a].task = t
    BY DEF Of, Attempts
  <2> QED BY <2>1, RewriteCovers DEF SerialInv
<1>3. serial' \in SerialRow /\ serial'.attempts = ys /\ serial'.tasks = ts
  BY <1>1 DEF SerialInv, SerialRow, Numbered
<1> QED BY <1>1, <1>2, <1>3, SerialKept, RewriteMoves DEF SerialInv

(* Fences raised for some attempts. *)
LEMMA FencesRise ==
    ASSUME SerialInv, UNCHANGED host, NEW ys, NEW up \in SUBSET Attempts,
           ys = [a \in Attempts |-> IF a \in up THEN Fenced(a)
                                   ELSE serial.attempts[a]]
    PROVE  /\ Rewritten(serial.attempts, ys) /\ NoneStarts(serial.attempts, host, ys, host')
           /\ Hosted(host')
<1>1. \A a \in Attempts : /\ ys[a] \in SerialAttempt /\ ys[a].id = serial.attempts[a].id
                          /\ ys[a].task = serial.attempts[a].task /\ ys[a].stage = serial.attempts[a].stage
                          /\ ys[a].state = serial.attempts[a].state
  <2> SUFFICES ASSUME NEW a \in Attempts
               PROVE  /\ ys[a] \in SerialAttempt /\ ys[a].id = serial.attempts[a].id
                      /\ ys[a].task = serial.attempts[a].task /\ ys[a].stage = serial.attempts[a].stage
                      /\ ys[a].state = serial.attempts[a].state
    OBVIOUS
  <2>1. PICK r \in SerialAttempt : r = serial.attempts[a]
    BY DEF SerialInv, Numbered, Attempts
  <2>2. ys[a] = IF a \in up THEN [r EXCEPT !.fence = @ + 1] ELSE r
    BY <2>1 DEF Fenced
  <2> QED BY <2>1, <2>2 DEF SerialAttempt
<1>2. PICK n \in Nat : Attempts = 1 .. n
  BY DEF SerialInv, Numbered, Attempts
<1>3. DOMAIN ys = Attempts /\ ys \in Seq(SerialAttempt)
  BY <1>1, <1>2
<1>4. Rewritten(serial.attempts, ys)
  BY <1>1, <1>3 DEF Rewritten, Attempts
<1>5. NoneStarts(serial.attempts, host, ys, host')
  BY <1>1, HostStands DEF NoneStarts, Attempts
<1> QED BY <1>4, <1>5 DEF SerialInv

LEMMA ControlKeeps == ASSUME SerialInv, NEW action \in {"pause", "resume", "cancel"}, Control(action) PROVE SerialInv' /\ SerialMoves
<1>0. UNCHANGED <<host, approved, gateVars>> /\ serial.tasks \in [Tasks -> TaskStates]
      /\ serial.paused \in BOOLEAN /\ serial.cancelled \in BOOLEAN /\ serial \in SerialRow
      /\ \A t \in Tasks : serial.tasks[t] # "none" => Of(t) # {}
  BY EnqueuedHas DEF Control, SerialInv, SerialRow
<1>1. CASE action = "cancel"
  <2>1. PICK ys : ys = [a \in Attempts |-> IF a \in Attempts THEN Fenced(a)
                                          ELSE serial.attempts[a]]
    OBVIOUS
  <2>2. ys = [a \in Attempts |-> Fenced(a)]
    BY <2>1
  <2>3. serial' = [serial EXCEPT !.attempts = ys, !.cancelled = TRUE, !.paused = FALSE]
    <3>1. serial' = [serial EXCEPT !.attempts = [a \in Attempts |-> Fenced(a)],
                                       !.cancelled = TRUE, !.paused = FALSE]
      <4>1. Commits([serial EXCEPT !.attempts = [a \in Attempts |-> Fenced(a)],
                                   !.cancelled = TRUE, !.paused = FALSE])
        BY <1>1 DEF Control
      <4> QED BY <4>1 DEF Commits, Committed
    <3> QED BY <2>2, <3>1
  <2>4. serial' = [serial EXCEPT !.attempts = ys, !.tasks = serial.tasks, !.paused = FALSE, !.cancelled = TRUE]
    BY <1>0, <2>3 DEF SerialRow
  <2>5. /\ Rewritten(serial.attempts, ys) /\ NoneStarts(serial.attempts, host, ys, host') /\ Hosted(host')
    BY <1>0, <2>1, FencesRise
  <2> QED BY <1>0, <2>4, <2>5, RewriteCommits
<1>2. CASE action # "cancel"
  <2>1. PICK paused \in BOOLEAN : serial' = [serial EXCEPT !.paused = paused]
    BY <1>2 DEF Control, Commits, Committed
  <2>2. /\ serial' \in SerialRow /\ serial'.attempts = serial.attempts /\ serial'.tasks = serial.tasks
    BY <1>0, <2>1 DEF SerialRow
  <2> QED BY <1>0, <2>2, SerialKept, SameMoves DEF SerialInv
<1> QED BY <1>1, <1>2

(***************************************************************************)
(* The host after the attempts of a set were stopped: what still runs ran  *)
(* before, and is outside the set or did not stop in time.                 *)
(***************************************************************************)
LEMMA StoppedHost ==
    ASSUME SerialInv, NEW set \in SUBSET Attempts, NEW survivors
    PROVE  /\ Hosted(Stopped(set, survivors))
           /\ \A a \in Attempts : Runs(serial.attempts, Stopped(set, survivors), a) =>
                 Runs(serial.attempts, host, a) /\ (a \in set => a \in survivors)
           /\ \A i \in Ids : Stopped(set, survivors)[i].state = "running" =>
                 host[i].state = "running" /\ Stopped(set, survivors)[i].stage = host[i].stage
<1> DEFINE mine(i) == {a \in set : serial.attempts[a].id = i}
           fence(i) == serial.attempts[CHOOSE a \in mine(i) : TRUE].fence
           over(i) == mine(i) = {} \/ host[i].state \in {"absent", "workspace"}
           after(i) == IF mine(i) \subseteq survivors \/ host[i].state = "exited" THEN host[i].state ELSE "stopped"
<1>1. PICK g : g = Stopped(set, survivors)
  OBVIOUS
<1>2. g = [i \in Ids |-> IF over(i) THEN host[i]
                        ELSE [host[i] EXCEPT !.fence = fence(i), !.enabled = FALSE,
                                !.state = IF mine(i) \subseteq survivors \/ @ = "exited" THEN @ ELSE "stopped"]]
  BY <1>1 DEF Stopped
<1>3. ASSUME NEW i \in Ids
      PROVE  /\ g[i] \in Process /\ g[i].activated = host[i].activated /\ g[i].stage = host[i].stage
             /\ g[i].state = IF over(i) THEN host[i].state ELSE after(i)
  <2>1. PICK p \in Process : p = host[i]
    BY DEF SerialInv, Hosted
  <2>2. CASE over(i)
    BY <1>2, <2>1, <2>2
  <2>3. CASE ~over(i)
    <3>1. PICK f : f = fence(i)
      OBVIOUS
    <3>2. PICK b \in Attempts : f = serial.attempts[b].fence
      BY <2>3, <3>1
    <3>3. f \in Nat
      <4>1. serial.attempts[b] \in SerialAttempt
        BY <3>2 DEF SerialInv, Numbered, Attempts
      <4> QED BY <3>2, <4>1 DEF SerialAttempt
    <3>4. PICK st : st = after(i)
      OBVIOUS
    <3>5. st \in HostStates
      BY <2>1, <3>4 DEF Process, HostStates
    <3>6. g[i] = [p EXCEPT !.fence = f, !.enabled = FALSE, !.state = st]
      BY <1>2, <2>1, <2>3, <3>1, <3>4 DEF Process
    <3> HIDE DEF mine, fence, over, after
    <3> QED BY <2>1, <2>3, <3>3, <3>4, <3>5, <3>6 DEF Process
  <2> QED BY <2>2, <2>3
<1>4. DOMAIN g = Ids /\ g \in [Ids -> Process]
  BY <1>2, <1>3
<1>5. ASSUME NEW a \in Attempts, Runs(serial.attempts, g, a)
      PROVE  Runs(serial.attempts, host, a) /\ (a \in set => a \in survivors)
  <2>1. PICK i \in Ids : i = serial.attempts[a].id
    <3>1. serial.attempts[a] \in SerialAttempt
      BY DEF SerialInv, Numbered, Attempts
    <3> QED BY <3>1 DEF SerialAttempt
  <2>2. g[i].state = "running"
    BY <1>5, <2>1 DEF Runs
  <2>3. host[i].state = "running" /\ (mine(i) = {} \/ mine(i) \subseteq survivors)
    BY <1>3, <2>2
  <2> QED BY <2>1, <2>3 DEF Runs
<1>6. Hosted(g)
  BY <1>3, <1>4 DEF Hosted, SerialInv
<1>7. \A i \in Ids : g[i].state = "running" => host[i].state = "running" /\ g[i].stage = host[i].stage
  BY <1>3
<1> QED BY <1>1, <1>5, <1>6, <1>7

(* What an operation that stops attempts leaves of them. *)
Marked(marked, survivors, over) ==
    [a \in Attempts |->
        IF a \in marked THEN [serial.attempts[a] EXCEPT !.state = IF a \in survivors THEN "unknown" ELSE over]
        ELSE serial.attempts[a]]

LEMMA StopsKeep ==
    ASSUME SerialInv, NEW set \in SUBSET Attempts, NEW survivors \in SUBSET Running, host' = Stopped(set, survivors),
           NEW marked \in SUBSET Attempts, NEW over \in AttemptStates, NEW ys,
           \A a \in marked : a \in set \/ serial.attempts[a].state \notin Live,
           ys = Marked(marked, survivors, over), over \notin Live
    PROVE  /\ Hosted(host') /\ Watched(serial.attempts, host') /\ Calm
           /\ Rewritten(serial.attempts, ys) /\ NoneStarts(serial.attempts, host, ys, host')
<1>1. /\ Hosted(host')
      /\ \A a \in Attempts : Runs(serial.attempts, host', a) =>
                 Runs(serial.attempts, host, a) /\ (a \in set => a \in survivors)
  BY StoppedHost
<1>2. Watched(serial.attempts, host')
  BY <1>1, SameAttempts
<1>3. \A a \in Attempts : Runs(serial.attempts, host, a) => serial.attempts[a].state \in Live
  BY DEF SerialInv, Watched, Attempts
<1>4. survivors \subseteq {a \in Attempts : Runs(serial.attempts, host, a)}
  BY DEF Running, Runs
<1>5. ASSUME NEW a \in Attempts
      PROVE  /\ ys[a] \in SerialAttempt /\ ys[a].id = serial.attempts[a].id
             /\ ys[a].task = serial.attempts[a].task /\ ys[a].stage = serial.attempts[a].stage
             /\ ys[a].state = IF a \notin marked THEN serial.attempts[a].state
                             ELSE IF a \in survivors THEN "unknown" ELSE over
  <2>1. PICK r \in SerialAttempt : r = serial.attempts[a]
    BY DEF SerialInv, Numbered, Attempts
  <2>2. PICK st \in AttemptStates : st = IF a \in survivors THEN "unknown" ELSE over
    BY DEF AttemptStates, Live
  <2>3. ys[a] = IF a \in marked THEN [r EXCEPT !.state = st] ELSE r
    BY <2>1, <2>2 DEF Marked
  <2> QED BY <2>1, <2>2, <2>3 DEF SerialAttempt
<1>6. PICK n \in Nat : Attempts = 1 .. n
  BY DEF SerialInv, Numbered, Attempts
<1>7. DOMAIN ys = Attempts /\ ys \in Seq(SerialAttempt)
  <2>1. DOMAIN ys = Attempts
    BY DEF Marked
  <2>2. ys \in [Attempts -> SerialAttempt]
    BY <1>5, <2>1 DEF Marked
  <2> QED BY ONLY <1>6, <2>1, <2>2
<1>8. \A a \in Attempts : ys[a].state \in Live => serial.attempts[a].state \in Live
  BY <1>3, <1>4, <1>5
<1>9. Rewritten(serial.attempts, ys)
  BY <1>5, <1>7, <1>8 DEF Rewritten, Attempts
<1>10. \A a \in Attempts : Runs(serial.attempts, host', a) => Runs(serial.attempts, host, a) /\ ys[a].state \in Live
  <2> SUFFICES ASSUME NEW a \in Attempts, Runs(serial.attempts, host', a)
               PROVE  Runs(serial.attempts, host, a) /\ ys[a].state \in Live
    OBVIOUS
  <2>1. Runs(serial.attempts, host, a) /\ serial.attempts[a].state \in Live /\ (a \in set => a \in survivors)
    BY <1>1, <1>3
  <2>2. a \in marked => a \in survivors
    BY <2>1
  <2>3. "unknown" \in Live
    BY DEF Live
  <2> QED BY <1>5, <2>1, <2>2, <2>3
<1>11. NoneStarts(serial.attempts, host, ys, host')
  BY <1>10 DEF NoneStarts, Attempts
<1>12. Calm
  BY StoppedHost DEF Calm, Ran
<1> QED BY <1>1, <1>2, <1>9, <1>11, <1>12

LEMMA CancelObserveKeeps == ASSUME SerialInv, CancelObserve PROVE SerialInv' /\ SerialMoves
<1> DEFINE set == {a \in Attempts : serial.attempts[a].state # "cancelled"}
<1>1. PICK survivors \in SUBSET Running :
          /\ host' = Stopped(set, survivors)
          /\ \/ serial' = [serial EXCEPT
                   !.attempts = [a \in Attempts |->
                       [serial.attempts[a] EXCEPT !.state = IF a \in survivors THEN "unknown" ELSE "cancelled"]],
                   !.tasks = [t \in Tasks |-> IF Of(t) # {} THEN "cancelled" ELSE serial.tasks[t]]]
             \/ serial' = serial
  BY DEF CancelObserve, Commits, Committed, StopsBefore
<1>2. UNCHANGED <<approved, gateVars>> /\ serial \in SerialRow
  BY DEF CancelObserve, SerialInv
<1>3. PICK ys : ys = [a \in Attempts |-> IF a \in Attempts
                    THEN [serial.attempts[a] EXCEPT !.state = IF a \in survivors THEN "unknown" ELSE "cancelled"]
                    ELSE serial.attempts[a]]
  OBVIOUS
<1>4. /\ Hosted(host') /\ Watched(serial.attempts, host') /\ Calm
      /\ Rewritten(serial.attempts, ys) /\ NoneStarts(serial.attempts, host, ys, host')
  <2>1. "cancelled" \in AttemptStates /\ "cancelled" \notin Live
    BY DEF AttemptStates, Live
  <2>2. Attempts \subseteq {a \in Attempts : a \in set \/ serial.attempts[a].state \notin Live}
    BY <2>1
  <2>3. host' = Stopped(set, survivors) /\ set \in SUBSET Attempts
    BY <1>1
  <2> HIDE DEF set
  <2>4. PICK marked \in SUBSET Attempts : marked = Attempts
    OBVIOUS
  <2>5. PICK over \in AttemptStates : over = "cancelled"
    BY <2>1
  <2>6. ys = Marked(marked, survivors, over)
    BY <1>3, <2>4, <2>5 DEF Marked
  <2>7. (\A a \in marked : a \in set \/ serial.attempts[a].state \notin Live) /\ over \notin Live
    BY <2>1, <2>2, <2>4, <2>5
  <2>8. survivors \in SUBSET Running
    BY <1>1
  <2> QED BY ONLY SerialInv, <2>3, <2>4, <2>5, <2>6, <2>7, <2>8, StopsKeep
<1>5. CASE serial' = serial
  BY <1>2, <1>4, <1>5, RowKept, SerialKept, SameMoves DEF SerialInv
<1>6. CASE serial' # serial
  <2>1. PICK ts : ts = [t \in Tasks |-> IF Of(t) # {} THEN "cancelled" ELSE serial.tasks[t]]
    OBVIOUS
  <2>2. ys = [a \in Attempts |->
                [serial.attempts[a] EXCEPT !.state = IF a \in survivors THEN "unknown" ELSE "cancelled"]]
    BY <1>3
  <2>3. serial' = [serial EXCEPT !.attempts = ys, !.tasks = ts]
    BY <1>1, <1>6, <2>1, <2>2
  <2>4. serial' = [serial EXCEPT !.attempts = ys, !.tasks = ts, !.paused = serial.paused, !.cancelled = serial.cancelled]
    BY <1>2, <2>3 DEF SerialRow
  <2>5. ts \in [Tasks -> TaskStates] /\ serial.paused \in BOOLEAN /\ serial.cancelled \in BOOLEAN
    BY <1>2, <2>1 DEF SerialRow, TaskStates
  <2>6. \A t \in Tasks : ts[t] # "none" => Of(t) # {}
    BY <2>1, EnqueuedHas
  <2> QED BY <1>2, <1>4, <2>4, <2>5, <2>6, RewriteCommits
<1> QED BY <1>5, <1>6

LEMMA ObserveInvalidationsKeeps == ASSUME SerialInv, ObserveInvalidations PROVE SerialInv' /\ SerialMoves
<1> DEFINE set == UNION {Of(t) : t \in Invalidating}
           isGone(survivors, t) == t \in Invalidating /\ Of(t) \intersect survivors = {}
<1>0. set \in SUBSET Attempts
  BY DEF Of
<1>1. PICK survivors \in SUBSET (Running \intersect set) :
          /\ host' = Stopped(set, survivors)
          /\ \/ serial' = [serial EXCEPT
                   !.attempts = [a \in Attempts |-> IF a \in set
                       THEN [serial.attempts[a] EXCEPT !.state = IF a \in survivors THEN "unknown" ELSE "invalidated"]
                       ELSE serial.attempts[a]],
                   !.tasks = [t \in Tasks |-> IF isGone(survivors, t) THEN "invalidated" ELSE serial.tasks[t]]]
             \/ serial' = serial
  BY DEF ObserveInvalidations, Commits, Committed, StopsBefore
<1>2. UNCHANGED <<approved, gateVars>> /\ serial \in SerialRow
  BY DEF ObserveInvalidations, SerialInv
<1>3. PICK ys : ys = [a \in Attempts |-> IF a \in set
                    THEN [serial.attempts[a] EXCEPT !.state = IF a \in survivors THEN "unknown" ELSE "invalidated"]
                    ELSE serial.attempts[a]]
  OBVIOUS
<1> HIDE DEF set
<1>4. /\ Hosted(host') /\ Watched(serial.attempts, host') /\ Calm
      /\ Rewritten(serial.attempts, ys) /\ NoneStarts(serial.attempts, host, ys, host')
  <2>1. "invalidated" \in AttemptStates /\ "invalidated" \notin Live
    BY DEF AttemptStates, Live
  <2>2. ys = Marked(set, survivors, "invalidated")
    BY <1>3 DEF Marked
  <2>3. survivors \in SUBSET Running
    BY <1>1
  <2> QED BY <1>0, <1>1, <2>1, <2>2, <2>3, StopsKeep
<1>5. CASE serial' = serial
  BY <1>2, <1>4, <1>5, RowKept, SerialKept, SameMoves DEF SerialInv
<1>6. CASE serial' # serial
  <2>1. PICK ts : ts = [t \in Tasks |-> IF isGone(survivors, t) THEN "invalidated" ELSE serial.tasks[t]]
    OBVIOUS
  <2> HIDE DEF isGone
  <2>3. serial' = [serial EXCEPT !.attempts = ys, !.tasks = ts]
    BY <1>1, <1>3, <1>6, <2>1
  <2>4. serial' = [serial EXCEPT !.attempts = ys, !.tasks = ts, !.paused = serial.paused, !.cancelled = serial.cancelled]
    BY <1>2, <2>3 DEF SerialRow
  <2>5. ts \in [Tasks -> TaskStates] /\ serial.paused \in BOOLEAN /\ serial.cancelled \in BOOLEAN
    BY <1>2, <2>1 DEF SerialRow, TaskStates
  <2>6. \A t \in Tasks : ts[t] # "none" => Of(t) # {}
    <3>1. \A t \in Tasks : ts[t] # "none" => serial.tasks[t] # "none"
      BY <2>1 DEF isGone, Invalidating
    <3> QED BY <3>1, EnqueuedHas
  <2> QED BY <1>2, <1>4, <2>4, <2>5, <2>6, RewriteCommits
<1> QED BY <1>5, <1>6

LEMMA InvalidateKeeps == ASSUME SerialInv, Invalidate PROVE SerialInv' /\ SerialMoves
<1>1. PICK ts \in SUBSET Enqueued : serial' = WithInvalidating(ts)
  BY DEF Invalidate, Commits, Committed, Valid
<1>2. UNCHANGED <<host, approved, gateVars>> /\ serial \in SerialRow
  BY DEF Invalidate, SerialInv
<1>3. PICK up : up = {a \in Attempts : serial.attempts[a].task \in ts}
  OBVIOUS
<1>4. PICK ys : ys = [a \in Attempts |-> IF a \in up THEN Fenced(a)
                                       ELSE serial.attempts[a]]
  OBVIOUS
<1>5. PICK us : us = [t \in Tasks |-> IF t \in ts THEN "invalidating" ELSE serial.tasks[t]]
  OBVIOUS
<1>6. ys = [a \in Attempts |-> IF serial.attempts[a].task \in ts THEN Fenced(a)
                              ELSE serial.attempts[a]]
  BY <1>3, <1>4
<1>7. serial' = [serial EXCEPT !.attempts = ys, !.tasks = us]
  BY <1>1, <1>5, <1>6 DEF WithInvalidating
<1>8. serial' = [serial EXCEPT !.attempts = ys, !.tasks = us, !.paused = serial.paused, !.cancelled = serial.cancelled]
  BY <1>2, <1>7 DEF SerialRow
<1>9. us \in [Tasks -> TaskStates] /\ serial.paused \in BOOLEAN /\ serial.cancelled \in BOOLEAN
  BY <1>2, <1>5 DEF SerialRow, TaskStates
<1>10. \A t \in Tasks : us[t] # "none" => Of(t) # {}
  BY <1>5, EnqueuedHas DEF Enqueued
<1>11. up \in SUBSET Attempts
  BY <1>3
<1>12. Rewritten(serial.attempts, ys) /\ NoneStarts(serial.attempts, host, ys, host') /\ Hosted(host')
  BY <1>2, <1>4, <1>11, FencesRise
<1> QED BY <1>2, <1>8, <1>9, <1>10, <1>12, RewriteCommits

LEMMA RecheckKeeps == ASSUME SerialInv, Recheck PROVE SerialInv' /\ SerialMoves
<1>1. /\ serial' = [serial EXCEPT !.tasks["worker"] = "blocked"] /\ serial.tasks["worker"] = "completed"
      /\ UNCHANGED <<host, approved, gateVars>> /\ serial \in SerialRow
  BY DEF Recheck, Commits, Committed, SerialInv
<1>2. PICK ts : ts = [serial.tasks EXCEPT !["worker"] = "blocked"]
  OBVIOUS
<1>3. ts \in [Tasks -> TaskStates] /\ \A t \in Tasks : ts[t] # "none" => serial.tasks[t] # "none"
  BY <1>1, <1>2 DEF SerialRow, TaskStates, Tasks
<1>4. serial' \in SerialRow /\ serial'.attempts = serial.attempts /\ serial'.tasks = ts
  BY <1>1, <1>2, <1>3 DEF SerialRow
<1>5. Covered(serial.attempts, ts)
  BY <1>3 DEF SerialInv, Covered
<1> QED BY <1>1, <1>4, <1>5, SerialKept, SameMoves DEF SerialInv

-----------------------------------------------------------------------------
(* Launching and observing start from the row to which a due check was added. *)
RowHolds(value) ==
    /\ value \in SerialRow /\ Numbered(value.attempts) /\ Covered(value.attempts, value.tasks)
    /\ Watched(value.attempts, host)

LEMMA CheckIsAdded ==
    ASSUME SerialInv
    PROVE  /\ RowHolds(WithCheck)
           /\ \/ WithCheck = serial
              \/ \E x \in SerialAttempt : /\ WithCheck.attempts = Append(serial.attempts, x) /\ x.state = "queued"
                                         /\ serial.tasks["worker"] = "candidate_ready"
                                         /\ Joins(serial.attempts, host, x) /\ x.stage = "check"
<1>1. CASE WithCheck = serial
  BY <1>1 DEF RowHolds, SerialInv
<1>2. CASE WithCheck # serial
  <2>1. /\ serial.tasks["worker"] = "candidate_ready" /\ Unused # {} /\ serial \in SerialRow
        /\ WithCheck = [serial EXCEPT !.tasks["worker"] = "checking",
              !.attempts = Append(@, Attempt("worker", "check", @[FirstAttempt("worker")].fence))]
    BY <1>2 DEF WithCheck, SerialInv
  <2>2. PICK f \in Nat : f = serial.attempts[FirstAttempt("worker")].fence
    <3>1. "worker" \in Tasks /\ Of("worker") \in SUBSET Attempts
      BY DEF Tasks, Of
    <3>2. Of("worker") # {}
      BY <2>1, <3>1, EnqueuedHas
    <3>3. FirstAttempt("worker") \in Of("worker")
      BY <3>1, <3>2, FirstIn DEF FirstAttempt
    <3>4. serial.attempts[FirstAttempt("worker")] \in SerialAttempt
      BY <3>1, <3>3 DEF SerialInv, Numbered, Attempts
    <3> QED BY <3>4 DEF SerialAttempt
  <2>3. PICK x : x = Attempt("worker", "check", f)
    OBVIOUS
  <2>4. Joins(serial.attempts, host, x) /\ x.task = "worker" /\ x.stage = "check"
    BY <2>1, <2>2, <2>3, AttemptJoins DEF Tasks, Attempt
  <2>5. WithCheck = [serial EXCEPT !.tasks["worker"] = "checking", !.attempts = Append(serial.attempts, x)]
    BY <2>1, <2>2, <2>3 DEF SerialRow
  <2>6. Numbered(Append(serial.attempts, x)) /\ Watched(Append(serial.attempts, x), host)
    BY <2>4, JoinKeeps DEF SerialInv
  <2>7. PICK ts : ts = [serial.tasks EXCEPT !["worker"] = "checking"]
    OBVIOUS
  <2>8. ts \in [Tasks -> TaskStates] /\ \A t \in Tasks : ts[t] # "none" => serial.tasks[t] # "none"
    BY <2>1, <2>7 DEF SerialRow, TaskStates, Tasks
  <2>9. PICK ys : ys = Append(serial.attempts, x)
    OBVIOUS
  <2>10. Covered(ys, ts)
    BY <2>4, <2>8, <2>9, JoinCovers DEF SerialInv
  <2>11. WithCheck = [serial EXCEPT !.tasks = ts, !.attempts = ys]
    BY <2>5, <2>7, <2>9
  <2>12. WithCheck \in SerialRow /\ WithCheck.attempts = ys /\ WithCheck.tasks = ts
    <3>1. ys \in Seq(SerialAttempt)
      BY <2>6, <2>9 DEF Numbered
    <3> QED BY ONLY <2>1, <2>8, <2>11, <3>1 DEF SerialRow
  <2>13. RowHolds(WithCheck)
    BY <2>6, <2>9, <2>10, <2>12 DEF RowHolds
  <2> QED BY <2>1, <2>4, <2>9, <2>12, <2>13 DEF Joins
<1> QED BY <1>1, <1>2

LEMMA CurrentIsFirst ==
    ASSUME NEW value, Numbered(value.attempts), Current(value) # 0
    PROVE  /\ Current(value) \in DOMAIN value.attempts /\ value.attempts[Current(value)].state \in Live
           /\ \A b \in DOMAIN value.attempts : value.attempts[b].state \in Live => Current(value) <= b
<1> DEFINE live == {a \in DOMAIN value.attempts : value.attempts[a].state \in {"queued", "running", "unknown"}}
<1>1. live # {} /\ Current(value) = CHOOSE a \in live : \A b \in live : a <= b
  BY DEF Current
<1>2. live \in SUBSET Nat
  BY DEF Numbered
<1> HIDE DEF live
<1>3. \E a \in live : \A b \in live : a <= b
  BY <1>1, <1>2, MinOfNat
<1>4. Current(value) \in live /\ \A b \in live : Current(value) <= b
  BY <1>1, <1>3
<1> QED BY <1>4 DEF live, Live

(* The attempt gets another state. *)
Narrower(xs, h, g, a, st) ==
    \A b \in DOMAIN xs : Runs(xs, g, b) => Runs(xs, h, b) /\ (b = a => st \in Live)

LEMMA AttemptGoes ==
    ASSUME NEW value, value \in SerialRow, Numbered(value.attempts), Covered(value.attempts, value.tasks),
           NEW a \in DOMAIN value.attempts, NEW st \in AttemptStates,
           NEW h, NEW g, Watched(value.attempts, h), st \in Live => value.attempts[a].state \in Live,
           Narrower(value.attempts, h, g, a, st),
           NEW next, next = [value EXCEPT !.attempts[a].state = st]
    PROVE  /\ next \in SerialRow /\ Numbered(next.attempts) /\ Covered(next.attempts, next.tasks)
           /\ Watched(next.attempts, g)
<1>1. PICK r \in SerialAttempt : r = value.attempts[a]
  BY DEF Numbered
<1>2. PICK q : q = [r EXCEPT !.state = st]
  OBVIOUS
<1>3. q \in SerialAttempt /\ q.id = r.id /\ q.task = r.task /\ q.stage = r.stage /\ q.state = st
  BY <1>2 DEF SerialAttempt
<1>4. PICK ys : ys = [value.attempts EXCEPT ![a] = q]
  OBVIOUS
<1>5. next = [value EXCEPT !.attempts = ys]
  BY <1>1, <1>2, <1>4
<1>6. /\ DOMAIN ys = DOMAIN value.attempts /\ ys \in Seq(SerialAttempt)
      /\ \A b \in DOMAIN value.attempts : ys[b] = IF b = a THEN q ELSE value.attempts[b]
  BY <1>3, <1>4 DEF Numbered
<1>7. Rewritten(value.attempts, ys)
  BY <1>1, <1>3, <1>6 DEF Rewritten
<1>8. NoneStarts(value.attempts, h, ys, g)
  BY <1>3, <1>6 DEF NoneStarts, Watched, Narrower
<1>9. Numbered(ys) /\ Watched(ys, g)
  BY <1>7, <1>8, RewriteKeeps
<1>10. Covered(ys, value.tasks)
  BY <1>7, RewriteCovers DEF Covered
<1>11. next \in SerialRow /\ next.attempts = ys /\ next.tasks = value.tasks
  BY ONLY <1>5, <1>6, value \in SerialRow DEF SerialRow
<1> QED BY <1>9, <1>10, <1>11

LEMMA OneRewritten ==
    ASSUME NEW value, value \in SerialRow, Numbered(value.attempts), NEW a \in DOMAIN value.attempts,
           NEW st \in AttemptStates, st \in Live => value.attempts[a].state \in Live
    PROVE  /\ Rewritten(value.attempts, [value EXCEPT !.attempts[a].state = st].attempts)
           /\ [value EXCEPT !.attempts[a].state = st].attempts[a].state = st
<1>1. PICK r \in SerialAttempt : r = value.attempts[a]
  BY DEF Numbered
<1>2. PICK q : q = [r EXCEPT !.state = st]
  OBVIOUS
<1>3. q \in SerialAttempt /\ q.id = r.id /\ q.task = r.task /\ q.stage = r.stage /\ q.state = st
  BY <1>2 DEF SerialAttempt
<1>4. PICK ys : ys = [value.attempts EXCEPT ![a] = q]
  OBVIOUS
<1>5. [value EXCEPT !.attempts[a].state = st].attempts = ys
  BY <1>1, <1>2, <1>4 DEF SerialRow
<1>6. /\ DOMAIN ys = DOMAIN value.attempts /\ ys \in Seq(SerialAttempt)
      /\ \A b \in DOMAIN value.attempts : ys[b] = IF b = a THEN q ELSE value.attempts[b]
  BY <1>3, <1>4 DEF Numbered
<1> QED BY <1>1, <1>3, <1>5, <1>6 DEF Rewritten

LEMMA CheckGrows ==
    ASSUME SerialInv, NEW zs, Rewritten(WithCheck.attempts, zs)
    PROVE  Grows(serial.attempts, zs)
<1>1. CASE WithCheck = serial
  BY <1>1 DEF Rewritten, Grows
<1>2. CASE \E x \in SerialAttempt : /\ WithCheck.attempts = Append(serial.attempts, x)
                                   /\ Joins(serial.attempts, host, x) /\ x.stage = "check"
  BY <1>2, RewriteSame, JoinGrows
<1> QED BY <1>1, <1>2, CheckIsAdded

LEMMA Prefix ==
    ASSUME SerialInv, NEW value, NEW g, Watched(value.attempts, g),
           value = serial \/ \E x \in SerialAttempt : value.attempts = Append(serial.attempts, x) /\ x.state = "queued"
    PROVE  Watched(serial.attempts, g)
<1>1. serial.attempts \in Seq(SerialAttempt)
  BY DEF SerialInv, Numbered
<1> QED BY <1>1, JoinShrinks

LEMMA LaunchKeeps == ASSUME SerialInv, Launch PROVE SerialInv' /\ SerialMoves
<1>1. PICK value : value = WithCheck
  OBVIOUS
<1>2. PICK a : a = Current(value)
  OBVIOUS
<1>3. PICK attempt : attempt = value.attempts[a]
  OBVIOUS
<1> DEFINE goes(st) == [value EXCEPT !.attempts[a].state = st]
<1>4. /\ a # 0 /\ attempt.state = "queued" /\ UNCHANGED <<approved, gateVars>>
      /\ \/ /\ MayStart(attempt)
            /\ host' = Started(attempt)
            /\ \/ serial' = goes(IF host'[attempt.id].state = "running" THEN "running" ELSE "unknown")
               \/ serial' = serial /\ stops' = stops + 1
         \/ /\ ~MayStart(attempt)
            /\ host' = Refused(attempt)
            /\ serial' = goes("blocked")
         \/ /\ host[attempt.id].state = "absent" /\ serial' = serial /\ stops' = stops + 1
            /\ \E s \in {"workspace", "prepared"} : host' = [host EXCEPT ![attempt.id].state = s]
  BY <1>1, <1>2, <1>3 DEF Launch, Commits, Committed, StopsBefore
<1>5. /\ value \in SerialRow /\ Numbered(value.attempts) /\ Covered(value.attempts, value.tasks)
      /\ Watched(value.attempts, host)
      /\ \/ value = serial
         \/ \E x \in SerialAttempt : /\ value.attempts = Append(serial.attempts, x) /\ x.state = "queued"
                                    /\ serial.tasks["worker"] = "candidate_ready" /\ x.stage = "check"
  BY <1>1, CheckIsAdded DEF RowHolds
<1>6. /\ a \in DOMAIN value.attempts /\ value.attempts[a].state \in Live
      /\ \A b \in DOMAIN value.attempts : value.attempts[b].state \in Live => a <= b
  BY <1>2, <1>4, <1>5, CurrentIsFirst
<1>7. attempt \in SerialAttempt
  BY <1>3, <1>5, <1>6 DEF Numbered
<1>8. PICK i \in Ids : i = attempt.id
  BY <1>7 DEF SerialAttempt
<1>9. PICK p \in Process : p = host[i]
  BY DEF SerialInv, Hosted
<1>10. /\ Hosted(host) /\ approved \in Nat
       /\ \A b \in DOMAIN value.attempts : value.attempts[b].id \in Ids /\ (b # a => value.attempts[b].id # i)
  <2>1. \A b \in DOMAIN value.attempts : value.attempts[b] \in SerialAttempt
    BY <1>5 DEF Numbered
  <2>2. \A b \in DOMAIN value.attempts : value.attempts[b].id \in Ids
    BY <2>1 DEF SerialAttempt
  <2> QED BY <1>3, <1>5, <1>6, <1>8, <2>2 DEF Numbered, SerialInv
<1>11. CASE MayStart(attempt) /\ host' = Started(attempt)
  <2>1. PICK q : q = [p EXCEPT !.stage = attempt.stage, !.fence = attempt.fence, !.enabled = TRUE, !.activated = TRUE,
                             !.state = IF p.activated THEN @ ELSE "running"]
    OBVIOUS
  <2>2. host' = [host EXCEPT ![i] = q]
    BY <1>8, <1>9, <1>10, <1>11, <2>1 DEF Started, Hosted
  <2>3. q \in Process /\ q.activated
    BY <1>7, <1>9, <2>1 DEF Process, HostStates, SerialAttempt
  <2>4. Hosted(host') /\ host'[i] = q /\ \A j \in Ids : j # i => host'[j] = host[j]
    BY <1>10, <2>2, <2>3 DEF Hosted
  <2>5. \A b \in DOMAIN value.attempts : b # a => (Runs(value.attempts, host', b) => Runs(value.attempts, host, b))
    BY <1>10, <2>4 DEF Runs
  <2>6. Watched(value.attempts, host')
    BY <1>5, <1>6, <2>5, FirstStarts
  <2>s. host'[i].stage = attempt.stage
    BY <1>9, <2>1, <2>4 DEF Process
  <2>7. CASE serial' = serial /\ stops' = stops + 1
    <3>1. Watched(serial.attempts, host')
      BY <1>5, <2>6, Prefix
    <3>2. SerialInv'
      BY <1>4, <1>10, <2>4, <2>7, <3>1, RowKept, SerialKept
    <3>3. Grows(serial.attempts, serial'.attempts)
      BY <2>7, RewriteSame DEF Rewritten, Grows
    <3>4. Starts(i)
      <4>1. \A j \in Ids : j # i /\ host'[j].state = "running" => Ran(j)
        BY <2>4 DEF Ran
      <4>2. CASE a \in DOMAIN serial.attempts
        <5>1. serial.attempts[a] = attempt
          BY <1>3, <1>5, <4>2, AppendKeeps DEF SerialInv, Numbered
        <5> QED BY <1>8, <2>4, <2>s, <2>7, <4>1, <4>2, <5>1 DEF Starts
      <4>3. CASE a \notin DOMAIN serial.attempts
        <5>1. serial.tasks["worker"] = "candidate_ready" /\ attempt.stage = "check"
          BY <1>3, <1>5, <1>6, <4>3, AppendKeeps DEF SerialInv, Numbered
        <5>2. \A b \in DOMAIN serial.attempts : serial.attempts[b].id # i
          <6>1. \A b \in DOMAIN serial.attempts : b # a /\ b \in DOMAIN value.attempts /\ value.attempts[b] = serial.attempts[b]
            BY <1>5, <4>3, AppendKeeps DEF SerialInv, Numbered
          <6> QED BY <1>10, <6>1
        <5> QED BY <2>4, <2>s, <2>7, <4>1, <5>1, <5>2 DEF Starts
      <4> QED BY <4>2, <4>3
    <3> QED BY <3>2, <3>3, <3>4 DEF SerialMoves
  <2>8. CASE ~(serial' = serial /\ stops' = stops + 1)
    <3>1. PICK st \in AttemptStates : serial' = goes(st) /\ st \in Live
      <4>1. {"running", "unknown"} \subseteq AttemptStates \intersect Live
        BY DEF AttemptStates, Live
      <4> QED BY <1>4, <1>11, <2>8, <4>1
    <3>2. /\ serial' \in SerialRow /\ Numbered(serial'.attempts) /\ Covered(serial'.attempts, serial'.tasks)
          /\ Watched(serial'.attempts, host')
      <4>1. Narrower(value.attempts, host', host', a, st)
        BY <3>1 DEF Narrower
      <4> QED BY <1>5, <1>6, <2>6, <3>1, <4>1, AttemptGoes
    <3>r. Rewritten(value.attempts, serial'.attempts)
      BY <1>5, <1>6, <3>1, OneRewritten
    <3>3. Grows(serial.attempts, serial'.attempts)
      BY <1>1, <3>r, CheckGrows
    <3>4. Starts(i)
      <4>1. \A j \in Ids : j # i /\ host'[j].state = "running" => Ran(j)
        BY <2>4 DEF Ran
      <4>2. a \in DOMAIN serial'.attempts /\ serial'.attempts[a].id = i /\ serial'.attempts[a].stage = host'[i].stage
        BY <1>3, <1>6, <1>8, <2>s, <3>r DEF Rewritten
      <4> QED BY <4>1, <4>2 DEF Starts
    <3>5. SerialInv'
      BY <1>4, <1>10, <2>4, <3>2, SerialKept
    <3> QED BY <3>3, <3>4, <3>5 DEF SerialMoves
  <2> QED BY <2>7, <2>8
<1>12. CASE ~MayStart(attempt) /\ host' = Refused(attempt) /\ serial' = goes("blocked")
  <2>1. ~p.activated
    BY <1>8, <1>9, <1>12 DEF MayStart
  <2>2. p.state # "running"
    BY <1>9, <1>10, <2>1 DEF Hosted
  <2>3. PICK f \in Nat : f = IF p.fence > attempt.fence THEN p.fence ELSE attempt.fence
    BY <1>7, <1>9 DEF Process, SerialAttempt
  <2>4. PICK q : q = [p EXCEPT !.state = IF p.state = "absent" THEN "prepared" ELSE p.state, !.fence = f]
    OBVIOUS
  <2>5. q \in Process /\ q.state # "running"
    BY <1>9, <2>2, <2>3, <2>4 DEF Process, HostStates
  <2>6. host' = host \/ host' = [host EXCEPT ![i] = q]
    BY <1>8, <1>9, <1>10, <1>12, <2>3, <2>4 DEF Refused, Hosted, Process
  <2>7. Hosted(host') /\ host'[i].state # "running" /\ \A j \in Ids : j # i => host'[j] = host[j]
    <3>1. CASE host' = host
      BY <1>9, <1>10, <2>2, <3>1
    <3>2. CASE host' = [host EXCEPT ![i] = q]
      BY <1>10, <2>5, <3>2 DEF Hosted
    <3> QED BY <2>6, <3>1, <3>2
  <2>8. \A b \in DOMAIN value.attempts : Runs(value.attempts, host', b) => Runs(value.attempts, host, b) /\ b # a
    BY <1>3, <1>8, <1>10, <2>7 DEF Runs
  <2>9. PICK st \in AttemptStates : st = "blocked" /\ st \notin Live
    BY DEF AttemptStates, Live
  <2>10. /\ serial' \in SerialRow /\ Numbered(serial'.attempts) /\ Covered(serial'.attempts, serial'.tasks)
         /\ Watched(serial'.attempts, host')
    <3>1. serial' = [value EXCEPT !.attempts[a].state = st]
      BY <1>12, <2>9
    <3>2. Narrower(value.attempts, host, host', a, st)
      BY <2>8 DEF Narrower
    <3>3. st \in Live => value.attempts[a].state \in Live
      BY <2>9
    <3> QED BY <1>5, <1>6, <2>9, <3>1, <3>2, <3>3, AttemptGoes
  <2>11. Calm
    BY <2>7 DEF Calm, Ran
  <2>12. Grows(serial.attempts, serial'.attempts)
    <3>1. serial' = [value EXCEPT !.attempts[a].state = st]
      BY <1>12, <2>9
    <3>2. Rewritten(value.attempts, serial'.attempts)
      BY <1>5, <1>6, <2>9, <3>1, OneRewritten
    <3> QED BY <1>1, <3>2, CheckGrows
  <2>13. SerialInv'
    BY <1>4, <1>10, <2>7, <2>10, SerialKept
  <2> QED BY <2>11, <2>12, <2>13 DEF SerialMoves
<1>13. CASE /\ host[attempt.id].state = "absent" /\ serial' = serial
            /\ \E s \in {"workspace", "prepared"} : host' = [host EXCEPT ![attempt.id].state = s]
  <2>1. PICK s \in {"workspace", "prepared"} : host' = [host EXCEPT ![i].state = s]
    BY <1>8, <1>13
  <2>2. PICK q : q = [p EXCEPT !.state = s]
    OBVIOUS
  <2>3. q \in Process /\ q.state # "running"
    BY <1>9, <2>2 DEF Process, HostStates
  <2>4. host' = [host EXCEPT ![i] = q]
    BY <1>9, <2>1, <2>2
  <2>5. Hosted(host') /\ host'[i] = q /\ \A j \in Ids : j # i => host'[j] = host[j]
    BY <1>10, <2>3, <2>4 DEF Hosted
  <2>6. \A b \in DOMAIN value.attempts : Runs(value.attempts, host', b) => Runs(value.attempts, host, b)
    BY <1>10, <2>3, <2>5 DEF Runs
  <2>7. Watched(value.attempts, host')
    BY <1>5, <2>6 DEF Watched
  <2>8. Watched(serial.attempts, host')
    BY <1>5, <2>7, Prefix
  <2>9. Calm
    BY <2>3, <2>5 DEF Calm, Ran
  <2>10. SerialInv'
    BY <1>4, <1>10, <1>13, <2>5, <2>8, RowKept, SerialKept
  <2> QED BY <1>13, <2>9, <2>10, SameMoves
<1> QED BY <1>4, <1>11, <1>12, <1>13

LEMMA ObserveLivingKeeps == ASSUME SerialInv, ObserveLiving PROVE SerialInv' /\ SerialMoves
<1>1. PICK value : value = WithCheck
  OBVIOUS
<1>2. PICK a : a = Current(value)
  OBVIOUS
<1>3. PICK st \in {"running", "unknown"} : serial' = [value EXCEPT !.attempts[a].state = st]
  BY <1>1, <1>2 DEF ObserveLiving, Commits, Committed
<1>4. a # 0 /\ UNCHANGED <<host, approved, gateVars>> /\ Hosted(host) /\ approved \in Nat
  BY <1>1, <1>2 DEF ObserveLiving, SerialInv
<1>5. /\ value \in SerialRow /\ Numbered(value.attempts) /\ Covered(value.attempts, value.tasks)
      /\ Watched(value.attempts, host)
  BY <1>1, CheckIsAdded DEF RowHolds
<1>6. a \in DOMAIN value.attempts /\ value.attempts[a].state \in Live
  BY <1>2, <1>4, <1>5, CurrentIsFirst
<1>7. st \in AttemptStates /\ st \in Live
  BY <1>3 DEF AttemptStates, Live
<1>8. /\ serial' \in SerialRow /\ Numbered(serial'.attempts) /\ Covered(serial'.attempts, serial'.tasks)
      /\ Watched(serial'.attempts, host)
  <2>1. Narrower(value.attempts, host, host, a, st)
    BY <1>7 DEF Narrower
  <2> QED BY <1>3, <1>5, <1>6, <1>7, <2>1, AttemptGoes
<1>9. SerialMoves
  <2>1. Calm
    BY <1>4 DEF Calm, Ran
  <2>2. Rewritten(value.attempts, serial'.attempts)
    BY <1>3, <1>5, <1>6, <1>7, OneRewritten
  <2> QED BY <1>1, <2>1, <2>2, CheckGrows DEF SerialMoves
<1> QED BY <1>4, <1>8, <1>9, SerialKept

-----------------------------------------------------------------------------
(* The attempt advance is at ended: it is over, and its process does not run. *)
LEMMA EndKeeps ==
    ASSUME SerialInv, UNCHANGED <<host, approved>>, UNCHANGED gateVars \/ GateMoves,
           NEW a \in Attempts, host[serial.attempts[a].id].state = "exited",
           NEW st \in AttemptStates, st \notin Live, NEW ts \in [Tasks -> TaskStates],
           NEW candidate \in Nat, NEW check \in Nat,
           \A t \in Tasks : ts[t] # "none" => Of(t) # {},
           serial' = [serial EXCEPT !.attempts[a].state = st, !.tasks = ts, !.candidate = candidate, !.check = check]
    PROVE  SerialInv' /\ SerialMoves /\ serial'.attempts[a].state \notin Live
<1>0. serial \in SerialRow /\ Hosted(host) /\ approved \in Nat
  BY DEF SerialInv
<1>1. PICK next : next = [serial EXCEPT !.attempts[a].state = st]
  OBVIOUS
<1>2. /\ next \in SerialRow /\ Numbered(next.attempts) /\ Covered(next.attempts, next.tasks)
      /\ Watched(next.attempts, host)
  <2>1. \A b \in DOMAIN serial.attempts : Runs(serial.attempts, host, b) => b # a
    BY DEF Runs
  <2>2. Narrower(serial.attempts, host, host, a, st)
    BY <2>1 DEF Narrower
  <2>3. a \in DOMAIN serial.attempts /\ Numbered(serial.attempts) /\ Covered(serial.attempts, serial.tasks)
        /\ Watched(serial.attempts, host) /\ (st \in Live => serial.attempts[a].state \in Live)
    BY DEF SerialInv, Attempts
  <2> QED BY ONLY <1>0, <1>1, <2>2, <2>3, st \in AttemptStates, AttemptGoes
<1>3. serial' = [next EXCEPT !.tasks = ts, !.candidate = candidate, !.check = check]
  BY <1>1
<1>4. serial' \in SerialRow /\ serial'.attempts = next.attempts /\ serial'.tasks = ts
  BY ONLY <1>2, <1>3, ts \in [Tasks -> TaskStates], candidate \in Nat, check \in Nat DEF SerialRow
<1>5. DOMAIN next.attempts = DOMAIN serial.attempts
      /\ \A b \in DOMAIN serial.attempts : next.attempts[b].task = serial.attempts[b].task
  <2>1. next.attempts = [serial.attempts EXCEPT ![a].state = st]
    BY <1>0, <1>1 DEF SerialRow
  <2>2. serial.attempts[a] \in SerialAttempt
    BY DEF SerialInv, Numbered, Attempts
  <2> QED BY <2>1, <2>2 DEF SerialAttempt
<1>6. Covered(next.attempts, ts)
  BY <1>5 DEF SerialInv, Covered, Of, Attempts
<1>7. SerialInv'
  BY <1>0, <1>2, <1>4, <1>6, SerialKept
<1>8. Rewritten(serial.attempts, next.attempts) /\ next.attempts[a].state = st
  BY <1>0, <1>1, OneRewritten DEF SerialInv, Attempts
<1> QED BY <1>4, <1>7, <1>8, RewriteMoves

LEMMA EndedAt ==
    ASSUME SerialInv, NEW stage, Ended(stage), NEW a, a = Current(WithCheck)
    PROVE  /\ a \in Attempts /\ host[serial.attempts[a].id].state = "exited" /\ serial.attempts[a].stage = stage
           /\ serial.attempts[a] \in SerialAttempt
           /\ Of("worker") # {} /\ (stage = "review" => Of("reviewer") # {})
<1>1. a \in Attempts /\ host[serial.attempts[a].id].state = "exited" /\ serial.attempts[a].stage = stage
  BY DEF Ended
<1>2. serial.attempts[a] \in SerialAttempt
  BY <1>1 DEF SerialInv, Numbered, Attempts
<1>3. serial.attempts[a].task \in Tasks /\ (stage = "review" <=> serial.attempts[a].task = "reviewer")
  BY <1>1, <1>2 DEF SerialInv, Numbered, Attempts, SerialAttempt
<1>4. Of("worker") # {}
  BY <1>1, <1>3 DEF Tasks, Of, SerialInv, Covered, Attempts
<1>5. stage = "review" => Of("reviewer") # {}
  BY <1>1, <1>3 DEF Of
<1> QED BY <1>1, <1>2, <1>4, <1>5

LEMMA WriterMoves == ASSUME SerialInv, ObserveWriter PROVE (UNCHANGED gateVars \/ GateMoves) /\ Len(candidates') \in Nat
<1>1. CASE UNCHANGED gateVars
  BY <1>1, IsSequence DEF SerialInv, GateInv, gateVars
<1>2. CASE ~UNCHANGED gateVars
  <2>1. AnyGateStep
    BY <1>2 DEF ObserveWriter, AnyGateStep
  <2>2. GateMoves
    BY <2>1, GateStepMoves DEF SerialInv
  <2>3. GateInv'
    BY <2>2, GateKeeps DEF SerialInv
  <2> QED BY <2>2, <2>3, IsSequence DEF GateInv
<1> QED BY <1>1, <1>2

(* A writer that was observed to have ended is over. *)
WriterEnds ==
    \E a \in Attempts : /\ serial.attempts[a].stage = "write" /\ serial.attempts[a].state \in Live
                        /\ serial'.attempts[a].state \notin Live

LEMMA ObserveWriterKeeps ==
    ASSUME SerialInv, ObserveWriter
    PROVE  SerialInv' /\ SerialMoves /\ (serial' # serial => WriterEnds)
<1>1. PICK a : a = Current(WithCheck)
  OBVIOUS
<1>2. PICK ok \in BOOLEAN : ok = Succeeded
  BY DEF Succeeded
<1>3. /\ Ended("write") /\ UNCHANGED <<host, approved>>
      /\ \/ /\ ~ok
            /\ serial' = [serial EXCEPT !.attempts[a].state = "failed", !.tasks["worker"] = "failed"]
         \/ /\ ok
            /\ serial' = [serial EXCEPT !.attempts[a].state = "completed", !.tasks["worker"] = "candidate_ready",
                                        !.candidate = Len(candidates')]
         \/ serial' = serial
  BY <1>1, <1>2 DEF ObserveWriter, Commits, Committed, StopsBefore
<1>4. (UNCHANGED gateVars \/ GateMoves) /\ Len(candidates') \in Nat
  BY WriterMoves
<1>5. /\ a \in Attempts /\ host[serial.attempts[a].id].state = "exited" /\ Of("worker") # {}
      /\ serial.attempts[a] \in SerialAttempt /\ serial \in SerialRow
  BY <1>1, <1>3, EndedAt DEF SerialInv
<1>6. CASE serial' = serial
  BY <1>3, <1>4, <1>6, RowKept, SerialKept, SameMoves DEF SerialInv
<1>7. CASE serial' # serial
  <2>1. PICK st \in AttemptStates : st = (IF ok THEN "completed" ELSE "failed") /\ st \notin Live
    BY DEF AttemptStates, Live
  <2>2. PICK ts : ts = [serial.tasks EXCEPT !["worker"] = IF ok THEN "candidate_ready" ELSE "failed"]
    OBVIOUS
  <2>3. ts \in [Tasks -> TaskStates] /\ \A t \in Tasks : ts[t] # "none" => serial.tasks[t] # "none" \/ t = "worker"
    BY <1>5, <2>2 DEF SerialRow, TaskStates, Tasks
  <2>4. \A t \in Tasks : ts[t] # "none" => Of(t) # {}
    BY <1>5, <2>3, EnqueuedHas
  <2>5. PICK c \in Nat : c = IF ok THEN Len(candidates') ELSE serial.candidate
    BY <1>4, <1>5 DEF SerialRow
  <2>6. PICK k \in Nat : k = serial.check
    BY <1>5 DEF SerialRow
  <2>7. serial' = [serial EXCEPT !.attempts[a].state = st, !.tasks = ts, !.candidate = c, !.check = k]
    BY <1>3, <1>5, <1>7, <2>1, <2>2, <2>5, <2>6 DEF SerialRow
  <2>8. SerialInv' /\ SerialMoves /\ serial'.attempts[a].state \notin Live
    BY <1>3, <1>4, <1>5, <2>1, <2>3, <2>4, <2>7, EndKeeps
  <2>9. serial.attempts[a].stage = "write" /\ serial.attempts[a].state \in Live
    BY <1>1, <1>3 DEF Ended, Live
  <2> QED BY <1>5, <2>8, <2>9 DEF WriterEnds
<1> QED BY <1>6, <1>7

(* The record under a key is there once it was saved. *)
LEMMA SavedIsThere ==
    ASSUME GateInv, GateInv', NEW r, SavesEvidence(r)
    PROVE  SavedAt(evidence', r.key) \in Nat
<1>0. /\ Len(evidence) \in Nat /\ DOMAIN evidence = 1 .. Len(evidence) /\ \E S : evidence \in Seq(S)
      /\ Len(evidence') \in Nat /\ DOMAIN evidence' = 1 .. Len(evidence')
  BY IsSequence DEF GateInv
<1>1. \E e \in DOMAIN evidence' : evidence'[e].key = r.key
  <2>1. CASE \E e \in DOMAIN evidence : evidence[e].key = r.key
    BY <2>1 DEF SavesEvidence, WithEvidence
  <2>2. CASE ~\E e \in DOMAIN evidence : evidence[e].key = r.key
    <3>1. evidence' = Append(evidence, r)
      BY <2>2 DEF SavesEvidence, WithEvidence
    <3>2. DOMAIN Append(evidence, r) = 1 .. Len(evidence) + 1 /\ Append(evidence, r)[Len(evidence) + 1] = r
      BY <1>0, Appended
    <3>3. Len(evidence) + 1 \in 1 .. Len(evidence) + 1
      BY <1>0
    <3> QED BY ONLY <3>1, <3>2, <3>3
  <2> QED BY <2>1, <2>2
<1> QED BY <1>0, <1>1 DEF SavedAt

LEMMA CheckMoves ==
    ASSUME SerialInv, ObserveCheck
    PROVE  GateMoves /\ SavedAt(evidence', serial.attempts[Current(WithCheck)].id) \in Nat
<1>1. PICK i : i = serial.attempts[Current(WithCheck)].id
  OBVIOUS
<1>2. PICK log : RecordCheck(serial.candidate, CHOOSE k \in CheckIds : TRUE, Succeeded, i, log)
  BY <1>1 DEF ObserveCheck
<1>3. PICK r : r = CheckRecord(serial.candidate, CHOOSE k \in CheckIds : TRUE, Succeeded, i, log)
  OBVIOUS
<1>4. r.kind = "check" /\ r.key = i /\ SavesEvidence(r) /\ reviewing' = reviewing
  BY <1>2, <1>3 DEF CheckRecord, RecordCheck
<1>5. GateMoves
  BY <1>4, SaveMoves
<1>6. GateInv /\ GateInv'
  BY <1>5, GateKeeps DEF SerialInv
<1> QED BY <1>1, <1>4, <1>5, <1>6, SavedIsThere

LEMMA ReviewMoves == ASSUME SerialInv, ObserveReview PROVE GateMoves
<1>1. PICK verdict, key, log :
         SavesEvidence(ReviewRecord(serial.candidate, CHOOSE r \in Reviewers : TRUE, {serial.check}, verdict, key, log))
  BY DEF ObserveReview
<1>2. PICK r : r = ReviewRecord(serial.candidate, CHOOSE v \in Reviewers : TRUE, {serial.check}, verdict, key, log)
  OBVIOUS
<1>3. SoundReview(r)
  BY <1>2, ReviewIsSound DEF SerialInv
<1>4. SavesEvidence(r) /\ reviewing' = reviewing
  BY <1>1, <1>2 DEF ObserveReview
<1> QED BY <1>3, <1>4, SaveMoves

LEMMA ObserveCheckKeeps == ASSUME SerialInv, ObserveCheck PROVE SerialInv' /\ SerialMoves
<1>1. PICK a : a = Current(WithCheck)
  OBVIOUS
<1>2. PICK passed, at : /\ passed = (Saved(evidence', serial.attempts[a].id).status = "passed")
                       /\ at = SavedAt(evidence', serial.attempts[a].id) /\ passed \in BOOLEAN
  OBVIOUS
<1>3. /\ Ended("check") /\ UNCHANGED <<host, approved>>
      /\ \/ serial' = [serial EXCEPT !.attempts[a].state = "completed", !.check = at,
                                 !.tasks["worker"] = IF passed THEN "awaiting_review" ELSE "blocked"]
         \/ serial' = serial
  BY <1>1, <1>2 DEF ObserveCheck, Commits, Committed, StopsBefore
<1>4. GateMoves /\ at \in Nat
  BY <1>1, <1>2, CheckMoves
<1>5. /\ a \in Attempts /\ host[serial.attempts[a].id].state = "exited" /\ Of("worker") # {}
      /\ serial.attempts[a] \in SerialAttempt /\ serial \in SerialRow
  BY <1>1, <1>3, EndedAt DEF SerialInv
<1>6. CASE serial' = serial
  BY <1>3, <1>4, <1>6, RowKept, SerialKept, SameMoves DEF SerialInv
<1>7. CASE serial' # serial
  <2>1. PICK st \in AttemptStates : st = "completed" /\ st \notin Live
    BY DEF AttemptStates, Live
  <2>2. PICK ts : ts = [serial.tasks EXCEPT !["worker"] = IF passed THEN "awaiting_review" ELSE "blocked"]
    OBVIOUS
  <2>3. ts \in [Tasks -> TaskStates] /\ \A t \in Tasks : ts[t] # "none" => serial.tasks[t] # "none" \/ t = "worker"
    BY <1>5, <2>2 DEF SerialRow, TaskStates, Tasks
  <2>4. \A t \in Tasks : ts[t] # "none" => Of(t) # {}
    BY <1>5, <2>3, EnqueuedHas
  <2>5. PICK c \in Nat : c = serial.candidate
    BY <1>5 DEF SerialRow
  <2>6. PICK k \in Nat : k = at
    BY <1>4
  <2>7. serial' = [serial EXCEPT !.attempts[a].state = st, !.tasks = ts, !.candidate = c, !.check = k]
    BY <1>3, <1>5, <1>7, <2>1, <2>2, <2>5, <2>6 DEF SerialRow
  <2>8. /\ UNCHANGED <<host, approved>> /\ (UNCHANGED gateVars \/ GateMoves) /\ st \notin Live
        /\ a \in Attempts /\ host[serial.attempts[a].id].state = "exited" /\ ts \in [Tasks -> TaskStates]
    BY <1>3, <1>4, <1>5, <2>1, <2>3
  <2> QED BY ONLY SerialInv, st \in AttemptStates, c \in Nat, k \in Nat, <2>4, <2>7, <2>8, EndKeeps
<1> QED BY <1>6, <1>7

LEMMA ObserveReviewKeeps == ASSUME SerialInv, ObserveReview PROVE SerialInv' /\ SerialMoves
<1>1. PICK a : a = Current(WithCheck)
  OBVIOUS
<1>2. PICK status : status = Saved(evidence', serial.attempts[a].id).status
  OBVIOUS
<1>3. PICK ts : ts = [t \in Tasks |->
                 IF t = "reviewer" THEN (IF status = "passed" THEN "completed" ELSE "blocked")
                 ELSE IF GateOf(evidence', Gone', serial.candidate, serial.bound["worker"]) THEN "completed"
                 ELSE serial.tasks[t]]
  OBVIOUS
<1>4. /\ Ended("review") /\ UNCHANGED <<host, approved>>
       /\ \/ serial' = [serial EXCEPT !.attempts[a].state = "completed", !.tasks = ts]
          \/ serial' = serial
  BY <1>1, <1>2, <1>3 DEF ObserveReview, Commits, Committed, StopsBefore
<1>5. GateMoves
  BY ReviewMoves
<1>6. /\ a \in Attempts /\ host[serial.attempts[a].id].state = "exited" /\ Of("worker") # {} /\ Of("reviewer") # {}
      /\ serial.attempts[a] \in SerialAttempt /\ serial \in SerialRow
  BY <1>1, <1>4, EndedAt DEF SerialInv
<1>7. CASE serial' = serial
  BY <1>5, <1>7, <1>4, RowKept, SerialKept, SameMoves DEF SerialInv
<1>8. CASE serial' # serial
  <2>1. PICK st \in AttemptStates : st = "completed" /\ st \notin Live
    BY DEF AttemptStates, Live
  <2>2. ts \in [Tasks -> TaskStates]
    BY <1>6, <1>3 DEF SerialRow, TaskStates
  <2>3. \A t \in Tasks : Of(t) # {}
    BY <1>6 DEF Tasks
  <2>4. PICK c \in Nat : c = serial.candidate
    BY <1>6 DEF SerialRow
  <2>5. PICK k \in Nat : k = serial.check
    BY <1>6 DEF SerialRow
  <2>6. serial' = [serial EXCEPT !.attempts[a].state = st, !.tasks = ts, !.candidate = c, !.check = k]
    BY <1>6, <1>8, <1>4, <2>1, <2>4, <2>5 DEF SerialRow
  <2> QED BY <1>5, <1>6, <1>4, <2>1, <2>2, <2>3, <2>6, EndKeeps
<1> QED BY <1>7, <1>8

-----------------------------------------------------------------------------
LEMMA WorldOfSerialKeeps ==
    ASSUME SerialInv,
           \/ \E i \in Ids : PermitExpires(i) \/ \E code \in ExitCodes : ProcessExits(i, code)
           \/ InputChanges \/ BecomesDenied \/ RecipeChanges \/ StoreChanges
    PROVE  SerialInv' /\ SerialMoves
<1>0. Hosted(host) /\ approved \in Nat /\ Watched(serial.attempts, host)
  BY DEF SerialInv
<1>1. CASE /\ UNCHANGED <<serial, host>> /\ approved' \in Nat /\ (UNCHANGED gateVars \/ GateMoves)
  BY <1>0, <1>1, RowKept, SerialKept, SameMoves
<1>2. CASE StoreChanges
  <2>1. AnyGateStep
    BY <1>2 DEF StoreChanges, AnyGateStep
  <2>2. GateMoves
    BY <2>1, GateStepMoves DEF SerialInv
  <2> QED BY <1>0, <1>1, <1>2, <2>2 DEF StoreChanges, hostVars
<1>3. ASSUME NEW i \in Ids, NEW code \in ExitCodes, ProcessExits(i, code) PROVE SerialInv' /\ SerialMoves
  <2>1. PICK p \in Process : p = host[i]
    BY <1>0 DEF Hosted
  <2>2. PICK q : q = [p EXCEPT !.state = "exited", !.code = code]
    OBVIOUS
  <2>3. q \in Process /\ q.state # "running"
    <3>1. code \in Nat
      BY DEF ExitCodes
    <3> QED BY <2>1, <2>2, <3>1 DEF Process, HostStates
  <2>4. host' = [host EXCEPT ![i] = q] /\ UNCHANGED <<serial, approved, gateVars>>
    BY <1>0, <1>3, <2>1, <2>2 DEF ProcessExits, Hosted
  <2>5. Hosted(host') /\ host'[i] = q /\ \A j \in Ids : j # i => host'[j] = host[j]
    BY <1>0, <2>3, <2>4 DEF Hosted
  <2>6. \A a \in Attempts : Runs(serial.attempts, host', a) => Runs(serial.attempts, host, a)
    <3> SUFFICES ASSUME NEW a \in Attempts, Runs(serial.attempts, host', a) PROVE Runs(serial.attempts, host, a)
      OBVIOUS
    <3>1. serial.attempts[a] \in SerialAttempt
      BY DEF SerialInv, Numbered, Attempts
    <3>2. serial.attempts[a].id \in Ids
      BY <3>1 DEF SerialAttempt
    <3> QED BY <2>3, <2>5, <3>2 DEF Runs
  <2>7. Watched(serial.attempts, host')
    BY <2>6, SameAttempts
  <2>8. Calm
    BY <2>3, <2>5 DEF Calm, Ran
  <2> QED BY <1>0, <2>4, <2>5, <2>7, <2>8, RowKept, SerialKept, SameMoves
<1>4. CASE InputChanges \/ BecomesDenied \/ RecipeChanges \/ \E i \in Ids : PermitExpires(i)
  BY <1>0, <1>1, <1>4 DEF InputChanges, BecomesDenied, RecipeChanges, PermitExpires
<1> QED BY <1>2, <1>3, <1>4

LEMMA SerialStarts == SerialInit => SerialInv
<1> SUFFICES ASSUME SerialInit PROVE SerialInv
  OBVIOUS
<1>1. GateInv /\ approved \in Nat
  BY GateStarts DEF SerialInit
<1>2. serial \in SerialRow /\ serial.attempts = << >> /\ \A t \in Tasks : serial.tasks[t] = "none"
  BY DEF SerialInit, SerialRow, TaskStates
<1>3. Numbered(serial.attempts) /\ Covered(serial.attempts, serial.tasks) /\ Watched(serial.attempts, host)
  BY <1>2 DEF Numbered, Covered, Watched
<1>4. NoProcess \in Process /\ NoProcess.state # "running"
  BY DEF NoProcess, Process, HostStates
<1>5. Hosted(host)
  BY <1>4 DEF SerialInit, Hosted
<1> QED BY <1>1, <1>2, <1>3, <1>5 DEF SerialInv

LEMMA SerialPreserved == SerialInv /\ [SerialNext]_serialVars => SerialInv' /\ SerialMoves
<1> SUFFICES ASSUME SerialInv, [SerialNext]_serialVars PROVE SerialInv' /\ SerialMoves
  OBVIOUS
<1>1. CASE UNCHANGED serialVars
  BY <1>1, GateStutters, SameMoves DEF serialVars, hostVars, SerialInv
<1>2. CASE \E t \in Tasks : Enqueue(t) \/ Retry(t)
  BY <1>2, EnqueueKeeps, RetryKeeps
<1>3. CASE \E action \in {"pause", "resume", "cancel"} : Control(action)
  BY <1>3, ControlKeeps
<1>4. CASE CancelObserve \/ ObserveInvalidations \/ Invalidate \/ Recheck
  BY <1>4, CancelObserveKeeps, ObserveInvalidationsKeeps, InvalidateKeeps, RecheckKeeps
<1>5. CASE Launch \/ ObserveLiving \/ ObserveWriter \/ ObserveCheck \/ ObserveReview
  BY <1>5, LaunchKeeps, ObserveLivingKeeps, ObserveWriterKeeps, ObserveCheckKeeps, ObserveReviewKeeps
<1>6. CASE \/ \E i \in Ids : PermitExpires(i) \/ \E code \in ExitCodes : ProcessExits(i, code)
           \/ InputChanges \/ BecomesDenied \/ RecipeChanges \/ StoreChanges
  BY <1>6, WorldOfSerialKeeps
<1> QED BY <1>1, <1>2, <1>3, <1>4, <1>5, <1>6 DEF SerialNext

LEMMA RunningIsOne ==
    ASSUME SerialInv
    PROVE  /\ \A a, b \in Running : a = b
           /\ \A a \in Running : serial.attempts[a].state \in Live
<1>1. Attempts \subseteq Nat
  BY DEF SerialInv, Numbered, Attempts
<1>2. \A a \in Running : /\ serial.attempts[a].state \in Live
                         /\ \A b \in Attempts : b < a => serial.attempts[b].state \notin Live
  BY DEF SerialInv, Watched, Running, Runs, Attempts
<1>3. \A a, b \in Running : a = b
  <2> SUFFICES ASSUME NEW a \in Running, NEW b \in Running, a < b PROVE FALSE
    BY <1>1 DEF Running
  <2>1. serial.attempts[a].state \in Live /\ a \in Attempts
    BY <1>2 DEF Running
  <2> QED BY <1>2, <2>1
<1> QED BY <1>2, <1>3

LEMMA OneRuns ==
    ASSUME SerialInv
    PROVE  Cardinality(Running) <= 1 /\ \A a \in Running : serial.attempts[a].state \in {"queued", "running", "unknown"}
<1>2. \A a \in Running : serial.attempts[a].state \in Live
  BY RunningIsOne
<1>3. \A a, b \in Running : a = b
  BY RunningIsOne
<1>4. Cardinality(Running) <= 1
  <2>1. CASE Running = {}
    BY <2>1, FS_EmptySet
  <2>2. CASE Running # {}
    <3>1. PICK a \in Running : Running = {a}
      BY <1>3, <2>2
    <3>2. Cardinality({a}) = 1
      BY FS_Singleton
    <3> QED BY <3>1, <3>2
  <2> QED BY <2>1, <2>2
<1> QED BY <1>2, <1>4 DEF Live

(* What a step does to the worker's task: only an accepted review completes it. *)
Completes ==
    serial.tasks["worker"] # "completed" /\ serial'.tasks["worker"] = "completed" =>
        GateOf(evidence', Gone', serial.candidate, serial.bound["worker"]) /\ ~serial.cancelled

(* Only an ended writer makes the worker fail or a candidate ready. *)
Idles ==
    serial'.tasks["worker"] \in {"none", "failed", "candidate_ready"} =>
        serial'.tasks["worker"] = serial.tasks["worker"] \/ WriterEnds

LEMMA OtherTasks ==
    ASSUME SerialInv, NEW value, value \in SerialRow,
           NEW a, NEW st, serial' = [value EXCEPT !.attempts[a].state = st]
    PROVE  serial'.tasks = value.tasks
  BY DEF SerialRow

LEMMA OnlyReviewCompletes == ASSUME SerialInv, SerialNext PROVE Completes /\ Idles
<1>0. serial \in SerialRow /\ "worker" \in Tasks /\ serial.tasks \in [Tasks -> TaskStates]
  BY DEF SerialInv, SerialRow, Tasks
<1>1. ASSUME NEW t \in Tasks, Enqueue(t) PROVE Completes /\ Idles
  <2>1. serial'.tasks = [serial.tasks EXCEPT ![t] = "queued"]
    BY <1>0, <1>1 DEF Enqueue, Commits, Committed, SerialRow
  <2> QED BY <1>0, <2>1 DEF Completes, Idles
<1>2. ASSUME NEW t \in Tasks, Retry(t) PROVE Completes /\ Idles
  <2>1. serial' = serial \/ serial'.tasks = [serial.tasks EXCEPT ![t] = "queued"]
    BY <1>0, <1>2 DEF Retry, Commits, Committed, StopsBefore, SerialRow
  <2> QED BY <1>0, <2>1 DEF Completes, Idles
<1>3. ASSUME NEW action \in {"pause", "resume", "cancel"}, Control(action) PROVE Completes /\ Idles
  <2>1. serial'.tasks = serial.tasks
    <3>1. PICK ys, paused, cancelled : serial' \in {[serial EXCEPT !.attempts = ys, !.cancelled = cancelled, !.paused = paused],
                                                   [serial EXCEPT !.paused = paused]}
      BY <1>3 DEF Control, Commits, Committed
    <3> QED BY <1>0, <3>1 DEF SerialRow
  <2> QED BY <2>1 DEF Completes, Idles
<1>4. CASE CancelObserve
  <2>1. PICK ts : ts = [t \in Tasks |-> IF Of(t) # {} THEN "cancelled" ELSE serial.tasks[t]]
    OBVIOUS
  <2>2. PICK ys : serial' = serial \/ serial' = [serial EXCEPT !.attempts = ys, !.tasks = ts]
    BY <1>4, <2>1 DEF CancelObserve, Commits, Committed, StopsBefore
  <2>3. serial'.tasks \in {serial.tasks, ts}
    BY <1>0, <2>2 DEF SerialRow
  <2>4. \A t \in Tasks : ts[t] \in {"cancelled", serial.tasks[t]}
    BY <2>1
  <2> QED BY <1>0, <2>3, <2>4 DEF Completes, Idles
<1>5. CASE ObserveInvalidations
  <2>0. PICK set : set = UNION {Of(t) : t \in Invalidating}
    OBVIOUS
  <2>1. PICK survivors \in SUBSET (Running \intersect set) :
          \/ serial' = serial
          \/ serial' = [serial EXCEPT
                 !.attempts = [a \in Attempts |-> IF a \in set
                     THEN [serial.attempts[a] EXCEPT !.state = IF a \in survivors THEN "unknown" ELSE "invalidated"]
                     ELSE serial.attempts[a]],
                 !.tasks = [t \in Tasks |-> IF t \in Invalidating /\ Of(t) \intersect survivors = {}
                                           THEN "invalidated" ELSE serial.tasks[t]]]
    BY <1>5, <2>0 DEF ObserveInvalidations, Commits, Committed, StopsBefore
  <2>2. PICK ts : ts = [t \in Tasks |-> IF t \in Invalidating /\ Of(t) \intersect survivors = {}
                                      THEN "invalidated" ELSE serial.tasks[t]]
    OBVIOUS
  <2>3. serial' = serial \/ serial'.tasks = ts
    BY <1>0, <2>1, <2>2 DEF SerialRow
  <2> QED BY <1>0, <2>2, <2>3 DEF Completes, Idles
<1>6. CASE Invalidate
  <2>1. PICK ys, ts : serial' = [serial EXCEPT !.attempts = ys,
               !.tasks = [t \in Tasks |-> IF t \in ts THEN "invalidating" ELSE serial.tasks[t]]]
    BY <1>6 DEF Invalidate, Commits, Committed, WithInvalidating
  <2>2. PICK us : us = [t \in Tasks |-> IF t \in ts THEN "invalidating" ELSE serial.tasks[t]]
    OBVIOUS
  <2>3. serial'.tasks = us
    BY <1>0, <2>1, <2>2 DEF SerialRow
  <2> QED BY <1>0, <2>2, <2>3 DEF Completes, Idles
<1>7. CASE Recheck
  <2>1. serial' = [serial EXCEPT !.tasks["worker"] = "blocked"]
    BY <1>7 DEF Recheck, Commits, Committed
  <2>2. serial'.tasks["worker"] = "blocked"
    BY <1>0, <2>1 DEF SerialRow
  <2> QED BY <2>2 DEF Completes, Idles
<1>8. CASE Launch \/ ObserveLiving
  <2>1. WithCheck \in SerialRow
    BY CheckIsAdded DEF RowHolds
  <2>2. WithCheck.tasks["worker"] = "checking" \/ WithCheck = serial
    BY <1>0 DEF WithCheck, SerialRow
  <2>3. serial' = serial \/ \E a, st : serial' = [WithCheck EXCEPT !.attempts[a].state = st]
    BY <1>8 DEF Launch, ObserveLiving, Commits, Committed, StopsBefore
  <2>4. serial' = serial \/ serial'.tasks = WithCheck.tasks
    BY <2>1, <2>3, OtherTasks
  <2> QED BY <2>2, <2>4 DEF Completes, Idles
<1>9. CASE ObserveWriter
  <2>1. serial' = serial \/ serial'.tasks["worker"] \in {"candidate_ready", "failed"}
    <3>1. PICK a : a = Current(WithCheck)
      OBVIOUS
    <3>2. PICK ok \in BOOLEAN : ok = Succeeded
      BY DEF Succeeded
    <3>3. \/ serial' = serial
          \/ ~ok /\ serial' = [serial EXCEPT !.attempts[a].state = "failed", !.tasks["worker"] = "failed"]
          \/ ok /\ serial' = [serial EXCEPT !.attempts[a].state = "completed", !.tasks["worker"] = "candidate_ready",
                                             !.candidate = Len(candidates')]
      BY <1>9, <3>1, <3>2 DEF ObserveWriter, Commits, Committed, StopsBefore
    <3>4. PICK ts : ts = [serial.tasks EXCEPT !["worker"] = IF ok THEN "candidate_ready" ELSE "failed"]
      OBVIOUS
    <3>5. \/ serial' = serial
          \/ serial' = [serial EXCEPT !.attempts[a].state = IF ok THEN "completed" ELSE "failed",
                                      !.tasks = ts, !.candidate = IF ok THEN Len(candidates') ELSE @]
      BY <1>0, <3>3, <3>4 DEF SerialRow
    <3>6. serial' = serial \/ serial'.tasks = ts
      BY <1>0, <3>5 DEF SerialRow
    <3> QED BY <1>0, <3>4, <3>6
  <2> QED BY <1>9, <2>1, ObserveWriterKeeps DEF Completes, Idles
<1>10. CASE ObserveCheck
  <2>1. serial' = serial \/ serial'.tasks["worker"] \in {"awaiting_review", "blocked"}
    <3>1. PICK a : a = Current(WithCheck)
      OBVIOUS
    <3>2. PICK passed, at : /\ passed = (Saved(evidence', serial.attempts[a].id).status = "passed")
                           /\ at = SavedAt(evidence', serial.attempts[a].id) /\ passed \in BOOLEAN
      OBVIOUS
    <3>3. \/ serial' = serial
          \/ serial' = [serial EXCEPT !.attempts[a].state = "completed", !.check = at,
                                      !.tasks["worker"] = IF passed THEN "awaiting_review" ELSE "blocked"]
      BY <1>10, <3>1, <3>2 DEF ObserveCheck, Commits, Committed, StopsBefore
    <3>4. PICK ts : ts = [serial.tasks EXCEPT !["worker"] = IF passed THEN "awaiting_review" ELSE "blocked"]
      OBVIOUS
    <3>5. \/ serial' = serial
          \/ serial' = [serial EXCEPT !.attempts[a].state = "completed", !.check = at, !.tasks = ts]
      BY <1>0, <3>3, <3>4 DEF SerialRow
    <3>6. serial' = serial \/ serial'.tasks = ts
      BY <1>0, <3>5 DEF SerialRow
    <3> QED BY <1>0, <3>4, <3>6
  <2> QED BY <2>1 DEF Completes, Idles
<1>11. CASE ObserveReview
  <2>1. ~serial.cancelled
    BY <1>11 DEF ObserveReview, Ended, Moving, Drivable
  <2>2. \/ serial' = serial
        \/ serial'.tasks["worker"] = IF GateOf(evidence', Gone', serial.candidate, serial.bound["worker"])
                                       THEN "completed" ELSE serial.tasks["worker"]
    <3>1. PICK a : a = Current(WithCheck)
      OBVIOUS
    <3>2. PICK status : status = Saved(evidence', serial.attempts[a].id).status
      OBVIOUS
    <3>3. PICK ts : ts = [t \in Tasks |->
                 IF t = "reviewer" THEN (IF status = "passed" THEN "completed" ELSE "blocked")
                 ELSE IF GateOf(evidence', Gone', serial.candidate, serial.bound["worker"]) THEN "completed"
                 ELSE serial.tasks[t]]
      OBVIOUS
    <3>4. serial' = serial \/ serial' = [serial EXCEPT !.attempts[a].state = "completed", !.tasks = ts]
      BY <1>11, <3>1, <3>2, <3>3 DEF ObserveReview, Commits, Committed, StopsBefore
    <3>5. serial' = serial \/ serial'.tasks = ts
      BY <1>0, <3>4 DEF SerialRow
    <3> QED BY <1>0, <3>3, <3>5
  <2> QED BY <2>1, <2>2 DEF Completes, Idles
<1>12. CASE \/ \E i \in Ids : PermitExpires(i) \/ \E code \in ExitCodes : ProcessExits(i, code)
            \/ InputChanges \/ BecomesDenied \/ RecipeChanges \/ StoreChanges
  <2>1. serial' = serial
    BY <1>12 DEF PermitExpires, ProcessExits, InputChanges, BecomesDenied, RecipeChanges, StoreChanges
  <2> QED BY <2>1 DEF Completes, Idles
<1> QED BY <1>1, <1>2, <1>3, <1>4, <1>5, <1>6, <1>7, <1>8, <1>9, <1>10, <1>11, <1>12 DEF SerialNext

LEMMA SerialMovesGate == ASSUME SerialInv, SerialNext PROVE UNCHANGED gateVars \/ GateMoves
<1>1. CASE (\E t \in Tasks : Enqueue(t) \/ Retry(t)) \/ (\E action \in {"pause", "resume", "cancel"} : Control(action))
  BY <1>1 DEF Enqueue, Retry, Control
<1>2. CASE CancelObserve \/ ObserveInvalidations \/ Invalidate \/ Recheck
  BY <1>2 DEF CancelObserve, ObserveInvalidations, Invalidate, Recheck
<1>3. CASE Launch \/ ObserveLiving
  BY <1>3 DEF Launch, ObserveLiving
<1>4. CASE ObserveWriter \/ ObserveCheck \/ ObserveReview
  BY <1>4, WriterMoves, CheckMoves, ReviewMoves
<1>5. CASE \/ \E i \in Ids : PermitExpires(i) \/ \E code \in ExitCodes : ProcessExits(i, code)
           \/ InputChanges \/ BecomesDenied \/ RecipeChanges
  BY <1>5 DEF PermitExpires, ProcessExits, InputChanges, BecomesDenied, RecipeChanges
<1>6. CASE StoreChanges
  <2>1. AnyGateStep
    BY <1>6 DEF StoreChanges, AnyGateStep
  <2> QED BY <2>1, GateStepMoves DEF SerialInv
<1> QED BY <1>1, <1>2, <1>3, <1>4, <1>5, <1>6 DEF SerialNext

-----------------------------------------------------------------------------
(***************************************************************************)
(* The processes nobody knows of.  A stray is left by a stop while the     *)
(* candidate was ready, which is when no writer is live; and no writer is  *)
(* queued while there is a stray, because the worker has not failed since. *)
(***************************************************************************)
Writers == {a \in Attempts : serial.attempts[a].stage = "write" /\ serial.attempts[a].state \in Live}

StrayInv ==
    /\ stops \in Nat /\ Cardinality(Strays) <= stops
    /\ \A i \in Strays : host[i].stage = "check"
    /\ \A a \in Attempts :
          Runs(serial.attempts, host, a) => host[serial.attempts[a].id].stage = serial.attempts[a].stage
    /\ \A a, b \in Writers : a = b
    /\ Writers # {} => Strays = {} /\ serial.tasks["worker"] \notin {"none", "failed", "candidate_ready"}
    /\ Strays # {} => serial.tasks["worker"] \notin {"none", "failed"}

LEMMA StopsCount == ASSUME StrayInv, [SerialNext]_serialVars PROVE stops' \in Nat /\ stops <= stops'
<1>1. stops' = stops \/ stops' = stops + 1
  <2>1. CASE UNCHANGED serialVars
    BY <2>1 DEF serialVars, hostVars
  <2>2. CASE SerialNext
    BY <2>2 DEF SerialNext, Enqueue, Retry, Control, CancelObserve, ObserveInvalidations, Invalidate, Recheck, Launch,
                ObserveLiving, ObserveWriter, ObserveCheck, ObserveReview, PermitExpires, ProcessExits, InputChanges,
                BecomesDenied, RecipeChanges, StoreChanges, Commits, StopsBefore, hostVars
  <2> QED BY <2>1, <2>2
<1> QED BY <1>1 DEF StrayInv

LEMMA StraysFinite == IsFiniteSet(Strays) /\ Cardinality(Strays) \in Nat
<1>1. Strays \subseteq Ids
  BY DEF Strays
<1>2. IsFiniteSet(Strays)
  BY <1>1, IdsAssumption, FS_Subset
<1> QED BY <1>2, FS_CardinalityType

(* The strays after a step: those of before, and the check a stop leaves. *)
LEMMA StraysMove ==
    ASSUME SerialInv, SerialMoves
    PROVE  \/ Strays' \subseteq Strays /\ \A i \in Strays' : host'[i].stage = host[i].stage
           \/ \E i \in Ids :
                 /\ Strays' \subseteq Strays \union {i} /\ \A j \in Strays' : j # i => host'[j].stage = host[j].stage
                 /\ host'[i].stage = "check" /\ serial' = serial /\ stops' = stops + 1
                 /\ serial.tasks["worker"] = "candidate_ready"
<1>1. \A i \in Ids : i \in Strays' =>
          host'[i].state = "running" /\ \A a \in DOMAIN serial'.attempts : serial'.attempts[a].id # i
  BY DEF Strays, Attempts
<1>2. \A i \in Ids : i \in Strays' /\ Ran(i) => i \in Strays /\ host'[i].stage = host[i].stage
  BY <1>1 DEF SerialMoves, Grows, Ran, Strays, Attempts
<1>3. Strays' \subseteq Ids
  BY DEF Strays
<1>4. CASE Calm
  BY <1>1, <1>2, <1>3, <1>4 DEF Calm
<1>5. ASSUME NEW i \in Ids, Starts(i)
      PROVE  \/ Strays' \subseteq Strays /\ \A j \in Strays' : host'[j].stage = host[j].stage
             \/ /\ Strays' \subseteq Strays \union {i} /\ \A j \in Strays' : j # i => host'[j].stage = host[j].stage
                /\ host'[i].stage = "check" /\ serial' = serial /\ stops' = stops + 1
                /\ serial.tasks["worker"] = "candidate_ready"
  <2>1. \A j \in Strays' : j # i => j \in Strays /\ host'[j].stage = host[j].stage
    BY <1>1, <1>2, <1>3, <1>5 DEF Starts
  <2>2. CASE i \notin Strays'
    BY <2>1, <2>2
  <2>3. CASE i \in Strays'
    <3>1. /\ host'[i].stage = "check" /\ serial' = serial /\ stops' = stops + 1
          /\ serial.tasks["worker"] = "candidate_ready"
      BY <1>1, <1>5, <2>3 DEF Starts
    <3> QED BY <2>1, <3>1
  <2> QED BY <2>2, <2>3
<1> QED BY <1>4, <1>5 DEF SerialMoves

LEMMA StraysCount ==
    ASSUME StrayInv, SerialInv, SerialMoves, [SerialNext]_serialVars
    PROVE  Cardinality(Strays') <= stops' /\ \A i \in Strays' : host'[i].stage = "check"
<1>0. /\ IsFiniteSet(Strays) /\ Cardinality(Strays) \in Nat /\ Cardinality(Strays) <= stops
      /\ stops \in Nat /\ stops' \in Nat /\ stops <= stops'
  BY StraysFinite, StopsCount DEF StrayInv
<1>1. CASE Strays' \subseteq Strays /\ \A i \in Strays' : host'[i].stage = host[i].stage
  <2>1. Cardinality(Strays') <= Cardinality(Strays) /\ IsFiniteSet(Strays')
    BY <1>0, <1>1, FS_Subset
  <2>2. Cardinality(Strays') \in Nat
    BY <2>1, FS_CardinalityType
  <2> QED BY <1>0, <1>1, <2>1, <2>2 DEF StrayInv
<1>2. ASSUME NEW i \in Ids,
             Strays' \subseteq Strays \union {i}, \A j \in Strays' : j # i => host'[j].stage = host[j].stage,
             host'[i].stage = "check", stops' = stops + 1
      PROVE  Cardinality(Strays') <= stops' /\ \A j \in Strays' : host'[j].stage = "check"
  <2>1. PICK S : S = Strays \union {i}
    OBVIOUS
  <2>2. IsFiniteSet(S) /\ Cardinality(S) <= Cardinality(Strays) + 1 /\ Cardinality(S) \in Nat
    <3>1. IsFiniteSet(S) /\ (Cardinality(S) = Cardinality(Strays) \/ Cardinality(S) = Cardinality(Strays) + 1)
      BY <1>0, <2>1, FS_AddElement
    <3> QED BY <1>0, <3>1
  <2>3. Cardinality(Strays') <= Cardinality(S) /\ Cardinality(Strays') \in Nat
    BY <1>2, <2>1, <2>2, FS_Subset, FS_CardinalityType
  <2>4. \A j \in Strays' : host'[j].stage = "check"
    BY <1>2 DEF StrayInv
  <2> QED BY <1>0, <1>2, <2>2, <2>3, <2>4
<1> QED BY <1>1, <1>2, StraysMove

(* The writers after a step. *)
LEMMA WritersMove ==
    ASSUME SerialInv, SerialMoves
    PROVE  \/ Writers' \subseteq Writers
           \/ /\ serial.tasks["worker"] \in {"none", "failed"} /\ serial'.tasks["worker"] = "queued"
              /\ Writers' \subseteq Writers \union {Len(serial.attempts) + 1}
<1>1. Writers' = {a \in DOMAIN serial'.attempts : serial'.attempts[a].stage = "write" /\ serial'.attempts[a].state \in Live}
  BY DEF Writers, Attempts
<1>2. Writers = {a \in DOMAIN serial.attempts : serial.attempts[a].stage = "write" /\ serial.attempts[a].state \in Live}
  BY DEF Writers, Attempts
<1>3. \A a \in Writers' : a \in DOMAIN serial.attempts => a \in Writers
  BY <1>1, <1>2 DEF SerialMoves, Grows
<1>4. \A a \in Writers' : a \notin DOMAIN serial.attempts =>
          /\ a = Len(serial.attempts) + 1
          /\ serial.tasks["worker"] \in {"none", "failed"} /\ serial'.tasks["worker"] = "queued"
  BY <1>1 DEF SerialMoves, Grows
<1> QED BY <1>3, <1>4

LEMMA StrayPreserved ==
    ASSUME StrayInv, SerialInv, SerialInv', SerialMoves, Idles, [SerialNext]_serialVars
    PROVE  StrayInv'
<1>1. stops' \in Nat
  BY StopsCount
<1>2. Cardinality(Strays') <= stops' /\ \A i \in Strays' : host'[i].stage = "check"
  BY StraysCount
<1>3. ASSUME NEW a \in DOMAIN serial'.attempts, Runs(serial'.attempts, host', a)
      PROVE  host'[serial'.attempts[a].id].stage = serial'.attempts[a].stage
  <2>1. PICK i \in Ids : i = serial'.attempts[a].id
    <3>1. serial'.attempts[a] \in SerialAttempt
      BY DEF SerialInv, Numbered
    <3> QED BY <3>1 DEF SerialAttempt
  <2>2. host'[i].state = "running"
    BY <1>3, <2>1 DEF Runs
  <2>3. CASE Ran(i)
    <3>1. a \in DOMAIN serial.attempts
      BY <2>1, <2>3 DEF SerialMoves, Grows, Ran
    <3>2. serial.attempts[a].id = i /\ serial.attempts[a].stage = serial'.attempts[a].stage
      BY <2>1, <3>1 DEF SerialMoves, Grows
    <3> QED BY <2>1, <2>3, <3>1, <3>2 DEF StrayInv, Attempts, Runs, Ran
  <2>4. CASE ~Ran(i)
    <3>1. Starts(i)
      BY <2>2, <2>4 DEF SerialMoves, Calm, Starts
    <3>2. CASE \E b \in DOMAIN serial'.attempts : serial'.attempts[b].id = i /\ serial'.attempts[b].stage = host'[i].stage
      BY <2>1, <3>2 DEF SerialInv, Numbered
    <3>3. CASE serial' = serial /\ \A b \in DOMAIN serial.attempts : serial.attempts[b].id # i
      BY <2>1, <3>3
    <3> QED BY <3>1, <3>2, <3>3 DEF Starts
  <2> QED BY <2>3, <2>4
<1>4. Strays' # {} => Strays # {} \/ (serial' = serial /\ serial.tasks["worker"] = "candidate_ready")
  <2>1. CASE Strays' \subseteq Strays
    BY <2>1
  <2>2. CASE serial' = serial /\ serial.tasks["worker"] = "candidate_ready"
    BY <2>2
  <2> QED BY <2>1, <2>2, StraysMove
<1>5. \A a, b \in Writers' : a = b
  BY WritersMove DEF StrayInv
<1>6. WriterEnds => Writers # {} /\ Writers' = {} /\ serial' # serial
  <2> SUFFICES ASSUME WriterEnds PROVE Writers # {} /\ Writers' = {} /\ serial' # serial
    OBVIOUS
  <2>1. PICK a \in Writers : serial'.attempts[a].state \notin Live
    BY DEF WriterEnds, Writers
  <2>2. a \notin Writers' /\ serial' # serial
    BY <2>1 DEF Writers, Attempts
  <2>3. Writers = {a} /\ serial.tasks["worker"] \notin {"none", "failed"}
    BY <2>1 DEF StrayInv
  <2> QED BY <2>2, <2>3, WritersMove
<1>7. ASSUME Writers' # {}
      PROVE  Strays' = {} /\ serial'.tasks["worker"] \notin {"none", "failed", "candidate_ready"}
  <2>1. CASE Writers # {}
    BY <1>4, <1>6, <1>7, <2>1 DEF StrayInv, Idles
  <2>2. CASE Writers = {}
    <3>1. serial.tasks["worker"] \in {"none", "failed"} /\ serial'.tasks["worker"] = "queued"
      BY <1>7, <2>2, WritersMove
    <3> QED BY <1>4, <3>1 DEF StrayInv
  <2> QED BY <2>1, <2>2
<1>8. Strays' # {} => serial'.tasks["worker"] \notin {"none", "failed"}
  BY <1>4, <1>6 DEF StrayInv, Idles
<1>9. \A a \in Attempts' : Runs(serial.attempts, host, a)' => host'[serial'.attempts[a].id].stage = serial'.attempts[a].stage
  BY <1>3 DEF Attempts, Runs
<1> QED BY <1>1, <1>2, <1>5, <1>7, <1>8, <1>9 DEF StrayInv

LEMMA StraysStart == SerialInit => StrayInv
<1> SUFFICES ASSUME SerialInit PROVE StrayInv
  OBVIOUS
<1>1. Strays = {} /\ Attempts = {} /\ stops = 0
  BY DEF SerialInit, Strays, NoProcess, Attempts
<1>2. Writers = {}
  BY <1>1 DEF Writers
<1>3. Cardinality({}) = 0
  BY FS_EmptySet
<1> QED BY <1>1, <1>2, <1>3 DEF StrayInv

(* Two processes run only where neither is a writer's. *)
LEMMA WriterRunsAlone ==
    ASSUME SerialInv, StrayInv, NEW i \in Ids, NEW j \in Ids,
           host[i].state = "running", host[j].state = "running", host[i].stage = "write"
    PROVE  i = j
<1>1. PICK a \in Attempts : serial.attempts[a].id = i
  BY DEF StrayInv, Strays
<1>2. a \in Running /\ serial.attempts[a].stage = "write" /\ serial.attempts[a].state \in Live
  BY <1>1 DEF StrayInv, Runs, Running, SerialInv, Watched, Attempts
<1>3. Strays = {}
  BY <1>2 DEF StrayInv, Writers, Running
<1>4. PICK b \in Attempts : serial.attempts[b].id = j
  BY <1>3 DEF Strays
<1>5. b \in Running
  BY <1>4 DEF Running
<1> QED BY <1>1, <1>2, <1>4, <1>5, RunningIsOne

(***************************************************************************)
(* At most one process of a committed attempt, which is watched; at most   *)
(* one stray check for each stop, none of them beside a writer; and        *)
(* completion by an open gate only; for any limits on attempts, retries,   *)
(* inputs and stops of the coordinator.                                    *)
(***************************************************************************)
THEOREM SerialStaysSound == SerialSpec => SerialRunsAreSound
<1> DEFINE Sound ==
      /\ Cardinality(Running) <= 1
      /\ \A a \in Running : serial.attempts[a].state \in {"queued", "running", "unknown"}
      /\ Cardinality(Strays) <= stops
      /\ \A i \in Strays : host[i].stage = "check"
      /\ \A i, j \in Ids :
            host[i].state = "running" /\ host[j].state = "running" /\ host[i].stage = "write" => i = j
<1>1. SerialInv /\ StrayInv => Sound
  BY OneRuns, WriterRunsAlone DEF StrayInv
<1>2. SerialInv /\ [SerialNext]_serialVars => [Completes]_serialVars
  BY OnlyReviewCompletes
<1>3. SerialInv /\ StrayInv /\ [SerialNext]_serialVars => SerialInv' /\ StrayInv'
  <2> SUFFICES ASSUME SerialInv, StrayInv, [SerialNext]_serialVars PROVE SerialInv' /\ StrayInv'
    OBVIOUS
  <2>1. SerialInv' /\ SerialMoves
    BY SerialPreserved
  <2>2. Idles
    <3>1. CASE SerialNext
      BY <3>1, OnlyReviewCompletes
    <3>2. CASE UNCHANGED serialVars
      BY <3>2 DEF serialVars, Idles
    <3> QED BY <3>1, <3>2
  <2> QED BY <2>1, <2>2, StrayPreserved
<1>4. SerialInit => SerialInv /\ StrayInv
  BY SerialStarts, StraysStart
<1> QED BY <1>1, <1>2, <1>3, <1>4, PTL DEF SerialSpec, SerialRunsAreSound, Completes

(* The same of the store under the coordinator and the callers beside it. *)
THEOREM SerialGatesOpenByReview == SerialSpec => GateOpensByReview
<1>1. SerialInv /\ [SerialNext]_serialVars => [OpensByReview]_gateVars
  BY SerialMovesGate, GateOpens DEF SerialInv, serialVars
<1> QED BY <1>1, SerialStarts, SerialPreserved, PTL DEF SerialSpec, GateOpensByReview, OpensByReview

-----------------------------------------------------------------------------
(* The tables behind Affected and Ancestors. *)
Dependents(all, prior, proposed, T) ==
    {t \in all : (IF t \in DOMAIN proposed THEN proposed[t].deps ELSE prior[t].deps) \intersect T # {}}

IsImpact(f, D, prior, proposed) ==
    f = [n \in 0 .. Cardinality(DOMAIN prior \union DOMAIN proposed) |->
            IF n = 0 THEN D
            ELSE f[n - 1] \union
                 Dependents(DOMAIN prior \union DOMAIN proposed, prior, proposed, f[n - 1])]

IsLineage(f, tasks, t) ==
    f = [n \in 0 .. Cardinality(DOMAIN tasks) |->
            IF n = 0 THEN {t} ELSE f[n - 1] \union UNION {tasks[u].deps : u \in f[n - 1]}]

Impact(D, prior, proposed) ==
    (CHOOSE f : IsImpact(f, D, prior, proposed))[Cardinality(DOMAIN prior \union DOMAIN proposed)]

LEMMA AffectedIsTable ==
    ASSUME NEW plan
    PROVE  Affected(plan) = Impact(DirectlyAffected(plan), Active.tasks, plan.tasks)
  BY Zenon DEF Affected, Impact, IsImpact, Dependents

LEMMA AncestorsIsTable ==
    ASSUME NEW tasks, NEW t
    PROVE  Ancestors(tasks, t) = (CHOOSE f : IsLineage(f, tasks, t))[Cardinality(DOMAIN tasks)]
  BY Zenon DEF Ancestors, IsLineage

(* What the impact of a plan reaches contains all that depends on it. *)
LEMMA ImpactCloses ==
    ASSUME NEW prior, NEW proposed, NEW D, IsFiniteSet(DOMAIN prior), IsFiniteSet(DOMAIN proposed),
           D \in SUBSET (DOMAIN prior \union DOMAIN proposed),
           NEW X, X = Impact(D, prior, proposed)
    PROVE  /\ D \subseteq X
           /\ Dependents(DOMAIN prior \union DOMAIN proposed, prior, proposed, X) \subseteq X
<1> DEFINE U == DOMAIN prior \union DOMAIN proposed
           K == Cardinality(U)
           Reach(T) == Dependents(U, prior, proposed, T)
           G == [T \in SUBSET U |-> T \union Reach(T)]
<1>1. IsFiniteSet(U) /\ K \in Nat
  BY FS_Union, FS_CardinalityType
<1>2. \A T \in SUBSET U : Reach(T) \in SUBSET U
  BY DEF Dependents
<1> HIDE DEF U, Reach
<1>4. G \in [SUBSET U -> SUBSET U]
  BY <1>2
<1>5. Widens(G, U)
  BY DEF Widens
<1>6. D \in SUBSET U
  BY DEF U
<1>7. PICK f : Rounds(f, U, D, G, K)
  <2> HIDE DEF G, K
  <2> QED BY <1>1, <1>4, <1>6, RoundsExist
<1>8. f = [n \in 0 .. K |-> IF n = 0 THEN D ELSE f[n - 1] \union Reach(f[n - 1])]
  <2>1. f \in [0 .. K -> SUBSET U] /\ f[0] = D /\ \A n \in 1 .. K : f[n] = G[f[n - 1]]
    BY <1>7 DEF Rounds
  <2>2. ASSUME NEW n \in 0 .. K PROVE f[n] = IF n = 0 THEN D ELSE f[n - 1] \union Reach(f[n - 1])
    <3>1. CASE n = 0
      BY <2>1, <3>1
    <3>2. CASE n # 0
      <4>1. n \in 1 .. K /\ n - 1 \in 0 .. K
        BY <1>1, <3>2
      <4>2. f[n - 1] \in SUBSET U
        BY <2>1, <4>1
      <4> QED BY <2>1, <3>2, <4>1, <4>2
    <3> QED BY <3>1, <3>2
  <2> HIDE DEF G, K
  <2> QED BY <2>1, <2>2
<1>9. IsImpact(f, D, prior, proposed)
  BY <1>8 DEF IsImpact, U, Reach
<1>10. PICK g : g = CHOOSE h : IsImpact(h, D, prior, proposed)
  OBVIOUS
<1>11. IsImpact(g, D, prior, proposed)
  BY <1>9, <1>10
<1>12. g = [n \in 0 .. K |-> IF n = 0 THEN D ELSE g[n - 1] \union Reach(g[n - 1])]
  BY <1>11 DEF IsImpact, U, Reach
<1>13. Rounds(g, U, D, G, K)
  <2>1. g = [n \in 0 .. K |-> g[n]] /\ g[0] = D
    <3> HIDE DEF K
    <3> QED BY <1>1, <1>12
  <2>2. ASSUME NEW n \in 1 .. K, g[n - 1] \in SUBSET U PROVE g[n] = G[g[n - 1]]
    <3>1. n \in 0 .. K /\ n # 0
      BY <1>1
    <3>2. g[n] = g[n - 1] \union Reach(g[n - 1])
      <4> HIDE DEF K
      <4> QED BY <1>12, <3>1
    <3> QED BY <2>2, <3>2
  <2> HIDE DEF G, K
  <2> QED BY <1>1, <1>4, <1>6, <2>1, <2>2, RoundsTyped
<1>14. D \subseteq g[K] /\ g[K] \in SUBSET U /\ G[g[K]] = g[K]
  <2> HIDE DEF G, K
  <2>1. K = Cardinality(U)
    BY DEF K
  <2>2. Rounds(g, U, D, G, Cardinality(U))
    BY <1>13, <2>1
  <2>3. RoundsEnd(g, U, D, G)
    BY <1>1, <1>4, <1>5, <1>6, <2>2, RoundsClose
  <2> QED BY <2>1, <2>3 DEF RoundsEnd
<1>15. Reach(g[K]) \subseteq g[K]
  <2> HIDE DEF K
  <2> QED BY <1>14
<1>16. X = g[K]
  BY <1>10 DEF U, Impact
<1> QED BY <1>14, <1>15, <1>16 DEF Reach, U

(* All that a task rests on lies in a set that contains it and is closed. *)
LEMMA LineageStays ==
    ASSUME NEW tasks, IsFiniteSet(DOMAIN tasks), NEW Good, NEW t \in Good,
           \A u \in Good : tasks[u].deps \subseteq Good
    PROVE  Ancestors(tasks, t) \subseteq Good
<1> DEFINE K == Cardinality(DOMAIN tasks)
           Above(T) == UNION {tasks[u].deps : u \in T}
           G == [T \in SUBSET Good |-> T \union Above(T)]
<1>1. K \in Nat
  BY FS_CardinalityType
<1>2. \A T \in SUBSET Good : Above(T) \in SUBSET Good
  OBVIOUS
<1> HIDE DEF Above
<1>4. G \in [SUBSET Good -> SUBSET Good]
  BY <1>2
<1>6. {t} \in SUBSET Good
  OBVIOUS
<1>7. PICK f : Rounds(f, Good, {t}, G, K)
  <2> HIDE DEF G, K
  <2> QED BY <1>1, <1>4, <1>6, RoundsExist
<1>8. f = [n \in 0 .. K |-> IF n = 0 THEN {t} ELSE f[n - 1] \union Above(f[n - 1])]
  <2>1. f \in [0 .. K -> SUBSET Good] /\ f[0] = {t} /\ \A n \in 1 .. K : f[n] = G[f[n - 1]]
    BY <1>7 DEF Rounds
  <2>2. ASSUME NEW n \in 0 .. K PROVE f[n] = IF n = 0 THEN {t} ELSE f[n - 1] \union Above(f[n - 1])
    <3>1. CASE n = 0
      BY <2>1, <3>1
    <3>2. CASE n # 0
      <4>1. n \in 1 .. K /\ n - 1 \in 0 .. K
        BY <1>1, <3>2
      <4>2. f[n - 1] \in SUBSET Good
        BY <2>1, <4>1
      <4> QED BY <2>1, <3>2, <4>1, <4>2
    <3> QED BY <3>1, <3>2
  <2> HIDE DEF G, K
  <2> QED BY <2>1, <2>2
<1>9. IsLineage(f, tasks, t)
  BY <1>8 DEF IsLineage, Above
<1>10. PICK g : g = CHOOSE h : IsLineage(h, tasks, t)
  OBVIOUS
<1>11. IsLineage(g, tasks, t)
  BY <1>9, <1>10
<1>12. g = [n \in 0 .. K |-> IF n = 0 THEN {t} ELSE g[n - 1] \union Above(g[n - 1])]
  BY <1>11 DEF IsLineage, Above
<1>13. Rounds(g, Good, {t}, G, K)
  <2>1. g = [n \in 0 .. K |-> g[n]] /\ g[0] = {t}
    <3> HIDE DEF K
    <3> QED BY <1>1, <1>12
  <2>2. ASSUME NEW n \in 1 .. K, g[n - 1] \in SUBSET Good PROVE g[n] = G[g[n - 1]]
    <3>1. n \in 0 .. K /\ n # 0
      BY <1>1
    <3>2. g[n] = g[n - 1] \union Above(g[n - 1])
      <4> HIDE DEF K
      <4> QED BY <1>12, <3>1
    <3> QED BY <2>2, <3>2
  <2> HIDE DEF G, K
  <2> QED BY <1>1, <1>4, <1>6, <2>1, <2>2, RoundsTyped
<1>14. g[K] \in SUBSET Good
  <2> HIDE DEF G
  <2> QED BY <1>1, <1>13 DEF Rounds
<1> QED BY <1>10, <1>14, AncestorsIsTable

-----------------------------------------------------------------------------
(***************************************************************************)
(* RunPlanning: the Run's snapshot, and what makes it sound.               *)
(***************************************************************************)
TaskNames == UNION {DOMAIN plan.tasks : plan \in Plans}

IntentRow == [term : Nat, by : Participants, state : {"awaiting_receipt", "admitted", "rejected"},
              receipt : {None, "authority", "execution"}]
EntryRow == [term : Nat, by : Participants, intent : Nat, plan : Plans, base : Nat,
             reusable : SUBSET TaskNames]
ApprovalRow == [plan : Nat, term : Nat, by : Participants]
BindingRow == [term : Nat, latest : Nat, active : Nat, approvals : Nat]
HandoffStates == {"pending", "superseded", "approved", "rejected"}
HandoffRow == [candidate : Participants, binding : BindingRow, state : HandoffStates,
               expired : BOOLEAN]
RunRow == [config : Nat, state : {"planning", "awaiting_approval", "executing"},
           commander : Participants, term : Nat, intents : Seq(IntentRow), plans : Seq(EntryRow),
           approvals : Seq(ApprovalRow), handoffs : Seq(HandoffRow), active : Nat]

(* What entry declares reusable stands, with all it rests on, in the plan it replaces. *)
Kept(plans, entry) ==
    \A t \in entry.reusable :
        /\ entry.base # 0 /\ plans[entry.base].plan.auth = entry.plan.auth
        /\ \A u \in Ancestors(entry.plan.tasks, t) :
              /\ u \in DOMAIN plans[entry.base].plan.tasks
              /\ plans[entry.base].plan.tasks[u] = entry.plan.tasks[u]

(* The intent a plan was submitted under is its author's, of its term, and admitted. *)
Entitled(rows, entry) ==
    /\ entry.intent \in DOMAIN rows
    /\ rows[entry.intent].by = entry.by /\ rows[entry.intent].term = entry.term
    /\ rows[entry.intent].state = "admitted"

EntrySound(r, k) ==
    /\ r.plans[k].term <= r.term
    /\ r.plans[k].term = r.term => r.plans[k].by = r.commander
    /\ Entitled(r.intents, r.plans[k])
    /\ ValidPlan(r.plans[k].plan)
    /\ r.plans[k].base \in 0 .. k - 1
    /\ Kept(r.plans, r.plans[k])

PlanBefore(r, a) == IF a = 1 THEN 0 ELSE r.approvals[a - 1].plan

ApprovalSound(r, a) ==
    /\ r.approvals[a].plan \in DOMAIN r.plans
    /\ r.plans[r.approvals[a].plan].term = r.approvals[a].term
    /\ r.plans[r.approvals[a].plan].by = r.approvals[a].by
    /\ r.plans[r.approvals[a].plan].base = PlanBefore(r, a)

RunSound(r) ==
    /\ r \in RunRow
    /\ \A k \in DOMAIN r.plans : EntrySound(r, k)
    /\ \A a \in DOMAIN r.approvals : ApprovalSound(r, a)
    /\ r.active = PlanBefore(r, Len(r.approvals) + 1) /\ r.active \in 0 .. Len(r.plans)
    /\ r.plans # << >> /\ r.active # Len(r.plans) => r.plans[Len(r.plans)].base = r.active

CreatorRow == [pc : {"idle", "insert", "done"}, read : Nat]

(* PlanningInv: a Run is there once created, and sound; a submission is under way for one of its intents. *)
PlanningInv ==
    /\ created \in {0, 1} /\ projectRevision \in Nat
    /\ creator \in [Creators -> CreatorRow]
    /\ created = 0 => run = None /\ submission = 0
    /\ created = 1 => RunSound(run)
    /\ submission # 0 => submission \in DOMAIN run.intents

-----------------------------------------------------------------------------
LEMMA RunFields ==
    ASSUME NEW r \in RunRow
    PROVE  /\ r.config \in Nat /\ r.commander \in Participants /\ r.term \in Nat /\ r.active \in Nat
           /\ r.state \in {"planning", "awaiting_approval", "executing"}
           /\ r.intents \in Seq(IntentRow) /\ r.plans \in Seq(EntryRow)
           /\ r.approvals \in Seq(ApprovalRow) /\ r.handoffs \in Seq(HandoffRow)
           /\ Len(r.intents) \in Nat /\ DOMAIN r.intents = 1 .. Len(r.intents)
           /\ Len(r.plans) \in Nat /\ DOMAIN r.plans = 1 .. Len(r.plans)
           /\ Len(r.approvals) \in Nat /\ DOMAIN r.approvals = 1 .. Len(r.approvals)
           /\ Len(r.handoffs) \in Nat /\ DOMAIN r.handoffs = 1 .. Len(r.handoffs)
<1>1. /\ r.config \in Nat /\ r.commander \in Participants /\ r.term \in Nat /\ r.active \in Nat
      /\ r.state \in {"planning", "awaiting_approval", "executing"}
      /\ r.intents \in Seq(IntentRow) /\ r.plans \in Seq(EntryRow)
      /\ r.approvals \in Seq(ApprovalRow) /\ r.handoffs \in Seq(HandoffRow)
  BY DEF RunRow
<1> HIDE DEF RunRow
<1> QED BY <1>1

(* The reusable tasks of a plan that may be submitted are those it really keeps. *)
LEMMA ReusableIsKept ==
    ASSUME run \in RunRow, run.active \in 0 .. Len(run.plans), NEW plan \in Plans, ValidPlan(plan),
           NEW t \in Reusable(plan)
    PROVE  /\ run.active # 0 /\ run.plans[run.active].plan.auth = plan.auth
           /\ \A u \in Ancestors(plan.tasks, t) :
                 /\ u \in DOMAIN run.plans[run.active].plan.tasks
                 /\ run.plans[run.active].plan.tasks[u] = plan.tasks[u]
<1> DEFINE prior == Active.tasks
           proposed == plan.tasks
           D == DirectlyAffected(plan)
           X == Affected(plan)
           Good == DOMAIN proposed \ X
<1>1. IsFiniteSet(DOMAIN proposed)
  BY PlansAssumption
<1>2. run.active # 0 => Active = run.plans[run.active].plan /\ Active \in Plans
  <2> HAVE run.active # 0
  <2>1. run.active \in 1 .. Len(run.plans)
    BY RunFields
  <2>2. run.plans[run.active] \in EntryRow
    BY <2>1, RunFields
  <2> QED BY <2>2 DEF Active, EntryRow
<1>3. run.active = 0 => DOMAIN prior = {}
  BY DEF Active
<1>4. IsFiniteSet(DOMAIN prior)
  <2>1. CASE run.active = 0
    BY <1>3, <2>1, FS_EmptySet
  <2>2. CASE run.active # 0
    BY <1>2, <2>2, PlansAssumption
  <2> QED BY <2>1, <2>2
<1>5. D \in SUBSET (DOMAIN prior \union DOMAIN proposed)
  BY DEF DirectlyAffected
<1>6. /\ D \subseteq X
      /\ Dependents(DOMAIN prior \union DOMAIN proposed, prior, proposed, X) \subseteq X
  <2>1. X = Impact(D, prior, proposed)
    BY AffectedIsTable
  <2> HIDE DEF X, D, prior, proposed
  <2> QED BY <1>1, <1>4, <1>5, <2>1, ImpactCloses
<1>7. \A u \in Good : proposed[u].deps \subseteq Good
  <2> SUFFICES ASSUME NEW u \in Good, NEW d \in proposed[u].deps PROVE d \in Good
    OBVIOUS
  <2>1. d \in DOMAIN proposed
    BY DEF ValidPlan
  <2>2. CASE d \in X
    <3>1. u \in Dependents(DOMAIN prior \union DOMAIN proposed, prior, proposed, X)
      BY <2>2 DEF Dependents
    <3> QED BY <1>6, <3>1
  <2> QED BY <2>1, <2>2
<1>8. t \in Good
  BY DEF Reusable
<1>9. Ancestors(proposed, t) \subseteq Good
  <2> HIDE DEF Good, proposed
  <2> QED BY <1>1, <1>7, <1>8, LineageStays
<1>10. \A u \in Good : u \in DOMAIN prior /\ prior[u] = proposed[u] /\ ~(run.active # 0 /\ Active.auth # plan.auth)
  <2> SUFFICES ASSUME NEW u \in Good
               PROVE u \in DOMAIN prior /\ prior[u] = proposed[u] /\ ~(run.active # 0 /\ Active.auth # plan.auth)
    OBVIOUS
  <2>1. u \notin D /\ u \in DOMAIN proposed
    BY <1>6
  <2> QED BY <2>1 DEF DirectlyAffected
<1>11. run.active # 0
  BY <1>3, <1>8, <1>10
<1> QED BY <1>2, <1>8, <1>9, <1>10, <1>11

-----------------------------------------------------------------------------
(* A change that leaves plans and approvals alone, and every admitted intent as it was. *)
Steady(r, s) ==
    /\ s \in RunRow
    /\ s.plans = r.plans /\ s.approvals = r.approvals /\ s.active = r.active
    /\ DOMAIN r.intents \subseteq DOMAIN s.intents
    /\ \A i \in DOMAIN r.intents : r.intents[i].state = "admitted" =>
          /\ s.intents[i].by = r.intents[i].by /\ s.intents[i].term = r.intents[i].term
          /\ s.intents[i].state = "admitted"
    /\ (s.term = r.term /\ s.commander = r.commander) \/ s.term = r.term + 1

LEMMA SteadyKeeps ==
    ASSUME NEW r, NEW s, RunSound(r), Steady(r, s)
    PROVE  RunSound(s)
<1>1. r \in RunRow /\ s \in RunRow /\ s.plans = r.plans /\ s.approvals = r.approvals /\ s.active = r.active
  BY DEF RunSound, Steady
<1>2. ASSUME NEW k \in DOMAIN s.plans PROVE EntrySound(s, k)
  <2>1. EntrySound(r, k) /\ r.plans[k] \in EntryRow
    BY <1>1, <1>2, RunFields DEF RunSound
  <2>2. r.plans[k].term \in Nat /\ r.term \in Nat /\ s.term \in Nat
    BY <1>1, <2>1, RunFields DEF EntryRow
  <2>3. Entitled(s.intents, r.plans[k])
    BY <2>1 DEF EntrySound, Entitled, Steady
  <2>4. r.plans[k].term <= s.term /\ (r.plans[k].term = s.term => r.plans[k].by = s.commander)
    BY <2>1, <2>2 DEF EntrySound, Steady
  <2> QED BY <1>1, <2>1, <2>3, <2>4 DEF EntrySound
<1>3. ASSUME NEW a \in DOMAIN s.approvals PROVE ApprovalSound(s, a)
  BY <1>1, <1>3 DEF RunSound, ApprovalSound, PlanBefore
<1>4. PlanBefore(s, Len(s.approvals) + 1) = PlanBefore(r, Len(r.approvals) + 1)
  BY <1>1 DEF PlanBefore
<1> QED BY <1>1, <1>2, <1>3, <1>4 DEF RunSound

(* submit_plan: one more plan, authored by the commander of the term. *)
LEMMA PlanAdded ==
    ASSUME NEW r, NEW s, NEW e \in EntryRow, RunSound(r), s \in RunRow,
           s.plans = Append(r.plans, e), s.approvals = r.approvals, s.active = r.active,
           s.intents = r.intents, s.term = r.term, s.commander = r.commander,
           e.term = r.term, e.by = r.commander, Entitled(r.intents, e), ValidPlan(e.plan),
           e.base = r.active, Kept(r.plans, e)
    PROVE  RunSound(s)
<1>1. r \in RunRow /\ r.active \in 0 .. Len(r.plans)
  BY DEF RunSound
<1>2. /\ Len(s.plans) = Len(r.plans) + 1 /\ DOMAIN s.plans = 1 .. Len(r.plans) + 1
      /\ s.plans[Len(r.plans) + 1] = e /\ \A k \in DOMAIN r.plans : s.plans[k] = r.plans[k]
  BY <1>1, RunFields
<1>3. Len(r.plans) \in Nat /\ DOMAIN r.plans = 1 .. Len(r.plans) /\ r.term \in Nat
  BY <1>1, RunFields
<1>4. ASSUME NEW entry, entry.base \in 0 .. Len(r.plans), Kept(r.plans, entry) PROVE Kept(s.plans, entry)
  <2> SUFFICES ASSUME NEW t \in entry.reusable
      PROVE /\ entry.base # 0 /\ s.plans[entry.base].plan.auth = entry.plan.auth
            /\ \A u \in Ancestors(entry.plan.tasks, t) :
                  /\ u \in DOMAIN s.plans[entry.base].plan.tasks
                  /\ s.plans[entry.base].plan.tasks[u] = entry.plan.tasks[u]
    BY DEF Kept
  <2>1. /\ entry.base # 0 /\ r.plans[entry.base].plan.auth = entry.plan.auth
        /\ \A u \in Ancestors(entry.plan.tasks, t) :
              /\ u \in DOMAIN r.plans[entry.base].plan.tasks
              /\ r.plans[entry.base].plan.tasks[u] = entry.plan.tasks[u]
    BY <1>4 DEF Kept
  <2>2. s.plans[entry.base] = r.plans[entry.base]
    BY <1>2, <1>3, <1>4, <2>1
  <2> QED BY <2>1, <2>2
<1>5. ASSUME NEW k \in DOMAIN s.plans PROVE EntrySound(s, k)
  <2>1. CASE k = Len(r.plans) + 1
    <3>1. Kept(s.plans, e)
      BY <1>1, <1>4
    <3>2. s.plans[k] = e /\ e.base \in 0 .. k - 1 /\ e.term <= s.term
      BY <1>1, <1>2, <1>3, <2>1
    <3> QED BY <3>1, <3>2 DEF EntrySound
  <2>2. CASE k # Len(r.plans) + 1
    <3>1. k \in DOMAIN r.plans /\ s.plans[k] = r.plans[k]
      BY <1>2, <1>3, <2>2
    <3>2. EntrySound(r, k)
      BY <3>1 DEF RunSound
    <3>3. r.plans[k].base \in 0 .. Len(r.plans) /\ Kept(r.plans, r.plans[k])
      BY <1>3, <3>1, <3>2 DEF EntrySound
    <3>4. Kept(s.plans, r.plans[k])
      BY <1>4, <3>3
    <3> QED BY <3>1, <3>2, <3>4 DEF EntrySound
  <2> QED BY <2>1, <2>2
<1>6. ASSUME NEW a \in DOMAIN s.approvals PROVE ApprovalSound(s, a)
  <2>1. ApprovalSound(r, a)
    BY <1>6 DEF RunSound
  <2> QED BY <1>2, <1>3, <2>1 DEF ApprovalSound, PlanBefore
<1>7. PlanBefore(s, Len(s.approvals) + 1) = PlanBefore(r, Len(r.approvals) + 1)
  BY DEF PlanBefore
<1>8. s.active = PlanBefore(s, Len(s.approvals) + 1) /\ s.active \in 0 .. Len(s.plans)
  BY <1>1, <1>2, <1>3, <1>7 DEF RunSound
<1>9. s.plans[Len(s.plans)].base = s.active
  BY <1>2
<1> QED BY <1>5, <1>6, <1>8, <1>9 DEF RunSound

(* approve_plan: the latest plan is approved, in its own term. *)
LEMMA PlanApproved ==
    ASSUME NEW r, NEW s, NEW x \in ApprovalRow, RunSound(r), s \in RunRow,
           s.plans = r.plans, s.approvals = Append(r.approvals, x), s.active = Len(r.plans),
           s.intents = r.intents, s.term = r.term, s.commander = r.commander,
           r.plans # << >>, r.active # Len(r.plans), r.plans[Len(r.plans)].term = r.term,
           x.plan = Len(r.plans), x.term = r.term, x.by = r.commander
    PROVE  RunSound(s)
<1>1. r \in RunRow /\ r.active = PlanBefore(r, Len(r.approvals) + 1)
  BY DEF RunSound
<1>2. /\ Len(r.plans) \in Nat /\ DOMAIN r.plans = 1 .. Len(r.plans) /\ Len(r.approvals) \in Nat
      /\ r.plans \in Seq(EntryRow) /\ DOMAIN r.approvals = 1 .. Len(r.approvals)
  BY <1>1, RunFields
<1>3. /\ Len(s.approvals) = Len(r.approvals) + 1 /\ DOMAIN s.approvals = 1 .. Len(r.approvals) + 1
      /\ s.approvals[Len(r.approvals) + 1] = x /\ \A a \in DOMAIN r.approvals : s.approvals[a] = r.approvals[a]
  BY <1>1, RunFields
<1>4. Len(r.plans) \in DOMAIN r.plans
  BY <1>2
<1>5. r.plans[Len(r.plans)].by = r.commander /\ r.plans[Len(r.plans)].base = r.active
  BY <1>4 DEF RunSound, EntrySound
<1>6. ASSUME NEW a \in 1 .. Len(r.approvals) + 1 PROVE PlanBefore(s, a) = PlanBefore(r, a)
  <2>1. a # 1 => a - 1 \in DOMAIN r.approvals
    BY <1>2
  <2> QED BY <1>3, <2>1 DEF PlanBefore
<1>7. ASSUME NEW a \in DOMAIN s.approvals PROVE ApprovalSound(s, a)
  <2>1. CASE a = Len(r.approvals) + 1
    BY <1>1, <1>3, <1>4, <1>5, <1>6, <2>1 DEF ApprovalSound
  <2>2. CASE a # Len(r.approvals) + 1
    <3>1. a \in DOMAIN r.approvals /\ s.approvals[a] = r.approvals[a]
      BY <1>2, <1>3, <2>2
    <3>2. ApprovalSound(r, a) /\ PlanBefore(s, a) = PlanBefore(r, a)
      BY <1>2, <1>6, <3>1 DEF RunSound
    <3> QED BY <3>1, <3>2 DEF ApprovalSound
  <2> QED BY <2>1, <2>2
<1>8. ASSUME NEW k \in DOMAIN s.plans PROVE EntrySound(s, k)
  BY <1>8 DEF RunSound, EntrySound
<1>9. PlanBefore(s, Len(s.approvals) + 1) = Len(r.plans)
  <2>1. Len(s.approvals) + 1 # 1 /\ Len(s.approvals) + 1 - 1 = Len(r.approvals) + 1
    BY <1>2, <1>3
  <2> QED BY <1>3, <2>1 DEF PlanBefore
<1> QED BY <1>2, <1>7, <1>8, <1>9 DEF RunSound

-----------------------------------------------------------------------------
(* One lemma per operation: the record it writes is a Run's, and how it differs. *)
LEMMA IntentAdded ==
    ASSUME NEW r \in RunRow, NEW x \in IntentRow, NEW s, s = [r EXCEPT !.intents = Append(@, x)]
    PROVE  Steady(r, s)
<1>1. s.intents = Append(r.intents, x) /\ Append(r.intents, x) \in Seq(IntentRow)
  BY RunFields DEF RunRow
<1>2. s \in RunRow
  BY <1>1 DEF RunRow
<1>3. /\ s.plans = r.plans /\ s.approvals = r.approvals /\ s.active = r.active
      /\ s.term = r.term /\ s.commander = r.commander
  BY DEF RunRow
<1>4. \A i \in DOMAIN r.intents : i \in DOMAIN s.intents /\ s.intents[i] = r.intents[i]
  BY <1>1, RunFields
<1> QED BY <1>2, <1>3, <1>4 DEF Steady

(* What attach_planning_receipt and the admission of an execution write; a handoff approved. *)
WithReceipt(r, i, st, rc) == [r EXCEPT !.intents[i].state = st, !.intents[i].receipt = rc]
WithCommander(r, q, p) == [[r EXCEPT !.handoffs = q] EXCEPT !.commander = p, !.term = r.term + 1]

LEMMA IntentSet ==
    ASSUME NEW r \in RunRow, NEW i \in DOMAIN r.intents, NEW st \in {"admitted", "rejected"},
           NEW rc \in {"authority", "execution"}, NEW s,
           s = WithReceipt(r, i, st, rc),
           r.intents[i].state = "admitted" => st = "admitted"
    PROVE  Steady(r, s) /\ DOMAIN s.intents = DOMAIN r.intents
<1>0. r.intents \in Seq(IntentRow) /\ r.intents[i] \in IntentRow
  BY RunFields
<1>1. PICK x : x = [r.intents[i] EXCEPT !.state = st, !.receipt = rc]
  OBVIOUS
<1>2. x \in IntentRow /\ x.by = r.intents[i].by /\ x.term = r.intents[i].term /\ x.state = st
  BY <1>0, <1>1 DEF IntentRow
<1>3. PICK q : q = [r.intents EXCEPT ![i] = x]
  OBVIOUS
<1>4. q \in Seq(IntentRow) /\ DOMAIN q = DOMAIN r.intents
  BY <1>0, <1>2, <1>3
<1>5. q[i] = x /\ \A j \in DOMAIN r.intents : j # i => q[j] = r.intents[j]
  BY <1>3
<1>6. s = [r EXCEPT !.intents = q]
  BY <1>0, <1>1, <1>3 DEF RunRow, IntentRow, WithReceipt
<1>7. s \in RunRow /\ s.intents = q
  BY <1>4, <1>6 DEF RunRow
<1>8. /\ s.plans = r.plans /\ s.approvals = r.approvals /\ s.active = r.active
      /\ s.term = r.term /\ s.commander = r.commander
  BY <1>6 DEF RunRow
<1>9. ASSUME NEW j \in DOMAIN r.intents, r.intents[j].state = "admitted"
      PROVE  q[j].by = r.intents[j].by /\ q[j].term = r.intents[j].term /\ q[j].state = "admitted"
  <2>1. CASE j = i
    BY <1>2, <1>5, <1>9, <2>1
  <2>2. CASE j # i
    BY <1>5, <1>9, <2>2
  <2> QED BY <2>1, <2>2
<1> QED BY <1>4, <1>7, <1>8, <1>9 DEF Steady

LEMMA HandoffsSet ==
    ASSUME NEW r \in RunRow, NEW q \in Seq(HandoffRow), NEW s, s = [r EXCEPT !.handoffs = q]
    PROVE  Steady(r, s) /\ s.intents = r.intents
<1>1. s \in RunRow
  BY DEF RunRow
<1>2. /\ s.plans = r.plans /\ s.approvals = r.approvals /\ s.active = r.active
      /\ s.term = r.term /\ s.commander = r.commander /\ s.intents = r.intents
  BY DEF RunRow
<1> QED BY <1>1, <1>2 DEF Steady

LEMMA CommanderSet ==
    ASSUME NEW r \in RunRow, NEW q \in Seq(HandoffRow), NEW p \in Participants, NEW s,
           s = WithCommander(r, q, p)
    PROVE  Steady(r, s) /\ s.intents = r.intents
<1>4. PICK d : d = [r EXCEPT !.handoffs = q]
  OBVIOUS
<1>5. s = [d EXCEPT !.commander = p, !.term = r.term + 1]
  BY <1>4 DEF WithCommander
<1>0. d \in RunRow
  BY <1>4 DEF RunRow
<1>3. r.term + 1 \in Nat
  BY RunFields
<1>1. s \in RunRow
  BY <1>0, <1>3, <1>5 DEF RunRow
<1>2. /\ s.plans = r.plans /\ s.approvals = r.approvals /\ s.active = r.active
      /\ s.term = r.term + 1 /\ s.intents = r.intents
  BY <1>4, <1>5 DEF RunRow
<1> QED BY <1>1, <1>2 DEF Steady

LEMMA NewRunSound ==
    ASSUME NEW revision \in Nat
    PROVE  RunSound(NewRun(revision))
<1>1. Lead \in Participants
  BY DEF Participants
<1>2. PICK r : r = NewRun(revision)
  OBVIOUS
<1>3. r \in RunRow
  BY <1>1, <1>2 DEF NewRun, RunRow
<1>4. r.plans = << >> /\ r.approvals = << >> /\ r.active = 0
  BY <1>2 DEF NewRun
<1>5. RunSound(r)
  BY <1>3, <1>4 DEF RunSound, PlanBefore
<1> QED BY <1>2, <1>5

-----------------------------------------------------------------------------
(* A step that leaves everything but the Run and the submission alone. *)
LEMMA SavedRun ==
    ASSUME PlanningInv, run # None, UNCHANGED <<projectRevision, creator, created>>,
           RunSound(run) => RunSound(run'),
           submission' # 0 => submission' \in DOMAIN run'.intents
    PROVE  PlanningInv'
<1>1. created = 1 /\ created' = 1
  BY DEF PlanningInv
<1>2. RunSound(run')
  BY <1>1 DEF PlanningInv
<1> QED BY <1>1, <1>2 DEF PlanningInv

LEMMA RunThere ==
    ASSUME PlanningInv, run # None
    PROVE  created = 1 /\ RunSound(run) /\ run \in RunRow
  BY DEF PlanningInv, RunSound

LEMMA ReadProjectKeeps ==
    ASSUME PlanningInv, NEW c \in Creators, ReadProject(c)
    PROVE  PlanningInv'
<1>1. creator' \in [Creators -> CreatorRow]
  BY DEF PlanningInv, ReadProject, CreatorRow
<1> QED BY <1>1 DEF PlanningInv, ReadProject

LEMMA InsertRunKeeps ==
    ASSUME PlanningInv, NEW c \in Creators, InsertRun(c)
    PROVE  PlanningInv'
<1>1. creator[c] \in CreatorRow /\ creator[c].read \in Nat
  BY DEF PlanningInv, CreatorRow
<1>2. creator' \in [Creators -> CreatorRow]
  <2>1. PICK x : x = [creator[c] EXCEPT !.pc = "done"]
    OBVIOUS
  <2>2. x \in CreatorRow
    BY <1>1, <2>1 DEF CreatorRow
  <2>3. creator' = [creator EXCEPT ![c] = x]
    BY <1>1, <2>1 DEF InsertRun, CreatorRow, PlanningInv
  <2> QED BY <2>2, <2>3 DEF PlanningInv
<1>3. CASE created = 0
  <2>1. run' = NewRun(creator[c].read) /\ created' = 1 /\ submission' = 0 /\ projectRevision' = projectRevision
    BY <1>3 DEF InsertRun, PlanningInv
  <2>2. RunSound(run')
    BY <1>1, <2>1, NewRunSound
  <2> QED BY <1>2, <2>1, <2>2 DEF PlanningInv
<1>4. CASE created # 0
  BY <1>2, <1>4 DEF InsertRun, PlanningInv
<1> QED BY <1>3, <1>4

LEMMA PlanningIntentKeeps ==
    ASSUME PlanningInv, NEW p \in Participants, NEW term, PlanningIntent(p, term)
    PROVE  PlanningInv'
<1>1. created = 1 /\ RunSound(run) /\ run \in RunRow /\ term = run.term
  BY RunThere DEF PlanningIntent
<1>2. PICK x : x = [term |-> term, by |-> p, state |-> "awaiting_receipt", receipt |-> None]
  OBVIOUS
<1>3. x \in IntentRow
  BY <1>1, <1>2, RunFields DEF IntentRow
<1>4. run' = [run EXCEPT !.intents = Append(@, x)]
  BY <1>2 DEF PlanningIntent, SaveRun
<1>5. Steady(run, run')
  BY <1>1, <1>3, <1>4, IntentAdded
<1>6. RunSound(run')
  BY <1>1, <1>5, SteadyKeeps
<1>7. submission' # 0 => submission' \in DOMAIN run'.intents
  BY <1>5 DEF Steady, PlanningInv, PlanningIntent
<1> QED BY <1>6, <1>7, SavedRun DEF PlanningIntent, SaveRun

LEMMA AttachKeeps ==
    ASSUME PlanningInv, NEW i, NEW outcome \in {"admitted", "rejected"}, AttachPlanningReceipt(i, outcome)
    PROVE  PlanningInv'
<1>1. created = 1 /\ RunSound(run) /\ run \in RunRow /\ i \in DOMAIN run.intents
  BY RunThere DEF AttachPlanningReceipt
<1>2. run' = WithReceipt(run, i, outcome, "authority")
  BY DEF WithReceipt, AttachPlanningReceipt, SaveRun
<1>3. run.intents[i].state = "admitted" => outcome = "admitted"
  BY DEF AttachPlanningReceipt
<1>5. Steady(run, run')
  BY <1>1, <1>2, <1>3, IntentSet
<1>6. RunSound(run')
  BY <1>1, <1>5, SteadyKeeps
<1>7. submission' # 0 => submission' \in DOMAIN run'.intents
  BY <1>5 DEF Steady, PlanningInv, AttachPlanningReceipt
<1> QED BY <1>6, <1>7, SavedRun DEF AttachPlanningReceipt, SaveRun

LEMMA AdmitKeeps ==
    ASSUME PlanningInv, NEW i, AdmitExecution(i)
    PROVE  PlanningInv'
<1>1. created = 1 /\ RunSound(run) /\ run \in RunRow /\ i \in DOMAIN run.intents
  BY RunThere DEF AdmitExecution
<1>2. run' = WithReceipt(run, i, "admitted", "execution")
  BY DEF WithReceipt, AdmitExecution, SaveRun
<1>5. Steady(run, run') /\ DOMAIN run'.intents = DOMAIN run.intents
  BY <1>1, <1>2, IntentSet
<1>6. RunSound(run')
  BY <1>1, <1>5, SteadyKeeps
<1>7. submission' # 0 => submission' \in DOMAIN run'.intents
  BY <1>1, <1>5 DEF AdmitExecution
<1> QED BY <1>6, <1>7, SavedRun DEF AdmitExecution, SaveRun

(* submit_plan in both of its forms: what WithPlan writes. *)
LEMMA SubmittedIsSound ==
    ASSUME RunSound(run), NEW p, NEW term, NEW i \in DOMAIN run.intents, NEW latest, NEW plan \in Plans,
           MaySubmit(p, term, i, latest, plan), NEW s, s = WithPlan(p, term, i, plan)
    PROVE  RunSound(s) /\ s.intents = run.intents
<1>1. run \in RunRow /\ run.active \in 0 .. Len(run.plans)
  BY DEF RunSound
<1>2. term = run.term /\ p = run.commander /\ i \in Nat /\ run.active \in Nat /\ ValidPlan(plan)
  BY <1>1, RunFields DEF MaySubmit
<1>3. Reusable(plan) \in SUBSET TaskNames
  BY DEF Reusable, TaskNames
<1>4. PICK e : e = [term |-> term, by |-> p, intent |-> i, plan |-> plan,
                    base |-> run.active, reusable |-> Reusable(plan)]
  OBVIOUS
<1>5. e \in EntryRow
  <2> HIDE DEF EntryRow
  <2>1. run.term \in Nat /\ run.commander \in Participants
    BY <1>1, RunFields
  <2> QED BY <1>2, <1>3, <1>4, <2>1 DEF EntryRow
<1>6. /\ e.term = term /\ e.by = p /\ e.intent = i /\ e.plan = plan
      /\ e.base = run.active /\ e.reusable = Reusable(plan)
  BY <1>4
<1>7. PICK st \in {"planning", "awaiting_approval", "executing"} :
         st = IF run.active = 0 THEN "awaiting_approval" ELSE run.state
  BY <1>1, RunFields
<1>8. s = [run EXCEPT !.plans = Append(@, e), !.state = st]
  BY <1>1, <1>4, <1>7 DEF WithPlan, RunRow
<1>9. Append(run.plans, e) \in Seq(EntryRow)
  BY <1>1, <1>5, RunFields
<1>10. s \in RunRow
  BY <1>1, <1>7, <1>8, <1>9 DEF RunRow
<1>11. /\ s.plans = Append(run.plans, e) /\ s.approvals = run.approvals /\ s.active = run.active
       /\ s.intents = run.intents /\ s.term = run.term /\ s.commander = run.commander
  BY <1>1, <1>8 DEF RunRow
<1>12. Entitled(run.intents, e)
  BY <1>6 DEF Entitled, MaySubmit
<1>13. Kept(run.plans, e)
  <2> SUFFICES ASSUME NEW t \in Reusable(plan)
      PROVE /\ run.active # 0 /\ run.plans[run.active].plan.auth = plan.auth
            /\ \A u \in Ancestors(plan.tasks, t) :
                  /\ u \in DOMAIN run.plans[run.active].plan.tasks
                  /\ run.plans[run.active].plan.tasks[u] = plan.tasks[u]
    BY <1>6 DEF Kept
  <2> QED BY <1>1, <1>2, ReusableIsKept
<1>14. ValidPlan(e.plan) /\ e.term = run.term /\ e.by = run.commander /\ e.base = run.active
  BY <1>2, <1>6
<1>15. RunSound(s)
  BY ONLY <1>5, <1>10, <1>11, <1>12, <1>13, <1>14, RunSound(run), PlanAdded
<1> QED BY <1>11, <1>15

LEMMA SubmitPlanKeeps ==
    ASSUME PlanningInv, NEW p, NEW term, NEW i, NEW latest, NEW plan \in Plans,
           SubmitPlan(p, term, i, latest, plan)
    PROVE  PlanningInv'
<1>1. created = 1 /\ RunSound(run) /\ i \in DOMAIN run.intents
  BY RunThere DEF SubmitPlan
<1>2. run' = WithPlan(p, term, i, plan) /\ MaySubmit(p, term, i, latest, plan)
  BY DEF SubmitPlan, SaveRun
<1>3. RunSound(run') /\ run'.intents = run.intents
  BY <1>1, <1>2, SubmittedIsSound
<1>4. submission' # 0 => submission' \in DOMAIN run'.intents
  BY <1>3 DEF PlanningInv, SubmitPlan
<1> QED BY <1>3, <1>4, SavedRun DEF SubmitPlan, SaveRun

LEMMA SubmitExecutionPlanKeeps ==
    ASSUME PlanningInv, NEW latest, NEW plan \in Plans, SubmitExecutionPlan(latest, plan)
    PROVE  PlanningInv'
<1>1. created = 1 /\ RunSound(run) /\ submission \in DOMAIN run.intents /\ submission' = 0
  BY DEF PlanningInv, SubmitExecutionPlan
<1>2. UNCHANGED <<projectRevision, creator, created>>
  BY DEF SubmitExecutionPlan, SaveRun
<1>3. RunSound(run')
  <2>1. CASE UNCHANGED run
    BY <1>1, <2>1
  <2>2. CASE ~UNCHANGED run
    <3>1. PICK p, term : /\ run' = WithPlan(p, term, submission, plan)
                         /\ MaySubmit(p, term, submission, latest, plan)
      BY <2>2 DEF SubmitExecutionPlan, SaveRun
    <3> QED BY <1>1, <3>1, SubmittedIsSound
  <2> QED BY <2>1, <2>2
<1> QED BY <1>1, <1>2, <1>3 DEF PlanningInv

LEMMA ApprovePlanKeeps ==
    ASSUME PlanningInv, NEW term, NEW revision, ApprovePlan(term, revision)
    PROVE  PlanningInv'
<1>1. created = 1 /\ RunSound(run) /\ run \in RunRow
  BY RunThere DEF ApprovePlan
<1>2. /\ revision = Len(run.plans) /\ revision # 0 /\ term = run.term
      /\ run.plans[revision].term = term /\ run.active # revision
  BY DEF ApprovePlan
<1>3. PICK x : x = [plan |-> revision, term |-> term, by |-> run.commander]
  OBVIOUS
<1>4. x \in ApprovalRow /\ x.plan = revision /\ x.term = term /\ x.by = run.commander
  BY <1>1, <1>2, <1>3, RunFields DEF ApprovalRow
<1>5. run' = [run EXCEPT !.approvals = Append(@, x), !.active = revision, !.state = "executing"]
  BY <1>3 DEF ApprovePlan, SaveRun
<1>6. Append(run.approvals, x) \in Seq(ApprovalRow) /\ revision \in Nat
  BY <1>1, <1>2, <1>4, RunFields
<1>7. run' \in RunRow
  BY <1>1, <1>5, <1>6 DEF RunRow
<1>8. /\ run'.plans = run.plans /\ run'.approvals = Append(run.approvals, x) /\ run'.active = Len(run.plans)
      /\ run'.intents = run.intents /\ run'.term = run.term /\ run'.commander = run.commander
  BY <1>1, <1>2, <1>5 DEF RunRow
<1>9. run.plans # << >>
  BY <1>1, <1>2, RunFields
<1>10. RunSound(run')
  <2>1. PICK s : s = run'
    OBVIOUS
  <2>2. RunSound(s)
    BY ONLY <1>1, <1>2, <1>4, <1>7, <1>8, <1>9, <2>1, PlanApproved
  <2> QED BY <2>1, <2>2
<1>11. submission' # 0 => submission' \in DOMAIN run'.intents
  BY <1>8 DEF PlanningInv, ApprovePlan
<1> QED BY <1>10, <1>11, SavedRun DEF ApprovePlan, SaveRun

LEMMA ProposeHandoffKeeps ==
    ASSUME PlanningInv, NEW term, NEW latest, NEW candidate, ProposeHandoff(term, latest, candidate)
    PROVE  PlanningInv'
<1>1. created = 1 /\ RunSound(run) /\ run \in RunRow /\ candidate \in Participants
  BY RunThere DEF ProposeHandoff
<1>2. PICK old : old = [h \in DOMAIN run.handoffs |->
                      IF run.handoffs[h].state = "pending"
                        THEN [run.handoffs[h] EXCEPT !.state = "superseded"]
                        ELSE run.handoffs[h]]
  OBVIOUS
<1>3. run.handoffs \in Seq(HandoffRow) /\ DOMAIN run.handoffs = 1 .. Len(run.handoffs) /\ Len(run.handoffs) \in Nat
  BY <1>1, RunFields
<1>4. ASSUME NEW h \in DOMAIN run.handoffs PROVE old[h] \in HandoffRow
  <2>1. run.handoffs[h] \in HandoffRow
    BY <1>3
  <2>2. [run.handoffs[h] EXCEPT !.state = "superseded"] \in HandoffRow
    BY <2>1 DEF HandoffRow, HandoffStates
  <2> QED BY <1>2, <2>1, <2>2
<1>5. old \in Seq(HandoffRow)
  <2>1. old \in [1 .. Len(run.handoffs) -> HandoffRow]
    BY <1>2, <1>3, <1>4
  <2> QED BY <1>3, <2>1
<1>6. PICK x : x = [candidate |-> candidate, binding |-> HandoffBinding, state |-> "pending", expired |-> FALSE]
  OBVIOUS
<1>7. HandoffBinding \in BindingRow
  BY <1>1, RunFields DEF HandoffBinding, BindingRow
<1>8. x \in HandoffRow
  BY <1>1, <1>6, <1>7 DEF HandoffRow, HandoffStates
<1>9. Append(old, x) \in Seq(HandoffRow)
  BY <1>5, <1>8
<1>10. run' = [run EXCEPT !.handoffs = Append(old, x)]
  BY <1>2, <1>6 DEF ProposeHandoff, SaveRun
<1>11. Steady(run, run') /\ run'.intents = run.intents
  BY <1>1, <1>9, <1>10, HandoffsSet
<1>12. RunSound(run')
  BY <1>1, <1>11, SteadyKeeps
<1>13. submission' # 0 => submission' \in DOMAIN run'.intents
  BY <1>11 DEF PlanningInv, ProposeHandoff
<1> QED BY <1>12, <1>13, SavedRun DEF ProposeHandoff, SaveRun

LEMMA HandoffExpiresKeeps ==
    ASSUME PlanningInv, NEW h, HandoffExpires(h)
    PROVE  PlanningInv'
<1>1. created = 1 /\ RunSound(run) /\ run \in RunRow /\ h \in DOMAIN run.handoffs
  BY RunThere DEF HandoffExpires
<1>2. run.handoffs \in Seq(HandoffRow) /\ run.handoffs[h] \in HandoffRow
  BY <1>1, RunFields
<1>3. PICK x : x = [run.handoffs[h] EXCEPT !.expired = TRUE]
  OBVIOUS
<1>4. x \in HandoffRow
  BY <1>2, <1>3 DEF HandoffRow
<1>5. PICK q : q = [run.handoffs EXCEPT ![h] = x]
  OBVIOUS
<1>6. q \in Seq(HandoffRow)
  BY <1>1, <1>2, <1>4, <1>5
<1>7. run' = [run EXCEPT !.handoffs = q]
  BY <1>1, <1>2, <1>3, <1>5 DEF HandoffExpires, SaveRun, RunRow, HandoffRow
<1>11. Steady(run, run') /\ run'.intents = run.intents
  BY <1>1, <1>6, <1>7, HandoffsSet
<1>12. RunSound(run')
  BY <1>1, <1>11, SteadyKeeps
<1>13. submission' # 0 => submission' \in DOMAIN run'.intents
  BY <1>11 DEF PlanningInv, HandoffExpires
<1> QED BY <1>12, <1>13, SavedRun DEF HandoffExpires, SaveRun

LEMMA DecideHandoffKeeps ==
    ASSUME PlanningInv, NEW term, NEW h, NEW approve \in BOOLEAN, DecideHandoff(term, h, approve)
    PROVE  PlanningInv'
<1>1. created = 1 /\ RunSound(run) /\ run \in RunRow /\ h \in DOMAIN run.handoffs /\ term = run.term
  BY RunThere DEF DecideHandoff
<1>2. run.handoffs \in Seq(HandoffRow) /\ run.handoffs[h] \in HandoffRow
  BY <1>1, RunFields
<1>3. PICK st \in HandoffStates : st = IF approve THEN "approved" ELSE "rejected"
  BY DEF HandoffStates
<1>4. PICK x : x = [run.handoffs[h] EXCEPT !.state = st]
  OBVIOUS
<1>5. x \in HandoffRow
  BY <1>2, <1>3, <1>4 DEF HandoffRow
<1>6. PICK q : q = [run.handoffs EXCEPT ![h] = x]
  OBVIOUS
<1>7. q \in Seq(HandoffRow)
  BY <1>1, <1>2, <1>5, <1>6
<1>8. PICK d : d = [run EXCEPT !.handoffs = q]
  OBVIOUS
<1>9. d = [run EXCEPT !.handoffs[h].state = IF approve THEN "approved" ELSE "rejected"]
  BY <1>1, <1>2, <1>3, <1>4, <1>6, <1>8 DEF RunRow, HandoffRow
<1>10. run' = IF approve THEN [d EXCEPT !.commander = run.handoffs[h].candidate, !.term = term + 1] ELSE d
  BY <1>9 DEF DecideHandoff, SaveRun
<1>11. Steady(run, run') /\ run'.intents = run.intents
  <2>1. CASE approve
    <3>1. run.handoffs[h].candidate \in Participants
      BY <1>2 DEF HandoffRow
    <3>2. run' = WithCommander(run, q, run.handoffs[h].candidate)
      BY <1>1, <1>8, <1>10, <2>1 DEF WithCommander
    <3> QED BY <1>1, <1>7, <3>1, <3>2, CommanderSet
  <2>2. CASE ~approve
    BY <1>1, <1>7, <1>8, <1>10, <2>2, HandoffsSet
  <2> QED BY <2>1, <2>2
<1>12. RunSound(run')
  BY <1>1, <1>11, SteadyKeeps
<1>13. submission' # 0 => submission' \in DOMAIN run'.intents
  BY <1>11 DEF PlanningInv, DecideHandoff
<1> QED BY <1>12, <1>13, SavedRun DEF DecideHandoff, SaveRun

-----------------------------------------------------------------------------
LEMMA PlanningStart == PlanningInit => PlanningInv
<1> SUFFICES ASSUME PlanningInit PROVE PlanningInv
  OBVIOUS
<1>1. creator \in [Creators -> CreatorRow]
  BY DEF PlanningInit, CreatorRow
<1> QED BY <1>1 DEF PlanningInit, PlanningInv

LEMMA PlanningSteps == PlanningInv /\ [PlanningNext]_planVars => PlanningInv'
<1> SUFFICES ASSUME PlanningInv, [PlanningNext]_planVars PROVE PlanningInv'
  OBVIOUS
<1>1. ASSUME NEW c \in Creators, ReadProject(c) \/ InsertRun(c) PROVE PlanningInv'
  BY <1>1, ReadProjectKeeps, InsertRunKeeps
<1>2. CASE ProjectChanges
  BY <1>2 DEF ProjectChanges, PlanningInv
<1>3. CASE SubmissionStops
  BY <1>3 DEF SubmissionStops, PlanningInv
<1>4. ASSUME NEW p \in Participants, NEW t \in 1 .. MaxHandoffs + 1, PlanningIntent(p, t) PROVE PlanningInv'
  BY <1>4, PlanningIntentKeeps
<1>5. ASSUME NEW i \in 1 .. MaxIntents, NEW o \in {"admitted", "rejected"}, AttachPlanningReceipt(i, o)
      PROVE PlanningInv'
  BY <1>5, AttachKeeps
<1>6. ASSUME NEW i \in 1 .. MaxIntents, AdmitExecution(i) PROVE PlanningInv'
  BY <1>6, AdmitKeeps
<1>7. ASSUME NEW latest \in 0 .. MaxPlans, NEW plan \in Plans, SubmitExecutionPlan(latest, plan)
      PROVE PlanningInv'
  BY <1>7, SubmitExecutionPlanKeeps
<1>8. ASSUME NEW latest \in 0 .. MaxPlans, NEW plan \in Plans, NEW i \in DOMAIN run.intents,
             SubmitPlan(run.intents[i].by, run.intents[i].term, i, latest, plan)
      PROVE PlanningInv'
  BY <1>8, SubmitPlanKeeps
<1>9. ASSUME NEW t \in 1 .. MaxHandoffs + 1, NEW r \in 0 .. MaxPlans, ApprovePlan(t, r) PROVE PlanningInv'
  BY <1>9, ApprovePlanKeeps
<1>10. ASSUME NEW t \in 1 .. MaxHandoffs + 1, NEW latest \in 0 .. MaxPlans, NEW c \in Participants,
              ProposeHandoff(t, latest, c)
       PROVE PlanningInv'
  BY <1>10, ProposeHandoffKeeps
<1>11. ASSUME NEW t \in 1 .. MaxHandoffs + 1, NEW h \in 1 .. MaxHandoffs, NEW a \in BOOLEAN,
              DecideHandoff(t, h, a)
       PROVE PlanningInv'
  BY <1>11, DecideHandoffKeeps
<1>12. ASSUME NEW h \in 1 .. MaxHandoffs, HandoffExpires(h) PROVE PlanningInv'
  BY <1>12, HandoffExpiresKeeps
<1>13. CASE UNCHANGED planVars
  BY <1>13 DEF planVars, PlanningInv
<1> QED
  BY ONLY [PlanningNext]_planVars, <1>1, <1>2, <1>3, <1>4, <1>5, <1>6, <1>7, <1>8, <1>9, <1>10,
          <1>11, <1>12, <1>13
  DEF PlanningNext

LEMMA PlanningGives == PlanningInv => ApprovedPlansAreSound
<1> SUFFICES ASSUME PlanningInv PROVE ApprovedPlansAreSound
  OBVIOUS
<1>1. created <= 1
  BY DEF PlanningInv
<1>2. ASSUME run # None, NEW a \in DOMAIN run.approvals
      PROVE  /\ ApprovalSound(run, a) /\ EntrySound(run, run.approvals[a].plan)
             /\ run.approvals[a].plan \in DOMAIN run.plans
  BY <1>2, RunThere DEF RunSound, ApprovalSound
<1>3. ASSUME run # None, NEW a \in DOMAIN run.approvals
      PROVE  LET entry == run.plans[run.approvals[a].plan]
                 before == IF a = 1 THEN 0 ELSE run.approvals[a - 1].plan
             IN  /\ entry.term = run.approvals[a].term /\ entry.by = run.approvals[a].by
                 /\ Entitled(run.intents, entry) /\ ValidPlan(entry.plan) /\ entry.base = before
                 /\ \A t \in entry.reusable :
                       /\ before # 0 /\ run.plans[before].plan.auth = entry.plan.auth
                       /\ \A u \in Ancestors(entry.plan.tasks, t) :
                             /\ u \in DOMAIN run.plans[before].plan.tasks
                             /\ run.plans[before].plan.tasks[u] = entry.plan.tasks[u]
  <2> DEFINE entry == run.plans[run.approvals[a].plan]
  <2>1. entry.base = IF a = 1 THEN 0 ELSE run.approvals[a - 1].plan
    BY <1>2, <1>3 DEF ApprovalSound, PlanBefore
  <2>2. Entitled(run.intents, entry) /\ ValidPlan(entry.plan) /\ Kept(run.plans, entry)
    BY <1>2, <1>3 DEF EntrySound
  <2>3. entry.term = run.approvals[a].term /\ entry.by = run.approvals[a].by
    BY <1>2, <1>3 DEF ApprovalSound
  <2> HIDE DEF entry
  <2>4. \A t \in entry.reusable :
           /\ entry.base # 0 /\ run.plans[entry.base].plan.auth = entry.plan.auth
           /\ \A u \in Ancestors(entry.plan.tasks, t) :
                 /\ u \in DOMAIN run.plans[entry.base].plan.tasks
                 /\ run.plans[entry.base].plan.tasks[u] = entry.plan.tasks[u]
    BY <2>2 DEF Kept
  <2> QED BY <2>1, <2>2, <2>3, <2>4 DEF entry
<1> QED BY <1>1, <1>3, Zenon DEF ApprovedPlansAreSound, Entitled

(***************************************************************************)
(* Whatever the participants, the plans they may submit and the number of  *)
(* intents, plans and handoffs: one create command makes one Run; a plan   *)
(* the owner approves was submitted in that term by its commander, under   *)
(* an intent of its own that was admitted; and what approval declares      *)
(* reusable is, with all it rests on, word for word in the plan replaced.  *)
(* plan_impact's closure is over any finite task graph.                    *)
(***************************************************************************)
THEOREM ApprovalsStaySound == PlanningSpec => []ApprovedPlansAreSound
<1>1. PlanningSpec => []PlanningInv
  BY PlanningStart, PlanningSteps, PTL DEF PlanningSpec
<1> QED BY <1>1, PlanningGives, PTL

-----------------------------------------------------------------------------
(***************************************************************************)
(* Planning executions.  The admission side: the phase an admission is in  *)
(* says whether its execution claimed, and a transport effect needs both   *)
(* decisions of the Capacity store.                                        *)
(***************************************************************************)
Paid == {"budget_claimed", "capacity_admit_unknown", "capacity_activate_unknown", "admitted"}
Phases == Paid \union {"prepared", "denied", None}
Decisions == {None, "granted", "refused"}
Verdicts == [admit : Decisions, activate : Decisions]

PaidFor(x) ==
    /\ admission[x] \in {None, "prepared"} => claims[x] = 0
    /\ admission[x] \in Paid => claims[x] = 1
    /\ capacity[x].admit # None => claims[x] = 1
    /\ admission[x] = "admitted" => capacity[x].activate = "granted"
    /\ x \in effects => admission[x] = "admitted"

AdmissionInv ==
    /\ admission \in [Executions -> Phases]
    /\ claims \in [Executions -> {0, 1}]
    /\ capacity \in [Executions -> Verdicts]
    /\ advancing \in Executions \union {None}
    /\ effects \subseteq Executions
    /\ Used <= Budget
    /\ \A x \in Executions : PaidFor(x)

(***************************************************************************)
(* The submitting side: an execution past the capture of its output, and a *)
(* call that goes on with one, have the transport effect behind them.      *)
(***************************************************************************)
Captured == {"output_captured", "submit_claimed", "submission_unknown", "submitted"}
Crossing == {"captured", "claim", "claimed", "lookup", "start", "admit", "cross", "record", "unknown"}
SubmitCall ==
    [pc : Crossing \union {"idle", "evidence", "apply", "capture"}, x : Executions \union {None},
     read : Evidences, source : Nat, mine : BOOLEAN]

RowFollows(x) == execution[x] \in ExecutionRow /\ execution[x].state \in Captured => x \in effects
CallFollows(c) ==
    submitter[c].pc # "idle" =>
        /\ submitter[c].x \in Executions /\ execution[submitter[c].x] \in ExecutionRow
        /\ submitter[c].pc \in Crossing => submitter[c].x \in effects

SubmitInv ==
    /\ execution \in [Executions -> ExecutionRow \union {None}]
    /\ submitter \in [Submitters -> SubmitCall]
    /\ source \in Nat
    /\ accepted \subseteq effects
    /\ \A x \in Executions : RowFollows(x)
    /\ \A c \in Submitters : CallFollows(c)

ExecutionsInv == AdmissionInv /\ SubmitInv

(* A phase moves, and nothing else of the admission but who advances. *)
LEMMA PhaseMoves ==
    ASSUME AdmissionInv, NEW x \in Executions, NEW p \in Phases,
           admission' = [admission EXCEPT ![x] = p], UNCHANGED <<claims, capacity, effects>>,
           advancing' \in Executions \union {None},
           p \in {None, "prepared"} => claims[x] = 0, p \in Paid => claims[x] = 1,
           p = "admitted" => capacity[x].activate = "granted", x \in effects => p = "admitted"
    PROVE  AdmissionInv'
<1>1. admission' \in [Executions -> Phases] /\ admission'[x] = p
      /\ \A y \in Executions \ {x} : admission'[y] = admission[y]
  BY DEF AdmissionInv
<1>2. Used' <= Budget
  BY DEF AdmissionInv, Used
<1>3. ASSUME NEW y \in Executions PROVE PaidFor(y)'
  <2>1. PaidFor(y)
    BY DEF AdmissionInv
  <2>2. CASE y = x
    BY <1>1, <2>1, <2>2 DEF PaidFor
  <2>3. CASE y # x
    BY <1>1, <2>1, <2>3 DEF PaidFor
  <2> QED BY <2>2, <2>3
<1> QED BY <1>1, <1>2, <1>3 DEF AdmissionInv

(* What the receipts make of a phase is as well paid for. *)
LEMMA RecoveredIsPaid ==
    ASSUME AdmissionInv, NEW x \in Executions, Recovered(x) # admission[x]
    PROVE  /\ Recovered(x) \in Phases /\ claims[x] = 1 /\ x \notin effects
           /\ Recovered(x) \in {"capacity_activate_unknown", "admitted", "denied"}
           /\ Recovered(x) = "admitted" => capacity[x].activate = "granted"
<1>1. PaidFor(x) /\ admission[x] \in Phases /\ capacity[x] \in Verdicts
  BY DEF AdmissionInv
<1> QED BY <1>1, PlanningAssumption DEF Recovered, PaidFor, Phases, Paid, Verdicts, Decisions

LEMMA ClaimAdds ==
    ASSUME NEW S, IsFiniteSet(S), NEW f \in [S -> {0, 1}], NEW x \in S, f[x] = 0
    PROVE  SumFunctionOnSet([f EXCEPT ![x] = @ + 1], S) = SumFunctionOnSet(f, S) + 1
<1> DEFINE g == [f EXCEPT ![x] = @ + 1]
<1>1. g[x] = 1 /\ (\A y \in S : f[y] \in Int) /\ \A y \in S \ {x} : g[y] = f[y]
  OBVIOUS
<1>2. SumFunctionOnSet(f, S) \in Int
  BY <1>1, SumInt
<1> HIDE DEF g
<1>3. SumFunctionOnSet(g, S) = SumFunctionOnSet(f, S) - f[x] + g[x]
  BY <1>1, SumRewrite
<1>4. SumFunctionOnSet(g, S) = SumFunctionOnSet(f, S) + 1
  BY <1>1, <1>2, <1>3
<1> QED BY <1>4 DEF g

LEMMA BudgetIsKept ==
    ASSUME AdmissionInv, NEW x \in Executions, claims[x] = 0, Used + 1 <= Budget,
           claims' = [claims EXCEPT ![x] = @ + 1]
    PROVE  Used' <= Budget /\ claims' \in [Executions -> {0, 1}] /\ claims'[x] = 1
           /\ \A y \in Executions \ {x} : claims'[y] = claims[y]
<1>1. claims' \in [Executions -> {0, 1}] /\ claims'[x] = 1
      /\ \A y \in Executions \ {x} : claims'[y] = claims[y]
  BY DEF AdmissionInv
<1>2. \A y \in Executions : claims[y] \in Int
  BY DEF AdmissionInv
<1>3. IsFiniteSet(Executions) /\ Budget \in Nat
  BY PlanningAssumption
<1>4. SumFunctionOnSet(claims, Executions) \in Int
  BY <1>2, <1>3, SumInt
<1>5. SumFunctionOnSet(claims', Executions) = SumFunctionOnSet(claims, Executions) + 1
  BY <1>3, ClaimAdds DEF AdmissionInv
<1> QED BY <1>1, <1>3, <1>4, <1>5 DEF Used

LEMMA AdvanceKeeps ==
    ASSUME AdmissionInv,
           \/ \E x \in Executions : AdvanceBegins(x) \/ RecoverReceipts(x) \/ Effect(x)
           \/ AdvanceDenies \/ ClaimBudget \/ DispatchAdmit \/ AdvanceRecords \/ AdvanceStops
           \/ \E call \in {"admit", "activate"}, d \in {"granted", "refused"} : CapacityDecides(call, d)
    PROVE  AdmissionInv' /\ effects \subseteq effects'
<1>0. /\ advancing \in Executions \union {None}
      /\ \A x \in Executions : PaidFor(x) /\ admission[x] \in Phases /\ capacity[x] \in Verdicts
  BY DEF AdmissionInv
<1>1. ASSUME NEW x \in Executions, AdvanceBegins(x) PROVE AdmissionInv' /\ effects \subseteq effects'
  <2> DEFINE p == IF admission[x] = None THEN "prepared" ELSE admission[x]
  <2>1. /\ p \in {"prepared", "budget_claimed"} /\ p \in Phases /\ admission' = [admission EXCEPT ![x] = p]
        /\ UNCHANGED <<claims, capacity, effects>> /\ advancing' \in Executions \union {None}
    BY <1>0, <1>1 DEF AdvanceBegins, AdmissionInv, Phases, Paid
  <2>2. /\ p \in {None, "prepared"} => claims[x] = 0
        /\ p \in Paid => claims[x] = 1
    BY <1>0, <1>1, PlanningAssumption DEF AdvanceBegins, PaidFor, Paid
  <2>3. x \notin effects
    BY <1>0, <1>1, PlanningAssumption DEF AdvanceBegins, PaidFor
  <2>4. p # "admitted"
    BY <2>1
  <2> HIDE DEF p
  <2> QED BY <2>1, <2>2, <2>3, <2>4, PhaseMoves
<1>2. ASSUME NEW x \in Executions, RecoverReceipts(x) PROVE AdmissionInv' /\ effects \subseteq effects'
  <2>1. /\ Recovered(x) # admission[x] /\ admission' = [admission EXCEPT ![x] = Recovered(x)]
        /\ UNCHANGED <<claims, capacity, effects>> /\ advancing' \in Executions \union {None}
    BY <1>0, <1>2 DEF RecoverReceipts
  <2>2. Recovered(x) \notin {None, "prepared"}
    BY <2>1, RecoveredIsPaid, PlanningAssumption
  <2> QED BY <2>1, <2>2, RecoveredIsPaid, PhaseMoves
<1>3. ASSUME NEW x \in Executions, Effect(x) PROVE AdmissionInv' /\ effects \subseteq effects'
  BY <1>3 DEF Effect, AdmissionInv, PaidFor, Used
<1>4. CASE AdvanceDenies
  <2>1. /\ advancing \in Executions /\ admission' = [admission EXCEPT ![advancing] = "denied"]
        /\ UNCHANGED <<claims, capacity, effects>> /\ advancing' \in Executions \union {None}
        /\ advancing \notin effects
    BY <1>0, <1>4 DEF AdvanceDenies, PaidFor
  <2>2. "denied" \in Phases /\ "denied" \notin Paid /\ "denied" \notin {None, "prepared"}
    BY PlanningAssumption DEF Phases, Paid
  <2> QED BY <2>1, <2>2, PhaseMoves
<1>5. CASE ClaimBudget
  <2>1. /\ advancing \in Executions /\ admission[advancing] = "prepared" /\ claims[advancing] = 0
        /\ advancing \notin effects /\ capacity[advancing].admit = None
        /\ UNCHANGED <<capacity, effects>>
    BY <1>0, <1>5 DEF ClaimBudget, PaidFor
  <2>2. CASE Used + 1 > Budget
    <3>1. /\ admission' = [admission EXCEPT ![advancing] = "denied"]
          /\ UNCHANGED <<claims, capacity, effects>> /\ advancing' \in Executions \union {None}
      BY <1>5, <2>2 DEF ClaimBudget
    <3>2. "denied" \in Phases /\ "denied" \notin Paid /\ "denied" \notin {None, "prepared"}
      BY PlanningAssumption DEF Phases, Paid
    <3> QED BY <2>1, <3>1, <3>2, PhaseMoves
  <2>3. CASE ~(Used + 1 > Budget)
    <3>1. /\ admission' = [admission EXCEPT ![advancing] = "budget_claimed"]
          /\ claims' = [claims EXCEPT ![advancing] = @ + 1] /\ UNCHANGED advancing
      BY <1>5, <2>3 DEF ClaimBudget
    <3>2. Used \in Int
      <4>1. \A y \in Executions : claims[y] \in Int
        BY DEF AdmissionInv
      <4> QED BY <4>1, SumInt, PlanningAssumption DEF Used
    <3>3. Used + 1 <= Budget
      BY <2>3, <3>2, PlanningAssumption
    <3>4. Used' <= Budget /\ claims' \in [Executions -> {0, 1}] /\ claims'[advancing] = 1
          /\ \A y \in Executions \ {advancing} : claims'[y] = claims[y]
      BY <2>1, <3>1, <3>3, BudgetIsKept
    <3>5. admission' \in [Executions -> Phases] /\ admission'[advancing] = "budget_claimed"
          /\ \A y \in Executions \ {advancing} : admission'[y] = admission[y]
      BY <2>1, <3>1 DEF AdmissionInv, Phases, Paid
    <3>6. ASSUME NEW y \in Executions PROVE PaidFor(y)'
      <4>1. CASE y = advancing
        BY <2>1, <3>4, <3>5, <4>1, PlanningAssumption DEF PaidFor
      <4>2. CASE y # advancing
        BY <1>0, <2>1, <3>4, <3>5, <4>2 DEF PaidFor
      <4> QED BY <4>1, <4>2
    <3> QED BY <1>0, <2>1, <3>1, <3>4, <3>5, <3>6 DEF AdmissionInv
  <2> QED BY <2>2, <2>3
<1>6. CASE DispatchAdmit
  <2>1. /\ advancing \in Executions /\ admission[advancing] = "budget_claimed"
        /\ admission' = [admission EXCEPT ![advancing] = "capacity_admit_unknown"]
        /\ UNCHANGED <<claims, capacity, effects, advancing>>
    BY <1>0, <1>6 DEF DispatchAdmit
  <2>2. claims[advancing] = 1 /\ advancing \notin effects
    BY <1>0, <2>1 DEF PaidFor, Paid
  <2>3. "capacity_admit_unknown" \in Phases /\ "capacity_admit_unknown" \notin {None, "prepared"}
    BY PlanningAssumption DEF Phases, Paid
  <2> QED BY <1>0, <2>1, <2>2, <2>3, PhaseMoves
<1>7. CASE AdvanceRecords
  <2>1. /\ advancing \in Executions /\ Recovered(advancing) # admission[advancing]
        /\ admission' = [admission EXCEPT ![advancing] = Recovered(advancing)]
        /\ UNCHANGED <<claims, capacity, effects>> /\ advancing' \in Executions \union {None}
    BY <1>0, <1>7 DEF AdvanceRecords
  <2>2. Recovered(advancing) \notin {None, "prepared"}
    BY <2>1, RecoveredIsPaid, PlanningAssumption
  <2> QED BY <2>1, <2>2, RecoveredIsPaid, PhaseMoves
<1>8. CASE AdvanceStops
  BY <1>8 DEF AdvanceStops, AdmissionInv, PaidFor, Used
<1>9. ASSUME NEW call \in {"admit", "activate"}, NEW d \in {"granted", "refused"}, CapacityDecides(call, d)
      PROVE  AdmissionInv' /\ effects \subseteq effects'
  <2>1. /\ advancing \in Executions /\ capacity[advancing][call] = None
        /\ admission[advancing] \in {"capacity_admit_unknown", "capacity_activate_unknown"}
        /\ UNCHANGED <<admission, claims, effects, advancing>>
    BY <1>0, <1>9 DEF CapacityDecides
  <2>2. claims[advancing] = 1 /\ admission[advancing] # "admitted"
    BY <1>0, <2>1 DEF PaidFor, Paid
  <2>3. [capacity[advancing] EXCEPT ![call] = d] \in Verdicts
    BY <1>0, <2>1 DEF Verdicts, Decisions
  <2>4. capacity' \in [Executions -> Verdicts] /\ \A y \in Executions \ {advancing} : capacity'[y] = capacity[y]
    BY <1>9, <2>1, <2>3 DEF CapacityDecides, AdmissionInv
  <2>5. ASSUME NEW y \in Executions PROVE PaidFor(y)'
    <3>1. CASE y = advancing
      BY <1>0, <2>1, <2>2, <3>1, PlanningAssumption DEF PaidFor
    <3>2. CASE y # advancing
      BY <1>0, <2>1, <2>4, <3>2 DEF PaidFor
    <3> QED BY <3>1, <3>2
  <2> QED BY <2>1, <2>4, <2>5 DEF AdmissionInv, Used
<1> QED BY <1>1, <1>2, <1>3, <1>4, <1>5, <1>6, <1>7, <1>8, <1>9

-----------------------------------------------------------------------------
(* One execution's row is rewritten, and a call goes on with that execution. *)
RowMoves(x) ==
    /\ execution' \in [Executions -> ExecutionRow \union {None}]
    /\ \A y \in Executions \ {x} : execution'[y] = execution[y]
    /\ execution'[x] \in ExecutionRow
    /\ execution'[x].state \in Captured => x \in effects

CallMoves(c, x) ==
    /\ submitter' \in [Submitters -> SubmitCall]
    /\ \A d \in Submitters \ {c} : submitter'[d] = submitter[d]
    /\ submitter'[c].pc # "idle" => submitter'[c].x = x /\ (submitter'[c].pc \in Crossing => x \in effects)

LEMMA SubmitMoves ==
    ASSUME SubmitInv, NEW c \in Submitters, NEW x \in Executions, RowMoves(x), CallMoves(c, x),
           source' \in Nat, UNCHANGED effects, accepted' \subseteq effects
    PROVE  SubmitInv'
<1>1. ASSUME NEW y \in Executions PROVE RowFollows(y)'
  <2>1. CASE y = x
    BY <2>1 DEF RowMoves, RowFollows
  <2>2. CASE y # x
    BY <2>2 DEF RowMoves, RowFollows, SubmitInv
  <2> QED BY <2>1, <2>2
<1>2. ASSUME NEW d \in Submitters PROVE CallFollows(d)'
  <2>1. CASE d = c
    BY <2>1 DEF RowMoves, CallMoves, CallFollows
  <2>2. CASE d # c
    <3>1. CallFollows(d) /\ submitter'[d] = submitter[d]
      BY <2>2 DEF SubmitInv, CallMoves
    <3>2. \A y \in Executions : execution[y] \in ExecutionRow => execution'[y] \in ExecutionRow
      BY DEF RowMoves
    <3> QED BY <3>1, <3>2 DEF CallFollows
  <2> QED BY <2>1, <2>2
<1> QED BY <1>1, <1>2 DEF SubmitInv, RowMoves, CallMoves

(* A row alone is rewritten: begin and cancel. *)
LEMMA RowsMove ==
    ASSUME SubmitInv, NEW x \in Executions, RowMoves(x), UNCHANGED <<submitter, source, effects, accepted>>
    PROVE  SubmitInv'
<1>1. ASSUME NEW y \in Executions PROVE RowFollows(y)'
  <2>1. CASE y = x
    BY <2>1 DEF RowMoves, RowFollows
  <2>2. CASE y # x
    BY <2>2 DEF RowMoves, RowFollows, SubmitInv
  <2> QED BY <2>1, <2>2
<1>2. ASSUME NEW d \in Submitters PROVE CallFollows(d)'
  <2>1. CallFollows(d)
    BY DEF SubmitInv
  <2>2. \A y \in Executions : execution[y] \in ExecutionRow => execution'[y] \in ExecutionRow
    BY DEF RowMoves
  <2> QED BY <2>1, <2>2 DEF CallFollows
<1> QED BY <1>1, <1>2 DEF SubmitInv, RowMoves

(* The submitting side while only effects are added. *)
LEMMA SubmitStands ==
    ASSUME SubmitInv, UNCHANGED <<execution, submitter, accepted>>, source' \in Nat, effects \subseteq effects'
    PROVE  SubmitInv'
  BY DEF SubmitInv, RowFollows, CallFollows

LEMMA GoesMoves ==
    ASSUME SubmitInv, NEW c \in Submitters, NEW pc \in Crossing \union {"idle", "evidence", "apply", "capture"},
           pc \in Crossing => submitter[c].x \in effects, Goes(c, pc)
    PROVE  CallMoves(c, submitter[c].x)
<1>1. submitter[c] \in SubmitCall /\ submitter \in [Submitters -> SubmitCall]
  BY DEF SubmitInv
<1>2. [submitter[c] EXCEPT !.pc = pc] \in SubmitCall /\ [submitter[c] EXCEPT !.pc = pc].pc = pc
      /\ [submitter[c] EXCEPT !.pc = pc].x = submitter[c].x
  BY <1>1 DEF SubmitCall
<1>3. submitter' = [submitter EXCEPT ![c] = [submitter[c] EXCEPT !.pc = pc]]
  BY DEF Goes
<1> QED BY <1>1, <1>2, <1>3 DEF CallMoves

(* A new state of a row. *)
LEMMA StateMoves ==
    ASSUME SubmitInv, NEW x \in Executions, execution[x] \in ExecutionRow, NEW r \in ExecutionRow,
           r.state \in Captured => x \in effects, execution' = [execution EXCEPT ![x] = r]
    PROVE  RowMoves(x)
  BY DEF RowMoves, SubmitInv

LEMMA RowStands ==
    ASSUME SubmitInv, NEW x \in Executions, execution[x] \in ExecutionRow, UNCHANGED execution
    PROVE  RowMoves(x)
  BY DEF RowMoves, SubmitInv, RowFollows

LEMMA BlockedMoves ==
    ASSUME SubmitInv, NEW x \in Executions, execution[x] \in ExecutionRow, execution' = Blocked(x)
    PROVE  RowMoves(x)
<1>1. CASE execution' = execution
  BY <1>1, RowStands
<1>2. CASE execution' = [execution EXCEPT ![x].state = "blocked"]
  <2>1. [execution[x] EXCEPT !.state = "blocked"] \in ExecutionRow
        /\ [execution[x] EXCEPT !.state = "blocked"].state \notin Captured
    BY DEF ExecutionRow, Captured
  <2>2. execution' = [execution EXCEPT ![x] = [execution[x] EXCEPT !.state = "blocked"]]
    BY <1>2
  <2> QED BY <2>1, <2>2, StateMoves
<1> QED BY <1>1, <1>2 DEF Blocked

(* Where submit goes on: only past the capture for an execution that has its effect. *)
LEMMA AfterFollows ==
    ASSUME NEW x \in Executions, RowMoves(x)
    PROVE  /\ After(execution'[x].state) \in Crossing \union {"idle", "evidence", "apply", "capture"}
           /\ After(execution'[x].state) \in Crossing => x \in effects
  BY DEF RowMoves, ExecutionRow, After, Crossing, Captured

(* A call up to its capture of the output. *)
LEMMA CapturingKeeps ==
    ASSUME SubmitInv, NEW c \in Submitters,
           \/ \E x \in Executions : SubmitBegins(c, x)
           \/ ReadEvidence(c) \/ ApplyEvidence(c) \/ ReadOutput(c) \/ CaptureOutput(c)
    PROVE  SubmitInv'
<1> DEFINE x == submitter[c].x
           row == execution[x]
<1>0. /\ submitter[c] \in SubmitCall /\ source \in Nat /\ accepted \subseteq effects
      /\ submitter[c].pc # "idle" => x \in Executions /\ row \in ExecutionRow /\ RowFollows(x)
  BY DEF SubmitInv, CallFollows
<1>1. ASSUME NEW y \in Executions, SubmitBegins(c, y) PROVE SubmitInv'
  <2> DEFINE pc == IF execution[y].state \in {"awaiting_admission", "admission_unknown"} THEN "evidence"
                   ELSE After(execution[y].state)
             call == [Idle EXCEPT !.x = y, !.pc = pc]
  <2>1. /\ execution[y] \in ExecutionRow /\ submitter' = [submitter EXCEPT ![c] = call]
        /\ UNCHANGED <<execution, source, effects, accepted>>
    BY <1>1 DEF SubmitBegins, Begun, SubmitInv, ledger
  <2>2. RowMoves(y)
    BY <2>1, RowStands
  <2>3. /\ After(execution[y].state) \in Crossing \union {"idle", "evidence", "apply", "capture"}
        /\ After(execution[y].state) \in Crossing => y \in effects
    BY <2>1, <2>2, AfterFollows
  <2>4. /\ pc \in Crossing \union {"idle", "evidence", "apply", "capture"}
        /\ pc \in Crossing => y \in effects
    BY <2>3 DEF Crossing
  <2> HIDE DEF pc
  <2>5. call \in SubmitCall /\ call.pc = pc /\ call.x = y
    <3>1. Idle \in SubmitCall
      BY DEF Idle, SubmitCall, Evidences
    <3> QED BY <2>4, <3>1 DEF SubmitCall
  <2> HIDE DEF call
  <2>6. CallMoves(c, y)
    BY <2>1, <2>4, <2>5 DEF CallMoves, SubmitInv
  <2> QED BY <1>0, <2>1, <2>2, <2>6, SubmitMoves
<1>2. CASE ReadEvidence(c)
  <2>1. x \in Executions /\ row \in ExecutionRow /\ UNCHANGED <<execution, source, effects, accepted>>
        /\ submitter' = [submitter EXCEPT ![c] = [submitter[c] EXCEPT !.pc = "apply", !.read = EvidenceOf(x), !.source = source]]
    BY <1>0, <1>2 DEF ReadEvidence, ledger
  <2>2. EvidenceOf(x) \in Evidences
    BY DEF EvidenceOf, Evidences
  <2>3. [submitter[c] EXCEPT !.pc = "apply", !.read = EvidenceOf(x), !.source = source] \in SubmitCall
    BY <1>0, <2>2 DEF SubmitCall
  <2>4. CallMoves(c, x)
    BY <1>0, <2>1, <2>3 DEF CallMoves, SubmitInv, Crossing, SubmitCall
  <2>5. RowMoves(x)
    BY <2>1, RowStands
  <2> QED BY <1>0, <2>1, <2>4, <2>5, SubmitMoves
<1>3. CASE ApplyEvidence(c)
  <2> DEFINE fresh == submitter[c].read
  <2>1. x \in Executions /\ row \in ExecutionRow /\ UNCHANGED <<source, effects, accepted>>
        /\ Goes(c, After(execution'[x].state)) /\ fresh \in Evidences /\ submitter[c].source \in Nat
    BY <1>0, <1>3 DEF ApplyEvidence, ledger, SubmitCall
  <2>2. \/ execution' = Blocked(x) \/ execution' = execution
        \/ execution' = [execution EXCEPT ![x] = [row EXCEPT !.evidence = fresh, !.state = "admission_unknown"]]
        \/ execution' = [execution EXCEPT ![x] = [row EXCEPT !.evidence = fresh, !.source = submitter[c].source,
                                                             !.state = "awaiting_output"]]
    BY <1>0, <1>3 DEF ApplyEvidence
  <2>3. /\ [row EXCEPT !.evidence = fresh, !.state = "admission_unknown"] \in ExecutionRow
        /\ [row EXCEPT !.evidence = fresh, !.state = "admission_unknown"].state = "admission_unknown"
        /\ [row EXCEPT !.evidence = fresh, !.source = submitter[c].source, !.state = "awaiting_output"] \in ExecutionRow
        /\ [row EXCEPT !.evidence = fresh, !.source = submitter[c].source, !.state = "awaiting_output"].state = "awaiting_output"
    BY <2>1 DEF ExecutionRow
  <2>4. "admission_unknown" \notin Captured /\ "awaiting_output" \notin Captured
    BY DEF Captured
  <2>5. RowMoves(x)
    BY <2>1, <2>2, <2>3, <2>4, BlockedMoves, RowStands, StateMoves
  <2>6. CallMoves(c, x)
    BY <2>1, <2>5, AfterFollows, GoesMoves
  <2> QED BY <1>0, <2>1, <2>5, <2>6, SubmitMoves
<1>4. CASE ReadOutput(c)
  <2>1. x \in Executions /\ row \in ExecutionRow /\ UNCHANGED <<source, effects, accepted>>
        /\ \/ execution' = Blocked(x) /\ Goes(c, "idle")
           \/ UNCHANGED execution /\ Goes(c, "captured") /\ x \in effects
    BY <1>0, <1>4 DEF ReadOutput, ledger
  <2>2. RowMoves(x)
    BY <2>1, BlockedMoves, RowStands
  <2>3. CallMoves(c, x)
    BY <2>1, GoesMoves DEF Crossing
  <2> QED BY <1>0, <2>1, <2>2, <2>3, SubmitMoves
<1>5. CASE CaptureOutput(c)
  <2>1. x \in Executions /\ row \in ExecutionRow /\ UNCHANGED <<source, effects, accepted>> /\ x \in effects
        /\ Goes(c, After(execution'[x].state))
        /\ \/ execution' = execution
           \/ execution' = [execution EXCEPT ![x] = [row EXCEPT !.state = "output_captured"]]
    BY <1>0, <1>5 DEF CaptureOutput, ledger, SubmitInv, CallFollows, Crossing
  <2>2. [row EXCEPT !.state = "output_captured"] \in ExecutionRow
    BY <2>1 DEF ExecutionRow, Captured
  <2>3. RowMoves(x)
    BY <2>1, <2>2, RowStands, StateMoves
  <2>4. CallMoves(c, x)
    BY <2>1, <2>3, AfterFollows, GoesMoves
  <2> QED BY <1>0, <2>1, <2>3, <2>4, SubmitMoves
<1> QED BY <1>1, <1>2, <1>3, <1>4, <1>5

(* A call that claims the submission, crosses into the Run store and records. *)
LEMMA CrossingKeeps ==
    ASSUME SubmitInv, NEW c \in Submitters,
           \/ ReadSource(c) \/ ClaimSubmission(c) \/ LookupReceipt(c) \/ StartSubmission(c)
           \/ AdmitIntent(c) \/ CrossIntoRun(c) \/ LoseAnswer(c) \/ RecordSubmission(c)
    PROVE  SubmitInv'
<1> DEFINE x == submitter[c].x
           row == execution[x]
<1>0. /\ submitter[c] \in SubmitCall /\ source \in Nat /\ accepted \subseteq effects
      /\ x \in Executions /\ row \in ExecutionRow /\ x \in effects /\ UNCHANGED <<source, effects>>
      /\ ~CrossIntoRun(c) => UNCHANGED accepted
  BY DEF SubmitInv, CallFollows, Crossing, ReadSource, ClaimSubmission, LookupReceipt, StartSubmission,
         AdmitIntent, CrossIntoRun, LoseAnswer, RecordSubmission, ledger
<1>a. ASSUME NEW s \in Captured \union {"blocked"} PROVE [row EXCEPT !.state = s] \in ExecutionRow
  BY <1>0 DEF ExecutionRow, Captured
<1>b. ASSUME NEW b \in BOOLEAN PROVE [row EXCEPT !.started = b] \in ExecutionRow
  BY <1>0 DEF ExecutionRow
<1>c. ASSUME NEW r \in ExecutionRow, execution' = [execution EXCEPT ![x] = r] PROVE RowMoves(x)
  BY <1>0, <1>c, StateMoves
<1>d. ASSUME NEW pc \in Crossing \union {"idle"}, Goes(c, pc) PROVE CallMoves(c, x)
  BY <1>0, <1>d, GoesMoves
<1>e. {"claimed", "admit", "cross", "record", "unknown", "start", "lookup"} \subseteq Crossing
      /\ {"submit_claimed", "submission_unknown", "submitted"} \subseteq Captured
  BY DEF Crossing, Captured
<1>1. CASE ReadSource(c)
  <2>1. \/ execution' = Blocked(x) /\ Goes(c, "idle")
        \/ UNCHANGED execution /\ Goes(c, "claimed")
    BY <1>1 DEF ReadSource
  <2>2. RowMoves(x) /\ CallMoves(c, x)
    BY <1>0, <1>d, <1>e, <2>1, BlockedMoves, RowStands
  <2> QED BY <1>0, <2>2, SubmitMoves, <1>1 DEF ReadSource, ledger
<1>2. CASE ClaimSubmission(c)
  <2> DEFINE r == [row EXCEPT !.state = "submit_claimed", !.started = FALSE]
             call == submitter'[c]
  <2>1. r \in ExecutionRow
    BY <1>0 DEF ExecutionRow, Captured
  <2>2. execution' = execution \/ execution' = [execution EXCEPT ![x] = r]
    BY <1>2 DEF ClaimSubmission
  <2>3. RowMoves(x)
    BY <1>0, <1>c, <2>1, <2>2, RowStands
  <2>4. PICK mine \in BOOLEAN, pc \in {"lookup", "idle"} :
          submitter' = [submitter EXCEPT ![c] = [submitter[c] EXCEPT !.mine = mine, !.pc = pc]]
    <3>1. submitter' = [submitter EXCEPT ![c] = [submitter[c] EXCEPT
             !.mine = (execution[x].state = "output_captured" /\ ~execution[x].cancel),
             !.pc = IF execution'[x].state \in {"submit_claimed", "submission_unknown"} THEN "lookup" ELSE "idle"]]
      BY <1>2 DEF ClaimSubmission
    <3> QED BY <3>1
  <2>5. [submitter[c] EXCEPT !.mine = mine, !.pc = pc] \in SubmitCall
        /\ [submitter[c] EXCEPT !.mine = mine, !.pc = pc].x = x
    BY <1>0, <1>e, <2>4 DEF SubmitCall
  <2>6. CallMoves(c, x)
    BY <1>0, <2>4, <2>5 DEF CallMoves, SubmitInv
  <2> QED BY <1>0, <2>3, <2>6, SubmitMoves, <1>2 DEF ClaimSubmission, ledger
<1>3. CASE LookupReceipt(c)
  <2>1. UNCHANGED <<execution, accepted>> /\ (Goes(c, "record") \/ Goes(c, "start"))
    BY <1>3 DEF LookupReceipt, ledger
  <2>2. RowMoves(x) /\ CallMoves(c, x)
    BY <1>0, <1>d, <1>e, <2>1, RowStands
  <2> QED BY <1>0, <2>1, <2>2, SubmitMoves
<1>4. CASE StartSubmission(c)
  <2>1. /\ \/ execution' = execution
           \/ execution' = [execution EXCEPT ![x] = [row EXCEPT !.state = "submission_unknown"]]
           \/ execution' = [execution EXCEPT ![x] = [row EXCEPT !.started = TRUE]]
        /\ UNCHANGED accepted /\ (Goes(c, "idle") \/ Goes(c, "admit"))
    BY <1>4 DEF StartSubmission, ledger
  <2>2. RowMoves(x) /\ CallMoves(c, x)
    BY <1>0, <1>a, <1>b, <1>c, <1>d, <1>e, <2>1, RowStands
  <2> QED BY <1>0, <2>1, <2>2, SubmitMoves
<1>5. CASE AdmitIntent(c)
  <2>1. UNCHANGED accepted /\ \/ UNCHANGED execution /\ Goes(c, "cross")
                              \/ execution' = Blocked(x) /\ Goes(c, "idle")
    BY <1>5 DEF AdmitIntent
  <2>2. RowMoves(x) /\ CallMoves(c, x)
    BY <1>0, <1>d, <1>e, <2>1, BlockedMoves, RowStands
  <2> QED BY <1>0, <2>1, <2>2, SubmitMoves
<1>6. CASE CrossIntoRun(c)
  <2>1. \/ /\ accepted' = accepted \union {x} /\ UNCHANGED execution
           /\ (Goes(c, "record") \/ Goes(c, "unknown"))
        \/ execution' = Blocked(x) /\ Goes(c, "idle") /\ UNCHANGED accepted
    BY <1>6 DEF CrossIntoRun
  <2>2. RowMoves(x) /\ CallMoves(c, x)
    BY <1>0, <1>d, <1>e, <2>1, BlockedMoves, RowStands
  <2>3. accepted' \subseteq effects
    BY <1>0, <2>1
  <2> QED BY <1>0, <2>2, <2>3, SubmitMoves
<1>7. CASE LoseAnswer(c)
  <2>1. /\ \/ execution' = execution
           \/ execution' = [execution EXCEPT ![x] = [row EXCEPT !.state = "submission_unknown"]]
        /\ UNCHANGED accepted /\ Goes(c, "idle")
    BY <1>7 DEF LoseAnswer, ledger
  <2>2. RowMoves(x) /\ CallMoves(c, x)
    BY <1>0, <1>a, <1>c, <1>d, <1>e, <2>1, RowStands
  <2> QED BY <1>0, <2>1, <2>2, SubmitMoves
<1>8. CASE RecordSubmission(c)
  <2>1. /\ execution' = [execution EXCEPT ![x] = [row EXCEPT !.submitted = TRUE, !.state = "submitted"]]
        /\ UNCHANGED accepted /\ Goes(c, "idle")
    BY <1>8 DEF RecordSubmission, Submitted, ledger
  <2>2. [row EXCEPT !.submitted = TRUE, !.state = "submitted"] \in ExecutionRow
    BY <1>0 DEF ExecutionRow, Captured
  <2>3. RowMoves(x) /\ CallMoves(c, x)
    BY <1>c, <1>d, <2>1, <2>2
  <2> QED BY <1>0, <2>1, <2>3, SubmitMoves
<1> QED BY <1>1, <1>2, <1>3, <1>4, <1>5, <1>6, <1>7, <1>8

LEMMA ExecutionsInitially == ExecutionsInit => ExecutionsInv
<1> SUFFICES ASSUME ExecutionsInit PROVE ExecutionsInv
  OBVIOUS
<1>1. Used = 0
  BY SumZero, PlanningAssumption DEF ExecutionsInit, Used
<1>2. AdmissionInv
  BY <1>1, PlanningAssumption
     DEF AdmissionInv, ExecutionsInit, Phases, Paid, Verdicts, Decisions, PaidFor
<1>4. Idle \in SubmitCall
  BY DEF Idle, SubmitCall, Evidences
<1> QED BY <1>2, <1>4, PlanningAssumption DEF ExecutionsInv, SubmitInv, ExecutionsInit, RowFollows, CallFollows, Idle

LEMMA ExecutionsPreserved == ExecutionsInv /\ [ExecutionsNext]_execVars => ExecutionsInv'
<1> SUFFICES ASSUME AdmissionInv, SubmitInv, [ExecutionsNext]_execVars PROVE AdmissionInv' /\ SubmitInv'
  BY DEF ExecutionsInv
<1> DEFINE AdmissionStands == UNCHANGED <<admission, claims, capacity, advancing, effects>>
<1>0. ASSUME AdmissionStands PROVE AdmissionInv'
  BY <1>0 DEF AdmissionInv, PaidFor, Used
<1>1. ASSUME \/ \E x \in Executions : AdvanceBegins(x) \/ RecoverReceipts(x) \/ Effect(x)
             \/ AdvanceDenies \/ ClaimBudget \/ DispatchAdmit \/ AdvanceRecords \/ AdvanceStops
             \/ \E call \in {"admit", "activate"}, d \in {"granted", "refused"} : CapacityDecides(call, d)
      PROVE  AdmissionInv' /\ SubmitInv'
  <2>1. AdmissionInv' /\ effects \subseteq effects'
    BY <1>1, AdvanceKeeps
  <2>2. UNCHANGED <<execution, submitter, accepted, source>> /\ source \in Nat
    BY <1>1 DEF AdvanceBegins, RecoverReceipts, Effect, AdvanceDenies, ClaimBudget, DispatchAdmit,
                AdvanceRecords, AdvanceStops, CapacityDecides, SubmitInv
  <2> QED BY <2>1, <2>2, SubmitStands
<1>2. ASSUME NEW x \in Executions, Begin(x) PROVE AdmissionInv' /\ SubmitInv'
  <2> DEFINE row == [state |-> "awaiting_admission", cancel |-> FALSE, evidence |-> "none", source |-> 0,
                     started |-> FALSE, submitted |-> FALSE]
  <2>1. execution' = [execution EXCEPT ![x] = row] /\ UNCHANGED <<ledger, submitter>>
    BY <1>2 DEF Begin
  <2>2. row \in ExecutionRow /\ row.state \notin Captured
    BY DEF ExecutionRow, Evidences, Captured
  <2> HIDE DEF row
  <2>3. RowMoves(x)
    BY <2>1, <2>2 DEF RowMoves, SubmitInv
  <2> QED BY <1>0, <2>1, <2>3, RowsMove DEF ledger
<1>3. ASSUME NEW x \in Executions, Cancel(x) PROVE AdmissionInv' /\ SubmitInv'
  <2> DEFINE s == IF execution[x].state \in {"submit_claimed", "submission_unknown"}
                    THEN "submission_unknown" ELSE "cancelled"
             row == [execution[x] EXCEPT !.cancel = TRUE, !.state = s]
  <2>1. /\ execution[x] \in ExecutionRow /\ RowFollows(x) /\ UNCHANGED <<ledger, submitter>>
        /\ execution' = [execution EXCEPT ![x] = row]
    BY <1>3 DEF Cancel, Begun, SubmitInv
  <2>2. s \in {"submission_unknown", "cancelled"} /\ (s \in Captured => x \in effects)
    BY <2>1 DEF RowFollows, Captured
  <2> HIDE DEF s
  <2>3. row \in ExecutionRow /\ row.state = s
    BY <2>1, <2>2 DEF ExecutionRow
  <2> HIDE DEF row
  <2>4. RowMoves(x)
    BY <2>1, <2>2, <2>3, StateMoves
  <2> QED BY <1>0, <2>1, <2>4, RowsMove DEF ledger
<1>4. CASE SourceChanges
  BY <1>0, <1>4, SubmitStands DEF SourceChanges, SubmitInv
<1>5. ASSUME NEW c \in Submitters,
             \/ \E x \in Executions : SubmitBegins(c, x)
             \/ ReadEvidence(c) \/ ApplyEvidence(c) \/ ReadOutput(c) \/ CaptureOutput(c)
      PROVE  AdmissionInv' /\ SubmitInv'
  <2>1. AdmissionStands
    BY <1>5 DEF SubmitBegins, ReadEvidence, ApplyEvidence, ReadOutput, CaptureOutput, ledger
  <2> QED BY <1>0, <1>5, <2>1, CapturingKeeps
<1>6. ASSUME NEW c \in Submitters,
             \/ ReadSource(c) \/ ClaimSubmission(c) \/ LookupReceipt(c) \/ StartSubmission(c)
             \/ AdmitIntent(c) \/ CrossIntoRun(c) \/ LoseAnswer(c) \/ RecordSubmission(c)
      PROVE  AdmissionInv' /\ SubmitInv'
  <2>1. AdmissionStands
    BY <1>6 DEF ReadSource, ClaimSubmission, LookupReceipt, StartSubmission, AdmitIntent, CrossIntoRun,
                LoseAnswer, RecordSubmission, ledger
  <2> QED BY <1>0, <1>6, <2>1, CrossingKeeps
<1>7. ASSUME NEW c \in Submitters, SubmitStops(c) PROVE AdmissionInv' /\ SubmitInv'
  <2>1. Idle \in SubmitCall /\ Idle.pc = "idle"
    BY DEF Idle, SubmitCall, Evidences
  <2>2. UNCHANGED <<execution, ledger>> /\ submitter' = [submitter EXCEPT ![c] = Idle]
    BY <1>7 DEF SubmitStops
  <2>3. submitter' \in [Submitters -> SubmitCall]
        /\ \A d \in Submitters : submitter'[d].pc # "idle" => submitter'[d] = submitter[d]
    BY <2>1, <2>2 DEF SubmitInv
  <2> QED BY <1>0, <2>2, <2>3 DEF ledger, SubmitInv, RowFollows, CallFollows
<1>8. CASE UNCHANGED execVars
  BY <1>0, <1>8, SubmitStands DEF execVars, SubmitInv
<1> QED BY <1>1, <1>2, <1>3, <1>4, <1>5, <1>6, <1>7, <1>8 DEF ExecutionsNext

(***************************************************************************)
(* Planning executions spend within the budget, once each; what Capacity   *)
(* admitted was claimed before, and a plan of the Run was admitted,        *)
(* activated and run; a recorded cancellation stops effect and plan.       *)
(***************************************************************************)
THEOREM PlansPaidFor == ExecutionsSpec => PlansArePaidFor
<1>1. ExecutionsInv => /\ Used <= Budget
                       /\ \A x \in Executions :
                             /\ claims[x] <= 1
                             /\ capacity[x].admit # None => claims[x] = 1
                             /\ x \in accepted => capacity[x].activate = "granted" /\ x \in effects
  BY DEF ExecutionsInv, AdmissionInv, SubmitInv, PaidFor
<1>2. [ExecutionsNext]_execVars =>
        [\A x \in Begun : execution[x].cancel =>
             /\ x \in accepted' => x \in accepted
             /\ x \in effects' => x \in effects]_execVars
  <2> SUFFICES ASSUME ExecutionsNext, NEW x \in Begun, execution[x].cancel
               PROVE  (x \in accepted' => x \in accepted) /\ (x \in effects' => x \in effects)
    OBVIOUS
  <2>1. ASSUME NEW y \in Executions, Effect(y) PROVE (x \in accepted' => x \in accepted) /\ (x \in effects' => x \in effects)
    BY <2>1 DEF Effect, Guarded
  <2>2. ASSUME NEW c \in Submitters, CrossIntoRun(c) PROVE (x \in accepted' => x \in accepted) /\ (x \in effects' => x \in effects)
    BY <2>2 DEF CrossIntoRun
  <2>3. CASE UNCHANGED <<accepted, effects>>
    BY <2>3
  <2> QED BY <2>1, <2>2, <2>3
          DEF ExecutionsNext, Begin, Cancel, AdvanceBegins, RecoverReceipts, AdvanceDenies, ClaimBudget,
              DispatchAdmit, AdvanceRecords, AdvanceStops, SourceChanges, CapacityDecides, SubmitBegins,
              ReadEvidence, ApplyEvidence, ReadOutput, CaptureOutput, ReadSource, ClaimSubmission,
              LookupReceipt, StartSubmission, AdmitIntent, LoseAnswer, RecordSubmission, SubmitStops, ledger
<1> QED BY <1>1, <1>2, ExecutionsInitially, ExecutionsPreserved, PTL DEF ExecutionsSpec, PlansArePaidFor

-----------------------------------------------------------------------------
(***************************************************************************)
(* Profile qualifications.  Whatever is registered, revoked or changed     *)
(* meanwhile, a call that observes with a secret, and a record that        *)
(* passed, have the one sealed by the generation their start was made      *)
(* under: generations are only added and what they seal never changes.     *)
(***************************************************************************)
Generation == [sealed : Contents, revoked : BOOLEAN]
Start ==
    [suite : {"worker", "reviewer", "commander", "fixture"}, binding : Contents, runtime : Contents,
     generation : Nat]
QualificationRecord == [passed : BOOLEAN, secret : Nat]
QualifyCall == [pc : {"rest", "resolve", "observe", "record"}, start : Nat, secret : Nat, done : Nat]

SealedFor(q) == generations[starts[q].generation].sealed
Sealing(q) == starts[q].suite # "fixture" => starts[q].generation \in DOMAIN generations

(* A call, and a record, of the start q. *)
CallEarns(r) ==
    r.pc # "rest" =>
        /\ r.start \in DOMAIN starts
        /\ r.pc = "resolve" => r.done = 0
        /\ starts[r.start].suite # "fixture" /\ (r.pc = "observe" \/ (r.pc = "record" /\ r.done # 0)) =>
              r.secret = SealedFor(r.start)
RecordEarned(q) ==
    records[q] # None /\ records[q].passed /\ starts[q].suite # "fixture" => records[q].secret = SealedFor(q)

QualificationInv ==
    /\ binding \in Contents /\ runtime \in Contents /\ keyFile \in Contents
    /\ generations \in Seq(Generation) /\ current \in 0 .. Len(generations)
    /\ starts \in Seq(Start) /\ records \in Seq(QualificationRecord \union {None})
    /\ Len(records) = Len(starts)
    /\ qualifier \in [Qualifiers -> QualifyCall]
    /\ \A q \in DOMAIN starts : Sealing(q) /\ RecordEarned(q)
    /\ \A c \in Qualifiers : CallEarns(qualifier[c])

(* Generations and starts are added, and what they say stays. *)
HistoryGrows ==
    /\ \A g \in DOMAIN generations : g \in DOMAIN generations' /\ generations'[g].sealed = generations[g].sealed
    /\ \A q \in DOMAIN starts : q \in DOMAIN starts' /\ starts'[q] = starts[q]

LEMMA EarnedStays ==
    ASSUME QualificationInv, HistoryGrows, starts' \in Seq(Start)
    PROVE  /\ \A q \in DOMAIN starts : Sealing(q)' /\ (records'[q] = records[q] => RecordEarned(q)')
           /\ \A r \in QualifyCall : CallEarns(r) => CallEarns(r)'
<1>1. ASSUME NEW q \in DOMAIN starts
      PROVE  starts'[q] = starts[q] /\ Sealing(q)' /\ (starts[q].suite # "fixture" => SealedFor(q)' = SealedFor(q))
  BY DEF HistoryGrows, QualificationInv, Sealing, SealedFor
<1>2. ASSUME NEW q \in DOMAIN starts, records'[q] = records[q] PROVE RecordEarned(q)'
  BY <1>1, <1>2 DEF RecordEarned, QualificationInv
<1>3. ASSUME NEW r \in QualifyCall, CallEarns(r) PROVE CallEarns(r)'
  BY <1>1, <1>3 DEF CallEarns, HistoryGrows
<1> QED BY <1>1, <1>2, <1>3

(* The credential, the binding, the runtime or the key file changes. *)
LEMMA WorldMoves ==
    ASSUME QualificationInv, HistoryGrows, UNCHANGED <<starts, records, qualifier>>,
           binding' \in Contents, runtime' \in Contents, keyFile' \in Contents,
           generations' \in Seq(Generation), current' \in 0 .. Len(generations')
    PROVE  QualificationInv'
<1>1. \A q \in DOMAIN starts : Sealing(q)' /\ RecordEarned(q)'
  BY EarnedStays DEF QualificationInv
<1>2. \A c \in Qualifiers : qualifier[c] \in QualifyCall /\ CallEarns(qualifier[c])
  BY DEF QualificationInv
<1>3. ASSUME NEW c \in Qualifiers PROVE CallEarns(qualifier[c])'
  <2>1. PICK r \in QualifyCall : r = qualifier'[c] /\ CallEarns(r)
    BY <1>2
  <2>2. CallEarns(r)'
    BY <2>1, EarnedStays DEF QualificationInv
  <2> QED BY <2>1, <2>2
<1> QED BY <1>1, <1>3 DEF QualificationInv

(* A call goes on, or comes to rest. *)
LEMMA QualifierMoves ==
    ASSUME QualificationInv, NEW c \in Qualifiers, NEW r \in QualifyCall, CallEarns(r),
           qualifier' = [qualifier EXCEPT ![c] = r], UNCHANGED <<world, starts, records>>
    PROVE  QualificationInv'
<1>1. HistoryGrows /\ UNCHANGED <<binding, runtime, keyFile, generations, current, starts, records>>
  BY DEF HistoryGrows, world
<1>2. \A q \in DOMAIN starts : Sealing(q)' /\ RecordEarned(q)'
  BY <1>1, EarnedStays DEF QualificationInv
<1>3. ASSUME NEW d \in Qualifiers PROVE CallEarns(qualifier[d])'
  <2>1. PICK s \in QualifyCall : s = qualifier'[d] /\ CallEarns(s)
    BY DEF QualificationInv
  <2>2. CallEarns(s)'
    BY <1>1, <2>1, EarnedStays DEF QualificationInv
  <2> QED BY <2>1, <2>2
<1> QED BY <1>1, <1>2, <1>3 DEF QualificationInv

LEMMA CredentialKeeps ==
    ASSUME QualificationInv, NEW g \in Nat, RegisterCredential(g) \/ RevokeCredential(g)
    PROVE  QualificationInv'
<1> DEFINE new == [sealed |-> keyFile, revoked |-> FALSE]
           withdrawn == [generations[g] EXCEPT !.revoked = TRUE]
<1>0. /\ generations \in Seq(Generation) /\ current \in 0 .. Len(generations)
      /\ UNCHANGED <<starts, records, qualifier, binding, runtime, keyFile>>
      /\ binding \in Contents /\ runtime \in Contents /\ keyFile \in Contents
  BY DEF QualificationInv, RegisterCredential, RevokeCredential
<1>1. new \in Generation
  BY <1>0 DEF Generation
<1>2. CASE RegisterCredential(g) /\ generations' = Append(generations, new) /\ current' = Len(generations')
  <2> HIDE DEF new
  <2>1. generations' \in Seq(Generation) /\ current' \in 0 .. Len(generations')
        /\ \A h \in DOMAIN generations : h \in DOMAIN generations' /\ generations'[h] = generations[h]
    BY <1>0, <1>1, <1>2
  <2>2. HistoryGrows
    BY <1>0, <2>1 DEF HistoryGrows
  <2> QED BY <1>0, <2>1, <2>2, WorldMoves
<1>3. CASE UNCHANGED <<generations, current>>
  <2>1. HistoryGrows
    BY <1>0, <1>3 DEF HistoryGrows
  <2> QED BY <1>0, <1>3, <2>1, WorldMoves
<1>4. CASE RevokeCredential(g)
  <2>1. g \in DOMAIN generations /\ generations' = [generations EXCEPT ![g] = withdrawn] /\ UNCHANGED current
    BY <1>4 DEF RevokeCredential
  <2>2. withdrawn \in Generation /\ withdrawn.sealed = generations[g].sealed
    <3>1. generations[g] \in Generation
      BY <1>0, <2>1
    <3> QED BY <3>1 DEF Generation
  <2> HIDE DEF withdrawn
  <2>3. generations' \in Seq(Generation) /\ Len(generations') = Len(generations)
        /\ \A h \in DOMAIN generations : h \in DOMAIN generations' /\ generations'[h] = IF h = g THEN withdrawn ELSE generations[h]
    BY <1>0, <2>1, <2>2
  <2>4. HistoryGrows
    BY <1>0, <2>2, <2>3 DEF HistoryGrows
  <2> QED BY <1>0, <2>1, <2>3, <2>4, WorldMoves
<1> QED BY <1>2, <1>3, <1>4 DEF RegisterCredential

LEMMA WorldKeeps == ASSUME QualificationInv, WorldChanges PROVE QualificationInv'
<1>1. /\ UNCHANGED <<generations, current, starts, records, qualifier>>
      /\ binding' \in Contents /\ runtime' \in Contents /\ keyFile' \in Contents
  BY DEF WorldChanges, QualificationInv
<1>2. HistoryGrows
  BY <1>1 DEF HistoryGrows
<1> QED BY <1>1, <1>2, WorldMoves DEF QualificationInv

(* A start, made under the current generation or, by the fixture, under none. *)
LEMMA StartKeeps ==
    ASSUME QualificationInv, NEW c \in Qualifiers, NEW g \in 0 .. Len(generations),
           NEW suite \in {"worker", "reviewer", "commander", "fixture"}, NEW pc \in {"resolve", "observe"},
           suite # "fixture" => g # 0 /\ pc = "resolve", CommitStart(c, suite, g, pc)
    PROVE  QualificationInv'
<1> DEFINE start == [suite |-> suite, binding |-> binding, runtime |-> runtime, generation |-> g]
<1>n. PICK n : n = Len(starts) + 1
  OBVIOUS
<1>0. /\ starts \in Seq(Start) /\ records \in Seq(QualificationRecord \union {None}) /\ Len(records) = Len(starts)
      /\ generations \in Seq(Generation) /\ qualifier \in [Qualifiers -> QualifyCall]
      /\ UNCHANGED <<binding, runtime, keyFile, generations, current>>
  BY DEF QualificationInv, CommitStart, world
<1>1. start \in Start /\ start.suite = suite /\ start.generation = g
  BY DEF QualificationInv, Start
<1>2. starts' = Append(starts, start) /\ records' = Append(records, None)
  BY DEF CommitStart
<1> HIDE DEF start
<1>3. /\ starts' \in Seq(Start) /\ Len(starts') = n /\ n \in Nat /\ starts'[n] = start
      /\ records' \in Seq(QualificationRecord \union {None}) /\ Len(records') = n /\ records'[n] = None
      /\ \A q \in DOMAIN starts : q \in DOMAIN starts' /\ starts'[q] = starts[q] /\ records'[q] = records[q]
      /\ DOMAIN starts' = DOMAIN starts \union {n} /\ n \in DOMAIN starts'
  BY <1>0, <1>1, <1>2, <1>n
<1>4. HistoryGrows
  BY <1>0, <1>3 DEF HistoryGrows
<1>5. PICK r : r \in QualifyCall /\ r.pc = pc /\ r.start = n /\ r.done = 0 /\ qualifier' = [qualifier EXCEPT ![c] = r]
  <2>1. qualifier' = [qualifier EXCEPT ![c] = [Resting EXCEPT !.pc = pc, !.start = n]]
    BY <1>3 DEF CommitStart
  <2>2. Resting \in QualifyCall /\ Resting.done = 0
    BY DEF Resting, QualifyCall
  <2> QED BY <1>3, <2>1, <2>2 DEF QualifyCall
<1>6. CallEarns(r)'
  BY <1>1, <1>3, <1>5 DEF CallEarns
<1>7. ASSUME NEW q \in DOMAIN starts' PROVE Sealing(q)' /\ RecordEarned(q)'
  <2>1. CASE q = n
    BY <1>0, <1>1, <1>3, <2>1 DEF Sealing, RecordEarned
  <2>2. CASE q # n
    BY <1>3, <1>4, <2>2, EarnedStays
  <2> QED BY <2>1, <2>2
<1>8. ASSUME NEW d \in Qualifiers PROVE CallEarns(qualifier[d])'
  <2>1. CASE d = c
    BY <1>0, <1>5, <1>6, <2>1
  <2>2. CASE d # c
    <3>1. PICK s \in QualifyCall : s = qualifier'[d] /\ CallEarns(s)
      BY <1>0, <1>5, <2>2 DEF QualificationInv
    <3>2. CallEarns(s)'
      BY <1>3, <1>4, <3>1, EarnedStays
    <3> QED BY <3>1, <3>2
  <2> QED BY <2>1, <2>2
<1>9. qualifier' \in [Qualifiers -> QualifyCall]
  BY <1>0, <1>5
<1> QED BY <1>0, <1>3, <1>7, <1>8, <1>9 DEF QualificationInv

(* resolve_exact: only the generation of the start is resolved, and only to what it seals. *)
LEMMA ResolveKeeps ==
    ASSUME QualificationInv, NEW c \in Qualifiers, ResolveCredential(c)
    PROVE  QualificationInv'
<1> DEFINE r == qualifier[c]
<1>0. /\ r \in QualifyCall /\ r.pc = "resolve" /\ r.done = 0 /\ r.start \in DOMAIN starts /\ keyFile \in Nat
      /\ UNCHANGED <<world, starts, records>>
  BY DEF ResolveCredential, QualificationInv, CallEarns, Contents
<1>1. CASE CredentialHolds /\ current = starts[r.start].generation
  <2>1. qualifier' = [qualifier EXCEPT ![c] = [r EXCEPT !.pc = "observe", !.secret = keyFile]]
    BY <1>1 DEF ResolveCredential
  <2>2. [r EXCEPT !.pc = "observe", !.secret = keyFile] \in QualifyCall
    BY <1>0 DEF QualifyCall
  <2>3. CallEarns([r EXCEPT !.pc = "observe", !.secret = keyFile])
    BY <1>0, <1>1 DEF CallEarns, CredentialHolds, SealedFor, QualifyCall
  <2> QED BY <1>0, <2>1, <2>2, <2>3, QualifierMoves
<1>2. CASE ~(CredentialHolds /\ current = starts[r.start].generation)
  <2>1. qualifier' = [qualifier EXCEPT ![c] = [r EXCEPT !.pc = "record"]]
    BY <1>2 DEF ResolveCredential
  <2>2. [r EXCEPT !.pc = "record"] \in QualifyCall
    BY <1>0 DEF QualifyCall
  <2>3. CallEarns([r EXCEPT !.pc = "record"])
    BY <1>0 DEF CallEarns, QualifyCall
  <2> QED BY <1>0, <2>1, <2>2, <2>3, QualifierMoves
<1> QED BY <1>1, <1>2

LEMMA SceneKeeps ==
    ASSUME QualificationInv, NEW c \in Qualifiers, NEW mayPass, SceneOf(c, mayPass)
    PROVE  QualificationInv'
<1> DEFINE r == qualifier[c]
<1>0. /\ r \in QualifyCall /\ r.pc = "observe" /\ CallEarns(r) /\ UNCHANGED <<world, starts, records>>
  BY DEF SceneOf, QualificationInv
<1>1. ASSUME NEW done \in Nat, NEW pc \in {"observe", "record"},
             qualifier' = [qualifier EXCEPT ![c] = [r EXCEPT !.done = done, !.pc = pc]]
      PROVE  QualificationInv'
  <2>1. [r EXCEPT !.done = done, !.pc = pc] \in QualifyCall
    BY <1>0 DEF QualifyCall
  <2>2. CallEarns([r EXCEPT !.done = done, !.pc = pc])
    BY <1>0, <1>1 DEF CallEarns, QualifyCall
  <2> QED BY <1>0, <1>1, <2>1, <2>2, QualifierMoves
<1>2. CASE qualifier' = [qualifier EXCEPT ![c].done = @ + 1,
                            ![c].pc = IF qualifier[c].done + 1 = Scenes THEN "record" ELSE @]
  <2> DEFINE pc == IF r.done + 1 = Scenes THEN "record" ELSE r.pc
  <2>1. qualifier' = [qualifier EXCEPT ![c] = [r EXCEPT !.done = r.done + 1, !.pc = pc]]
    BY <1>2
  <2>2. r.done + 1 \in Nat /\ pc \in {"observe", "record"}
    BY <1>0 DEF QualifyCall
  <2> QED BY <1>1, <2>1, <2>2
<1>3. CASE qualifier' = [qualifier EXCEPT ![c].pc = "record"]
  <2>1. [r EXCEPT !.pc = "record"] = [r EXCEPT !.done = r.done, !.pc = "record"] /\ r.done \in Nat
    BY <1>0 DEF QualifyCall
  <2>2. qualifier' = [qualifier EXCEPT ![c] = [r EXCEPT !.pc = "record"]]
    BY <1>3
  <2> QED BY <1>1, <2>1, <2>2
<1> QED BY <1>2, <1>3 DEF SceneOf

(* The record of a suite that passed carries the secret it observed with. *)
LEMMA RecordKeeps ==
    ASSUME QualificationInv, NEW c \in Qualifiers, NEW holds \in BOOLEAN, qualifier[c].pc = "record",
           WithRecord(c, holds)
    PROVE  QualificationInv'
<1> DEFINE r == qualifier[c]
           record == [passed |-> r.done = Scenes /\ holds, secret |-> r.secret]
<1>0. /\ r \in QualifyCall /\ CallEarns(r) /\ r.start \in DOMAIN starts
      /\ starts \in Seq(Start) /\ records \in Seq(QualificationRecord \union {None}) /\ Len(records) = Len(starts)
      /\ UNCHANGED <<binding, runtime, keyFile, generations, current, starts>>
      /\ records' = [records EXCEPT ![r.start] = record]
      /\ qualifier' = [qualifier EXCEPT ![c] = Resting]
  BY DEF WithRecord, QualificationInv, CallEarns, world
<1>1. record \in QualificationRecord /\ record.secret = r.secret /\ (record.passed => r.done # 0)
  BY <1>0, QualificationAssumption DEF QualificationRecord, QualifyCall
<1> HIDE DEF record
<1>2. /\ records' \in Seq(QualificationRecord \union {None}) /\ Len(records') = Len(starts)
      /\ records'[r.start] = record /\ \A q \in DOMAIN starts : q # r.start => records'[q] = records[q]
  BY <1>0, <1>1
<1>3. HistoryGrows
  BY <1>0 DEF HistoryGrows
<1>4. starts[r.start].suite # "fixture" /\ record.passed => record.secret = SealedFor(r.start)
  BY <1>0, <1>1 DEF CallEarns
<1>5. ASSUME NEW q \in DOMAIN starts PROVE Sealing(q)' /\ RecordEarned(q)'
  <2>1. CASE q = r.start
    <3>1. Sealing(q)' /\ SealedFor(q)' = SealedFor(q)
      BY <1>0, <1>3, EarnedStays DEF SealedFor
    <3> QED BY <1>0, <1>2, <1>4, <2>1, <3>1 DEF RecordEarned
  <2>2. CASE q # r.start
    BY <1>0, <1>2, <1>3, <2>2, EarnedStays
  <2> QED BY <2>1, <2>2
<1>6. Resting \in QualifyCall /\ Resting.pc = "rest"
  BY DEF Resting, QualifyCall
<1>7. ASSUME NEW d \in Qualifiers PROVE CallEarns(qualifier[d])'
  <2>1. PICK s \in QualifyCall : s = qualifier'[d] /\ CallEarns(s)
    BY <1>0, <1>6 DEF QualificationInv, CallEarns
  <2>2. CallEarns(s)'
    BY <1>0, <1>3, <2>1, EarnedStays
  <2> QED BY <2>1, <2>2
<1>8. qualifier' \in [Qualifiers -> QualifyCall]
  BY <1>0, <1>6 DEF QualificationInv
<1> QED BY <1>0, <1>2, <1>5, <1>7, <1>8 DEF QualificationInv

LEMMA QualificationPreserved == QualificationInv /\ [QualificationNext]_qualVars => QualificationInv'
<1> SUFFICES ASSUME QualificationInv, [QualificationNext]_qualVars PROVE QualificationInv'
  OBVIOUS
<1>1. ASSUME NEW g \in 0 .. MaxGenerations, RegisterCredential(g) \/ RevokeCredential(g) PROVE QualificationInv'
  <2>1. g \in Nat
    BY <1>1 DEF RegisterCredential, RevokeCredential, QualificationInv
  <2> QED BY <1>1, <2>1, CredentialKeeps
<1>2. CASE WorldChanges
  BY <1>2, WorldKeeps
<1>3. ASSUME NEW c \in Qualifiers, StartCommander(c) PROVE QualificationInv'
  BY <1>3, StartKeeps DEF StartCommander, CredentialHolds, QualificationInv
<1>4. ASSUME NEW c \in Qualifiers, StartFixture(c) PROVE QualificationInv'
  <2>1. 0 \in 0 .. Len(generations)
    BY DEF QualificationInv
  <2> QED BY <1>4, <2>1, StartKeeps DEF StartFixture
<1>5. ASSUME NEW c \in Qualifiers, NEW suite, StartRuntimeTools(c, suite) PROVE QualificationInv'
  BY <1>5, StartKeeps DEF StartRuntimeTools, CredentialHolds, QualificationInv
<1>6. ASSUME NEW c \in Qualifiers, ResolveCredential(c) PROVE QualificationInv'
  BY <1>6, ResolveKeeps
<1>7. ASSUME NEW c \in Qualifiers, QualifierStops(c) PROVE QualificationInv'
  <2>1. Resting \in QualifyCall /\ CallEarns(Resting)
    BY DEF Resting, QualifyCall, CallEarns
  <2> QED BY <1>7, <2>1, QualifierMoves DEF QualifierStops
<1>8. ASSUME NEW c \in Qualifiers, ObserveWorker(c) \/ ObserveReviewer(c) \/ ObserveCommander(c) \/ ObserveFixture(c)
      PROVE  QualificationInv'
  BY <1>8, SceneKeeps DEF ObserveWorker, ObserveReviewer, ObserveCommander, ObserveFixture
<1>9. ASSUME NEW c \in Qualifiers, RecordCommander(c) \/ RecordRuntimeTools(c) \/ RecordFixture(c)
      PROVE  QualificationInv'
  BY <1>9, RecordKeeps DEF RecordCommander, RecordRuntimeTools, RecordFixture, StillCurrent, Unchanged
<1>10. CASE UNCHANGED <<world, starts, records, qualifier>>
  <2>1. HistoryGrows
    BY <1>10 DEF HistoryGrows, world
  <2> QED BY <1>10, <2>1, WorldMoves DEF world, QualificationInv
<1>11. ASSUME NEW q, NEW kind, RevokeQualification(q) \/ TimePasses(kind, q)
       PROVE UNCHANGED <<world, starts, records, qualifier>>
  BY <1>11 DEF RevokeQualification, TimePasses
<1>12. CASE UNCHANGED qualVars
  BY <1>10, <1>12 DEF qualVars, world
<1> QED BY <1>1, <1>2, <1>3, <1>4, <1>5, <1>6, <1>7, <1>8, <1>9, <1>10, <1>11, <1>12 DEF QualificationNext

LEMMA NewestIsLast ==
    ASSUME NEW n \in Nat, NEW S \in SUBSET (1 .. n), S # {}
    PROVE  NewestOf(S) \in S /\ \A p \in S : p <= NewestOf(S)
<1>1. \E q \in S : \A p \in S : p <= q
  BY MaxOfBounded
<1> QED BY <1>1 DEF NewestOf

LEMMA EarnedFacts == QualificationInv => FactsAreEarned
<1> SUFFICES ASSUME QualificationInv, NEW suite \in Suites, Facts(suite) # 0
             PROVE  LET q == Facts(suite) IN
                      /\ records[q].passed /\ q \notin revoked
                      /\ \A p \in OfSuite(suite) : p <= q
                      /\ starts[q].binding = binding /\ starts[q].runtime = runtime
                      /\ suite # "fixture" =>
                            /\ records[q].secret = keyFile
                            /\ current = starts[q].generation /\ ~generations[current].revoked
                            /\ records[q].secret = generations[current].sealed
  BY DEF FactsAreEarned
<1>1. PICK q : q = Facts(suite)
  OBVIOUS
<1>2. OfSuite(suite) # {} /\ q = NewestOf(OfSuite(suite)) /\ Usable(q)
  BY <1>1 DEF Facts
<1>3. OfSuite(suite) \in SUBSET (1 .. Len(starts)) /\ Len(starts) \in Nat
  BY DEF OfSuite, QualificationInv
<1>4. q \in OfSuite(suite) /\ \A p \in OfSuite(suite) : p <= q
  BY <1>2, <1>3, NewestIsLast
<1>5. q \in DOMAIN starts /\ starts[q].suite = suite /\ RecordEarned(q)
  BY <1>4 DEF OfSuite, QualificationInv
<1> QED BY <1>1, <1>2, <1>4, <1>5 DEF Usable, SourceHolds, CredentialHolds, RecordEarned, SealedFor

(***************************************************************************)
(* The facts of a profile were earned and still hold, for any suites and   *)
(* callers: the newest start's own record, observed with the very secret   *)
(* that the current generation seals and the key file holds.               *)
(***************************************************************************)
THEOREM FactsEarned == QualificationSpec => []FactsAreEarned
<1>1. QualificationInit => QualificationInv
  <2> SUFFICES ASSUME QualificationInit PROVE QualificationInv
    OBVIOUS
  <2>1. Resting \in QualifyCall /\ Resting.pc = "rest"
    BY DEF Resting, QualifyCall
  <2> QED BY <2>1 DEF QualificationInit, QualificationInv, Contents, CallEarns
<1> QED BY <1>1, QualificationPreserved, EarnedFacts, PTL DEF QualificationSpec

-----------------------------------------------------------------------------
(***************************************************************************)
(* The relay.  A request inside the guard has the authority behind it, its *)
(* call is committed before it is sent, and a recorded request that ends   *)
(* badly has the relay closed before its thread is done, unless all that   *)
(* failed was the close of its client.                                     *)
(***************************************************************************)
Stages == {"read", "guard", "begin", "send", "answer", "check", "rejected", "finish", "done"}
Reasons ==
    {None, "RELAY_CLOSING", "REQUEST_LIMIT_REACHED", "INVALID_REQUEST", "TASK_SEND_GUARD_REJECTED",
     "GRANT_REVOKED", "GRANT_EXPIRED", "BEGIN_LOST", "RELAY_TRANSPORT_ERROR", "UPSTREAM_HTTP_ERROR",
     "UPSTREAM_PROTOCOL", "JOURNAL_COMPLETION_FAILED", "CLIENT_CLOSE_FAILED"}
Handler == [pc : Stages, call : BOOLEAN, complete : BOOLEAN, passed : BOOLEAN, reason : Reasons]
CallStates == {None, "send_unknown", "response_received"}

(* The thread of the request r. *)
Guards(r) == contexted /\ handler[r].pc \in {"begin", "send"} => guard = r /\ authority
Closes(r) ==
    contexted /\ calls[r] # None =>
        /\ handler[r].pc = "rejected" => handler[r].call \/ relay.closing
        /\ handler[r].pc = "finish" /\ ~handler[r].passed => relay.closing
        /\ handler[r].pc = "done" /\ ~handler[r].passed /\ handler[r].reason # "CLIENT_CLOSE_FAILED" => relay.closing
Serves(r) ==
    /\ handler[r].pc \in {"send", "answer", "check"} => handler[r].call
    /\ handler[r].call => calls[r] # None
    /\ handler[r].pc = "send" => calls[r] = "send_unknown"
    /\ handler[r].pc \in {"read", "guard", "begin"} => calls[r] = None
    /\ handler[r].reason = "GRANT_EXPIRED" => grant.expired
    /\ Guards(r) /\ Closes(r)

RelayInv ==
    /\ grant \in [revoked : BOOLEAN, expired : BOOLEAN] /\ relay \in [closing : BOOLEAN, taken : Nat]
    /\ calls \in [Requests -> CallStates] /\ handler \in [Requests -> Handler]
    /\ contexted \in BOOLEAN /\ authority \in BOOLEAN /\ guard \in Requests \union {None}
    /\ IsFiniteSet(Recorded) /\ Cardinality(Recorded) <= MaxRequests
    /\ \A r \in Requests : Serves(r)

(* What a step may do to the other requests: nothing but close, or observe the expiry. *)
Onward ==
    /\ grant' \in [revoked : BOOLEAN, expired : BOOLEAN] /\ relay' \in [closing : BOOLEAN, taken : Nat]
    /\ grant.expired => grant'.expired
    /\ relay.closing => relay'.closing
    /\ UNCHANGED contexted

(* What the provider receives is committed and authorized; nothing is begun once it went wrong. *)
Sound ==
    /\ \A q \in upstream' \ upstream : calls[q] = "send_unknown" /\ (contexted => authority)
    /\ relay.closing \/ grant.expired => Recorded' = Recorded

(* The thread of a request makes a step that begins no call. *)
LEMMA RequestMoves ==
    ASSUME RelayInv, Onward, NEW r \in Requests, NEW h \in Handler, handler' = [handler EXCEPT ![r] = h],
           calls' \in [Requests -> CallStates], \A q \in Requests \ {r} : calls'[q] = calls[q],
           UNCHANGED authority, guard' = guard \/ guard' = (IF guard = r THEN None ELSE guard)
                                \/ (guard = None /\ guard' = r),
           IsFiniteSet(Recorded') /\ Cardinality(Recorded') <= MaxRequests, Serves(r)'
    PROVE  RelayInv'
<1>1. handler' \in [Requests -> Handler] /\ \A q \in Requests \ {r} : handler'[q] = handler[q]
  BY DEF RelayInv
<1>2. guard' \in Requests \union {None} /\ \A q \in Requests \ {r} : guard = q => guard' = q
  BY RelayAssumption DEF RelayInv
<1>3. ASSUME NEW q \in Requests PROVE Serves(q)'
  <2>1. CASE q # r
    <3>1. Serves(q) /\ handler'[q] = handler[q] /\ calls'[q] = calls[q]
      BY <1>1, <2>1 DEF RelayInv
    <3>2. Guards(q)'
      BY <1>2, <2>1, <3>1 DEF Serves, Guards, Onward
    <3>3. Closes(q)'
      BY <3>1 DEF Serves, Closes, Onward
    <3> QED BY <3>1, <3>2, <3>3 DEF Serves, Onward
  <2> QED BY <2>1
<1> QED BY <1>1, <1>2, <1>3 DEF RelayInv, Onward

LEMMA RecordedStands ==
    ASSUME RelayInv, \A q \in Requests : calls'[q] = None <=> calls[q] = None
    PROVE  Recorded' = Recorded /\ IsFiniteSet(Recorded') /\ Cardinality(Recorded') <= MaxRequests
<1>1. Recorded' = Recorded
  BY DEF Recorded
<1> QED BY <1>1 DEF RelayInv

LEMMA RecordedGrows ==
    ASSUME RelayInv, NEW r \in Requests, Cardinality(Recorded) < MaxRequests,
           calls' = [calls EXCEPT ![r] = "send_unknown"]
    PROVE  IsFiniteSet(Recorded') /\ Cardinality(Recorded') <= MaxRequests
<1>1. Recorded' = Recorded \union {r}
  BY RelayAssumption DEF Recorded, RelayInv
<1>2. IsFiniteSet(Recorded) /\ Cardinality(Recorded) \in Nat /\ MaxRequests \in Nat
  BY FS_CardinalityType, RelayAssumption DEF RelayInv
<1>3. IsFiniteSet(Recorded \union {r})
      /\ Cardinality(Recorded \union {r}) = IF r \in Recorded THEN Cardinality(Recorded) ELSE Cardinality(Recorded) + 1
  BY <1>2, FS_AddElement
<1> QED BY <1>1, <1>2, <1>3

(* The controller, and the clock. *)
LEMMA ControllerKeeps ==
    ASSUME RelayInv, \/ RevokeGrant \/ CloseRelay \/ WithdrawAuthority \/ (\E t \in 0 .. MaxClock : SetClock(t))
                     \/ UNCHANGED relayVars
    PROVE  RelayInv' /\ Sound
<1>1. /\ Onward /\ UNCHANGED <<calls, handler, guard, upstream>> /\ authority' \in BOOLEAN
      /\ authority' # authority => guard = None
  BY DEF RevokeGrant, CloseRelay, WithdrawAuthority, SetClock, relayVars, RelayInv, Onward
<1>2. Recorded' = Recorded /\ IsFiniteSet(Recorded') /\ Cardinality(Recorded') <= MaxRequests
  BY <1>1, RecordedStands
<1>3. ASSUME NEW r \in Requests PROVE Serves(r)'
  <2>1. Serves(r)
    BY DEF RelayInv
  <2>2. Guards(r)'
    BY <1>1, <2>1, RelayAssumption DEF Serves, Guards, Onward, RelayInv
  <2>3. Closes(r)'
    BY <1>1, <2>1 DEF Serves, Closes, Onward
  <2> QED BY <1>1, <2>1, <2>2, <2>3 DEF Serves, Onward
<1> QED BY <1>1, <1>2, <1>3 DEF RelayInv, Onward, Sound

(* The thread of r stands at pc with these outcomes, the other threads where they were. *)
Stands(r, pc, call, passed, reason) ==
    \E h \in Handler : /\ handler' = [handler EXCEPT ![r] = h]
                       /\ h.pc = pc /\ h.call = call /\ h.passed = passed /\ h.reason = reason

LEMMA HandlerMoves ==
    ASSUME RelayInv, NEW r \in Requests
    PROVE  /\ \A pc \in Stages : Moves(r, pc) =>
                 Stands(r, pc, handler[r].call, handler[r].passed, handler[r].reason)
           /\ \A reason \in Reasons : Rejects(r, reason) =>
                 Stands(r, "rejected", handler[r].call, handler[r].passed, reason)
<1>1. handler[r] \in Handler
  BY DEF RelayInv
<1>2. ASSUME NEW pc \in Stages, Moves(r, pc)
      PROVE  Stands(r, pc, handler[r].call, handler[r].passed, handler[r].reason)
  <2> DEFINE h == [handler[r] EXCEPT !.pc = pc]
  <2>1. /\ h \in Handler /\ h.pc = pc /\ h.call = handler[r].call
        /\ h.passed = handler[r].passed /\ h.reason = handler[r].reason
    BY <1>1 DEF Handler
  <2>2. handler' = [handler EXCEPT ![r] = h]
    BY <1>2 DEF Moves
  <2> HIDE DEF h
  <2> QED BY <2>1, <2>2 DEF Stands
<1>3. ASSUME NEW reason \in Reasons, Rejects(r, reason)
      PROVE  Stands(r, "rejected", handler[r].call, handler[r].passed, reason)
  <2> DEFINE h == [handler[r] EXCEPT !.pc = "rejected", !.reason = reason]
  <2>1. /\ h \in Handler /\ h.pc = "rejected" /\ h.call = handler[r].call
        /\ h.passed = handler[r].passed /\ h.reason = reason
    BY <1>1 DEF Handler, Stages
  <2>2. handler' = [handler EXCEPT ![r] = h]
    BY <1>3 DEF Rejects
  <2> HIDE DEF h
  <2> QED BY <2>1, <2>2 DEF Stands
<1> QED BY <1>2, <1>3

(* A step of a thread that begins no call and sends nothing. *)
LEMMA QuietStep ==
    ASSUME RelayInv, Onward, NEW r \in Requests, NEW pc, NEW call, NEW passed, NEW reason,
           Stands(r, pc, call, passed, reason), UNCHANGED <<calls, authority>>,
           \/ UNCHANGED guard \/ Leaves(r) \/ (guard = None /\ guard' = r),
           pc # "send", pc \in {"answer", "check"} => call,
           call => calls[r] # None,
           pc \in {"read", "guard", "begin"} => calls[r] = None,
           reason = "GRANT_EXPIRED" => grant'.expired,
           contexted /\ pc = "begin" => guard' = r /\ authority,
           contexted /\ calls[r] # None =>
               /\ pc = "rejected" => call \/ relay'.closing
               /\ pc \in {"finish", "done"} /\ ~passed => relay'.closing
    PROVE  RelayInv' /\ Recorded' = Recorded
<1>1. PICK h \in Handler : /\ handler' = [handler EXCEPT ![r] = h]
                           /\ h.pc = pc /\ h.call = call /\ h.passed = passed /\ h.reason = reason
  BY DEF Stands
<1>2. handler'[r] = h
  BY <1>1 DEF RelayInv
<1>3. Guards(r)' /\ Closes(r)'
  BY <1>1, <1>2 DEF Guards, Closes, Onward
<1>4. Serves(r)'
  BY <1>1, <1>2, <1>3 DEF Serves
<1>5. Recorded' = Recorded /\ IsFiniteSet(Recorded') /\ Cardinality(Recorded') <= MaxRequests
  BY RecordedStands
<1> QED BY <1>1, <1>4, <1>5, RequestMoves DEF Leaves, RelayInv

LEMMA WaitingKeeps ==
    ASSUME RelayInv, NEW r \in Requests, TakePlace(r) \/ EnterGuard(r)
    PROVE  RelayInv' /\ Sound
<1>0. /\ Serves(r) /\ calls[r] = None /\ ~handler[r].call /\ handler[r] \in Handler
      /\ UNCHANGED <<calls, authority, upstream, grant>> /\ handler[r].reason \in Reasons
      /\ handler[r].reason = "GRANT_EXPIRED" => grant.expired
  BY DEF TakePlace, EnterGuard, RelayInv, Serves, Handler
<1>1. Onward
  BY DEF TakePlace, EnterGuard, RelayInv, Onward
<1>a. {"guard", "begin"} \subseteq Stages /\ {"RELAY_CLOSING", "REQUEST_LIMIT_REACHED", "INVALID_REQUEST",
                                             "TASK_SEND_GUARD_REJECTED"} \subseteq Reasons
  BY DEF Stages, Reasons
<1>2. CASE TakePlace(r)
  <2>1. UNCHANGED guard
    BY <1>2 DEF TakePlace
  <2>2. CASE Moves(r, "guard")
    BY <1>0, <1>1, <1>a, <2>1, <2>2, HandlerMoves, QuietStep DEF Sound
  <2>3. ASSUME NEW reason \in {"RELAY_CLOSING", "REQUEST_LIMIT_REACHED", "INVALID_REQUEST"}, Rejects(r, reason)
        PROVE  RelayInv' /\ Sound
    BY <1>0, <1>1, <1>a, <2>1, <2>3, HandlerMoves, QuietStep DEF Sound
  <2> QED BY <1>2, <2>2, <2>3 DEF TakePlace
<1>3. CASE EnterGuard(r)
  <2>1. CASE Rejects(r, "TASK_SEND_GUARD_REJECTED") /\ UNCHANGED guard
    BY <1>0, <1>1, <1>a, <2>1, HandlerMoves, QuietStep DEF Sound
  <2>2. CASE Moves(r, "begin") /\ ~(contexted /\ ~authority)
    <3>1. \/ contexted /\ guard = None /\ guard' = r /\ authority
          \/ ~contexted /\ UNCHANGED guard
      BY <1>3, <2>2 DEF EnterGuard, RelayInv
    <3> QED BY <1>0, <1>1, <1>a, <2>2, <3>1, HandlerMoves, QuietStep DEF Sound
  <2> QED BY <1>3, <2>1, <2>2 DEF EnterGuard
<1> QED BY <1>2, <1>3

(* begin_call: refused, or committed; a lost answer leaves the call to the withdrawal. *)
LEMMA BeginKeeps ==
    ASSUME RelayInv, NEW r \in Requests, BeginCall(r)
    PROVE  RelayInv' /\ Sound
<1>0. /\ Serves(r) /\ calls[r] = None /\ ~handler[r].call /\ handler[r] \in Handler /\ Guards(r)
      /\ UNCHANGED <<authority, upstream, contexted>> /\ handler[r].pc = "begin"
      /\ handler[r].reason = "GRANT_EXPIRED" => grant.expired
  BY DEF BeginCall, RelayInv, Serves, Handler
<1>1. Onward
  BY DEF BeginCall, ExpiryObserved, RelayInv, Onward
<1>a. {"RELAY_CLOSING", "GRANT_REVOKED", "GRANT_EXPIRED", "REQUEST_LIMIT_REACHED", "BEGIN_LOST"} \subseteq Reasons
  BY DEF Reasons
<1>2. ASSUME NEW reason \in {"RELAY_CLOSING", "GRANT_REVOKED", "REQUEST_LIMIT_REACHED"},
             Rejects(r, reason), Leaves(r), UNCHANGED calls
      PROVE  RelayInv' /\ Sound
  BY <1>0, <1>1, <1>2, <1>a, HandlerMoves, QuietStep DEF Sound
<1>3. CASE Rejects(r, "GRANT_EXPIRED") /\ Leaves(r) /\ UNCHANGED calls /\ grant' = ExpiryObserved
  <2>1. grant'.expired
    BY <1>3 DEF ExpiryObserved, RelayInv
  <2> QED BY <1>0, <1>1, <1>3, <1>a, <2>1, HandlerMoves, QuietStep DEF Sound
<1>4. CASE /\ ~relay.closing /\ ~grant.revoked /\ ~grant.expired /\ ExpiresAt > clock
           /\ Cardinality(Recorded) < MaxRequests
           /\ calls' = [calls EXCEPT ![r] = "send_unknown"]
           /\ \/ /\ handler' = [handler EXCEPT ![r].pc = "send", ![r].call = TRUE]
                 /\ UNCHANGED <<guard, relay>>
              \/ /\ handler' = [handler EXCEPT ![r].pc = "rejected", ![r].reason = "BEGIN_LOST",
                                               ![r].call = contexted]
                 /\ Leaves(r)
                 /\ UNCHANGED relay
              \/ /\ contexted
                 /\ Rejects(r, "BEGIN_LOST") /\ Leaves(r)
                 /\ relay' = [relay EXCEPT !.closing = TRUE]
           /\ UNCHANGED grant
  <2>1. /\ calls' \in [Requests -> CallStates] /\ calls'[r] = "send_unknown"
        /\ \A q \in Requests \ {r} : calls'[q] = calls[q]
    BY <1>4 DEF RelayInv, CallStates
  <2>2. IsFiniteSet(Recorded') /\ Cardinality(Recorded') <= MaxRequests
    BY <1>4, RecordedGrows
  <2>3. calls'[r] # None /\ UNCHANGED grant
    BY <1>4, <2>1, RelayAssumption
  <2>4. Sound
    BY <1>0, <1>4 DEF Sound
  <2>5. CASE handler' = [handler EXCEPT ![r].pc = "send", ![r].call = TRUE] /\ UNCHANGED <<guard, relay>>
    <3> DEFINE h == [handler[r] EXCEPT !.pc = "send", !.call = TRUE]
    <3>1. h \in Handler /\ h.pc = "send" /\ h.call /\ h.reason = handler[r].reason
      BY <1>0 DEF Handler, Stages
    <3>2. handler' = [handler EXCEPT ![r] = h] /\ handler'[r] = h
      BY <2>5 DEF RelayInv
    <3> HIDE DEF h
    <3>3. Serves(r)'
      BY <1>0, <2>1, <2>3, <2>5, <3>1, <3>2 DEF Serves, Guards, Closes
    <3> QED BY <1>0, <1>1, <2>1, <2>2, <2>4, <2>5, <3>1, <3>2, <3>3, RequestMoves
  <2>6. CASE /\ handler' = [handler EXCEPT ![r].pc = "rejected", ![r].reason = "BEGIN_LOST", ![r].call = contexted]
             /\ Leaves(r)
    <3> DEFINE h == [handler[r] EXCEPT !.pc = "rejected", !.reason = "BEGIN_LOST", !.call = contexted]
    <3>1. h \in Handler /\ h.pc = "rejected" /\ h.call = contexted /\ h.reason = "BEGIN_LOST"
      BY <1>0, <1>a DEF Handler, Stages, RelayInv
    <3>2. handler' = [handler EXCEPT ![r] = h] /\ handler'[r] = h
      BY <2>6 DEF RelayInv
    <3> HIDE DEF h
    <3>3. Serves(r)'
      BY <1>0, <2>1, <2>3, <3>1, <3>2 DEF Serves, Guards, Closes
    <3> QED BY <1>0, <1>1, <2>1, <2>2, <2>4, <2>6, <3>1, <3>2, <3>3, RequestMoves DEF Leaves
  <2>7. CASE Rejects(r, "BEGIN_LOST") /\ Leaves(r) /\ relay' = [relay EXCEPT !.closing = TRUE]
    <3>1. PICK h \in Handler : /\ handler' = [handler EXCEPT ![r] = h]
                               /\ h.pc = "rejected" /\ ~h.call /\ h.reason = "BEGIN_LOST"
      BY <1>0, <1>a, <2>7, HandlerMoves DEF Stands
    <3>2. handler'[r] = h /\ relay'.closing
      BY <2>7, <3>1 DEF RelayInv
    <3>3. Serves(r)'
      BY <1>0, <2>1, <2>3, <3>1, <3>2 DEF Serves, Guards, Closes
    <3> QED BY <1>0, <1>1, <2>1, <2>2, <2>4, <2>7, <3>1, <3>3, RequestMoves DEF Leaves
  <2> QED BY <1>4, <2>5, <2>6, <2>7
<1> QED BY <1>2, <1>3, <1>4 DEF BeginCall

LEMMA AnswerKeeps ==
    ASSUME RelayInv, NEW r \in Requests, SendUpstream(r) \/ ReadAnswer(r) \/ CheckAnswer(r)
    PROVE  RelayInv' /\ Sound
<1>0. /\ Serves(r) /\ handler[r].call /\ handler[r] \in Handler /\ calls[r] # None
      /\ UNCHANGED <<calls, authority, contexted, grant, relay>>
      /\ handler[r].reason \in Reasons /\ (handler[r].reason = "GRANT_EXPIRED" => grant.expired)
  BY DEF SendUpstream, ReadAnswer, CheckAnswer, RelayInv, Serves, Handler
<1>1. Onward
  BY <1>0 DEF RelayInv, Onward
<1>a. /\ {"RELAY_TRANSPORT_ERROR", "RELAY_CLOSING", "UPSTREAM_HTTP_ERROR", "UPSTREAM_PROTOCOL"} \subseteq Reasons
      /\ "answer" \in Stages
  BY DEF Reasons, Stages
<1>2. CASE SendUpstream(r)
  <2>1. /\ upstream' = upstream \/ upstream' = upstream \union {r}
        /\ calls[r] = "send_unknown" /\ (contexted => authority) /\ Leaves(r)
        /\ Moves(r, "answer") \/ Rejects(r, "RELAY_TRANSPORT_ERROR")
    BY <1>0, <1>2 DEF SendUpstream, Serves, Guards
  <2>2. RelayInv' /\ Recorded' = Recorded
    BY <1>0, <1>1, <1>a, <2>1, HandlerMoves, QuietStep
  <2> QED BY <2>1, <2>2 DEF Sound
<1>3. ASSUME UNCHANGED <<guard, upstream>>,
             \E reason \in {"RELAY_CLOSING", "UPSTREAM_HTTP_ERROR", "UPSTREAM_PROTOCOL"} : Rejects(r, reason)
      PROVE  RelayInv' /\ Sound
  BY <1>0, <1>1, <1>3, <1>a, HandlerMoves, QuietStep DEF Sound
<1>4. CASE UNCHANGED <<guard, upstream>> /\ handler' = [handler EXCEPT ![r].pc = "check", ![r].complete = TRUE]
  <2> DEFINE h == [handler[r] EXCEPT !.pc = "check", !.complete = TRUE]
  <2>1. h \in Handler /\ h.pc = "check" /\ h.call = handler[r].call /\ h.passed = handler[r].passed
        /\ h.reason = handler[r].reason
    BY <1>0 DEF Handler, Stages
  <2>2. handler' = [handler EXCEPT ![r] = h]
    BY <1>4
  <2> HIDE DEF h
  <2>3. Stands(r, "check", handler[r].call, handler[r].passed, handler[r].reason)
    BY <2>1, <2>2 DEF Stands
  <2> QED BY <1>0, <1>1, <1>4, <2>3, QuietStep DEF Sound
<1>5. CASE UNCHANGED <<guard, upstream>> /\ handler' = [handler EXCEPT ![r].pc = "finish", ![r].passed = TRUE]
  <2> DEFINE h == [handler[r] EXCEPT !.pc = "finish", !.passed = TRUE]
  <2>1. h \in Handler /\ h.pc = "finish" /\ h.call = handler[r].call /\ h.passed = TRUE
        /\ h.reason = handler[r].reason
    BY <1>0 DEF Handler, Stages
  <2>2. handler' = [handler EXCEPT ![r] = h]
    BY <1>5
  <2> HIDE DEF h
  <2>3. Stands(r, "finish", handler[r].call, TRUE, handler[r].reason)
    BY <2>1, <2>2 DEF Stands
  <2> QED BY <1>0, <1>1, <1>5, <2>3, QuietStep DEF Sound
<1> QED BY <1>2, <1>3, <1>4, <1>5 DEF ReadAnswer, CheckAnswer

(* _withdraw_context_sends and the end of _handle. *)
LEMMA FinishKeeps ==
    ASSUME RelayInv, NEW r \in Requests, Withdraw(r) \/ FinishRequest(r)
    PROVE  RelayInv' /\ Sound
<1>0. /\ Serves(r) /\ handler[r] \in Handler /\ UNCHANGED <<authority, contexted, guard, upstream>>
      /\ handler[r].call \in BOOLEAN /\ handler[r].reason \in Reasons /\ handler[r].pc \in {"rejected", "finish"}
      /\ handler[r].call => calls[r] # None
      /\ handler[r].reason = "GRANT_EXPIRED" => grant.expired
  BY DEF Withdraw, FinishRequest, RelayInv, Serves, Handler
<1>1. Onward
  <2>1. /\ UNCHANGED relay \/ relay' = [relay EXCEPT !.closing = TRUE]
        /\ UNCHANGED grant \/ \E answers \in BOOLEAN : grant' = [grant EXCEPT !.revoked = @ \/ answers]
    BY DEF Withdraw, FinishRequest
  <2>2. grant \in [revoked : BOOLEAN, expired : BOOLEAN] /\ relay \in [closing : BOOLEAN, taken : Nat]
    BY DEF RelayInv
  <2>3. grant' \in [revoked : BOOLEAN, expired : BOOLEAN] /\ (grant.expired => grant'.expired)
    <3>1. ASSUME NEW answers \in BOOLEAN, grant' = [grant EXCEPT !.revoked = @ \/ answers]
          PROVE  grant' \in [revoked : BOOLEAN, expired : BOOLEAN] /\ (grant.expired => grant'.expired)
      <4>1. (grant.revoked \/ answers) \in BOOLEAN
        OBVIOUS
      <4> QED BY <2>2, <3>1, <4>1
    <3> QED BY <2>1, <2>2, <3>1
  <2> QED BY <1>0, <2>1, <2>2, <2>3 DEF Onward
<1>a. {"finish", "done"} \subseteq Stages /\ "JOURNAL_COMPLETION_FAILED" \in Reasons
  BY DEF Stages, Reasons
<1>2. CASE Withdraw(r)
  <2>1. UNCHANGED calls /\ Moves(r, "finish")
    BY <1>2 DEF Withdraw
  <2>2. contexted /\ calls[r] # None => relay'.closing
    BY <1>0, <1>1, <1>2 DEF Withdraw, Serves, Closes, Onward, RelayInv
  <2> QED BY <1>0, <1>1, <1>a, <2>1, <2>2, HandlerMoves, QuietStep DEF Sound, Onward
<1>b. ASSUME handler[r].passed,
             handler' = [handler EXCEPT ![r].pc = "done", ![r].passed = FALSE, ![r].reason = "CLIENT_CLOSE_FAILED"]
      PROVE  Stands(r, "done", handler[r].call, FALSE, "CLIENT_CLOSE_FAILED")
  <2> DEFINE h == [handler[r] EXCEPT !.pc = "done", !.passed = FALSE, !.reason = "CLIENT_CLOSE_FAILED"]
  <2>1. h \in Handler /\ h.pc = "done" /\ h.call = handler[r].call /\ h.passed = FALSE
        /\ h.reason = "CLIENT_CLOSE_FAILED"
    BY <1>0, <1>a DEF Handler, Reasons
  <2>2. handler' = [handler EXCEPT ![r] = h]
    BY <1>b
  <2> HIDE DEF h
  <2> QED BY <2>1, <2>2 DEF Stands
<1>3. CASE /\ handler[r].pc = "finish" /\ UNCHANGED <<relay, grant>>
           /\ \/ Moves(r, "done")
              \/ /\ handler[r].passed
                 /\ handler' = [handler EXCEPT ![r].pc = "done", ![r].passed = FALSE,
                                               ![r].reason = "CLIENT_CLOSE_FAILED"]
           /\ calls' = IF handler[r].call
                         THEN [calls EXCEPT ![r] = IF handler[r].complete THEN "response_received" ELSE @]
                         ELSE calls
  <2>1. /\ calls' \in [Requests -> CallStates] /\ \A q \in Requests \ {r} : calls'[q] = calls[q]
        /\ calls'[r] = None <=> calls[r] = None
    BY <1>0, <1>3, RelayAssumption DEF RelayInv, CallStates
  <2>2. Recorded' = Recorded /\ IsFiniteSet(Recorded') /\ Cardinality(Recorded') <= MaxRequests
    BY <2>1, RecordedStands
  <2>3. PICK h \in Handler : /\ handler' = [handler EXCEPT ![r] = h] /\ h.pc = "done" /\ h.call = handler[r].call
                             /\ \/ h.passed = handler[r].passed /\ h.reason = handler[r].reason
                                \/ h.passed = FALSE /\ h.reason = "CLIENT_CLOSE_FAILED"
    <3>1. CASE Moves(r, "done")
      BY <1>a, <3>1, HandlerMoves DEF Stands
    <3>2. CASE ~Moves(r, "done")
      BY <1>3, <1>b, <3>2 DEF Stands
    <3> QED BY <3>1, <3>2
  <2>4. handler'[r] = h
    BY <2>3 DEF RelayInv
  <2>5. Closes(r)'
    BY <1>0, <1>3, <2>1, <2>3, <2>4 DEF Serves, Closes
  <2>6. Serves(r)'
    BY <1>0, <1>3, <2>1, <2>3, <2>4, <2>5 DEF Serves, Guards
  <2> QED BY <1>0, <1>1, <2>1, <2>2, <2>3, <2>6, RequestMoves DEF Sound
<1>4. CASE /\ handler[r].call /\ UNCHANGED calls
           /\ handler' = [handler EXCEPT ![r].pc = "done", ![r].passed = FALSE,
                                         ![r].reason = "JOURNAL_COMPLETION_FAILED"]
           /\ contexted => relay' = [relay EXCEPT !.closing = TRUE]
  <2> DEFINE h == [handler[r] EXCEPT !.pc = "done", !.passed = FALSE, !.reason = "JOURNAL_COMPLETION_FAILED"]
  <2>1. h \in Handler /\ h.pc = "done" /\ h.call = handler[r].call /\ h.passed = FALSE
        /\ h.reason = "JOURNAL_COMPLETION_FAILED"
    BY <1>0, <1>a DEF Handler
  <2>2. handler' = [handler EXCEPT ![r] = h]
    BY <1>4
  <2> HIDE DEF h
  <2>3. Stands(r, "done", handler[r].call, FALSE, "JOURNAL_COMPLETION_FAILED")
    BY <2>1, <2>2 DEF Stands
  <2>4. contexted => relay'.closing
    BY <1>4 DEF RelayInv
  <2>5. calls[r] # None /\ handler[r].call /\ UNCHANGED <<calls, authority, guard>>
    BY <1>0, <1>1, <1>4 DEF Serves
  <2>6. PICK pc : pc = "done"
    OBVIOUS
  <2>7. PICK reason : reason = "JOURNAL_COMPLETION_FAILED"
    OBVIOUS
  <2> QED BY <1>0, <1>1, <2>3, <2>4, <2>5, <2>6, <2>7, QuietStep DEF Sound
<1> QED BY <1>2, <1>3, <1>4 DEF FinishRequest

LEMMA RelayPreserved == RelayInv /\ [RelayNext]_relayVars => RelayInv' /\ Sound
<1> SUFFICES ASSUME RelayInv, [RelayNext]_relayVars PROVE RelayInv' /\ Sound
  OBVIOUS
<1>1. ASSUME NEW r \in Requests,
             \/ TakePlace(r) \/ EnterGuard(r) \/ BeginCall(r) \/ SendUpstream(r)
             \/ ReadAnswer(r) \/ CheckAnswer(r) \/ Withdraw(r) \/ FinishRequest(r)
      PROVE  RelayInv' /\ Sound
  BY <1>1, WaitingKeeps, BeginKeeps, AnswerKeeps, FinishKeeps
<1> QED BY <1>1, ControllerKeeps DEF RelayNext

(***************************************************************************)
(* Nothing is sent unrecorded, unasked or beyond the grant, and after a    *)
(* request that failed otherwise than at the close of its client, or met   *)
(* the expiry, no call is begun, for any number of requests and any limits *)
(* (_handle, _guard_send and begin_call).                                  *)
(***************************************************************************)
THEOREM SendsBounded == RelaySpec => SendsAreBounded
<1>1. RelayInit => RelayInv
  <2> SUFFICES ASSUME RelayInit PROVE RelayInv
    OBVIOUS
  <2>1. Recorded = {}
    BY DEF RelayInit, Recorded
  <2>2. IsFiniteSet(Recorded) /\ Cardinality(Recorded) <= MaxRequests
    BY <2>1, FS_EmptySet, RelayAssumption
  <2>3. NewHandler \in Handler
    BY DEF NewHandler, Handler, Stages, Reasons
  <2>4. ASSUME NEW r \in Requests PROVE Serves(r)
    <3>1. handler[r] = NewHandler /\ calls[r] = None
      BY DEF RelayInit
    <3>2. NewHandler.pc = "read" /\ ~NewHandler.call /\ NewHandler.reason = None
      BY DEF NewHandler
    <3> QED BY <3>1, <3>2, RelayAssumption DEF Serves, Guards, Closes
  <2> QED BY <2>2, <2>3, <2>4 DEF RelayInv, RelayInit, CallStates
<1>2. RelayInv => \A r \in Requests : WentWrong(r) => relay.closing \/ grant.expired
  BY DEF RelayInv, Serves, Closes, WentWrong
<1>3. RelayInv /\ RelayInv' /\ [RelayNext]_relayVars =>
        [SendsAreAuthorized /\ ((\E r \in Requests : WentWrong(r)) => Recorded' = Recorded)]_relayVars
  <2> SUFFICES ASSUME RelayInv, RelayInv', RelayNext
               PROVE  SendsAreAuthorized /\ ((\E r \in Requests : WentWrong(r)) => Recorded' = Recorded)
    OBVIOUS
  <2>1. Sound
    BY RelayPreserved
  <2>2. Cardinality(Recorded') <= MaxRequests
    BY DEF RelayInv
  <2> QED BY <1>2, <2>1, <2>2 DEF Sound, SendsAreAuthorized
<1>4. RelayInv /\ [RelayNext]_relayVars => RelayInv'
  BY RelayPreserved
<1> QED BY <1>1, <1>3, <1>4, PTL DEF RelaySpec, SendsAreBounded

-----------------------------------------------------------------------------
(***************************************************************************)
(* The project's registry.  Configuration and catalog change only together *)
(* with the project's revision, so what was read at the present revision   *)
(* is still in force; and the configuration in force agrees with every     *)
(* rulebook revision bound.                                                *)
(***************************************************************************)
PreviewRead ==
    [kind : {"configuration", "rulebook"}, rulebook : Rulebooks, resources : Catalogs \union {None},
     revision : Nat, catalog : Nat, compiler : {1, 2}, over : Nat, overCatalog : Catalogs \union {None}]
Preview == [read : PreviewRead, verdict : [draft : BOOLEAN, publish : BOOLEAN, valid : BOOLEAN]]

InForceSince(read) ==
    /\ read.revision <= project.revision
    /\ read.revision = project.revision =>
          read.over = project.preview /\ read.overCatalog = catalog.content

Agrees(rulebook) ==
    rulebook.revision \in DOMAIN versions => versions[rulebook.revision] = rulebook.text

RegistryInv ==
    /\ project \in [revision : Nat, preview : Nat, status : {"unconfigured", "draft", "offline_valid"}]
    /\ previews \in Seq(Preview)
    /\ catalog \in [revision : Nat, content : Catalogs \union {None}]
    /\ compilerId \in {1, 2}
    /\ author \in [Authors -> PreviewRead \union {None}]
    /\ \A a \in Authors : author[a] # None => InForceSince(author[a])
    /\ \A p \in DOMAIN previews : InForceSince(previews[p].read)
    /\ project.preview # 0 => project.preview \in DOMAIN previews /\ Agrees(previews[project.preview].read.rulebook)

(* What a step of the registry may do to the configuration. *)
Reviewed ==
    /\ project'.preview # project.preview =>
          LET read == previews[project'.preview].read IN
          read.over = project.preview /\ read.overCatalog = catalog.content
    /\ \A r \in DOMAIN versions : r \in DOMAIN versions' /\ versions'[r] = versions[r]
    /\ project'.preview # 0 =>
          LET rulebook == previews'[project'.preview].read.rulebook IN
          rulebook.revision \in DOMAIN versions' => versions'[rulebook.revision] = rulebook.text

LEMMA PreviewsRead ==
    RegistryInv => \A p \in DOMAIN previews : previews[p] \in Preview /\ previews[p].read \in PreviewRead /\ p \in Nat
<1> SUFFICES ASSUME RegistryInv, NEW p \in DOMAIN previews
             PROVE  previews[p] \in Preview /\ previews[p].read \in PreviewRead /\ p \in Nat
  OBVIOUS
<1>1. previews[p] \in Preview /\ p \in Nat
  BY DEF RegistryInv
<1> QED BY <1>1 DEF Preview

(* Binding a rulebook whose identity holds keeps every text, and agrees with it. *)
LEMMA BindingKeeps ==
    ASSUME NEW rulebook, IdentityHolds(rulebook),
           versions' = versions \/ versions' = WithVersion(rulebook)
    PROVE  /\ \A r \in DOMAIN versions : r \in DOMAIN versions' /\ versions'[r] = versions[r]
           /\ Agrees(rulebook)'
<1>1. CASE versions' = versions
  BY <1>1 DEF IdentityHolds, Agrees
<1>2. CASE versions' = WithRow(versions, rulebook.revision, rulebook.text) /\ rulebook.revision \notin DOMAIN versions
  BY <1>2 DEF WithRow, Agrees
<1> QED BY <1>1, <1>2 DEF WithVersion

(* apply_configuration and publish_rulebook: a presentable preview becomes the configuration. *)
LEMMA ConfigurationMoves ==
    ASSUME RegistryInv, NEW p \in DOMAIN previews, previews[p].read.revision = project.revision,
           IdentityHolds(previews[p].read.rulebook),
           versions' = versions \/ versions' = WithVersion(previews[p].read.rulebook),
           catalog' = WithCatalog(previews[p].read.resources),
           NEW status \in {"draft", "offline_valid"},
           project' = [revision |-> project.revision + 1, preview |-> p, status |-> status],
           UNCHANGED <<previews, compilerId, author>>
    PROVE  RegistryInv' /\ Reviewed
<1> DEFINE read == previews[p].read
<1>1. previews[p] \in Preview /\ read \in PreviewRead /\ p \in Nat /\ InForceSince(read) /\ project.revision \in Nat
  BY PreviewsRead DEF RegistryInv
<1>2. project'.revision = project.revision + 1 /\ project'.preview = p
      /\ project' \in [revision : Nat, preview : Nat, status : {"unconfigured", "draft", "offline_valid"}]
  BY <1>1
<1>3. catalog' \in [revision : Nat, content : Catalogs \union {None}]
  BY <1>1 DEF RegistryInv, WithCatalog, PreviewRead
<1>4. \A r \in PreviewRead : InForceSince(r) => InForceSince(r)'
  BY <1>1, <1>2 DEF InForceSince, PreviewRead
<1>5. \A a \in Authors : author[a] # None => InForceSince(author[a])'
  <2> SUFFICES ASSUME NEW a \in Authors, author[a] # None PROVE InForceSince(author[a])'
    OBVIOUS
  <2>1. PICK r \in PreviewRead : r = author[a] /\ r = author'[a] /\ InForceSince(r)
    BY DEF RegistryInv
  <2> QED BY <1>4, <2>1
<1>6. \A q \in DOMAIN previews : InForceSince(previews[q].read)'
  <2> SUFFICES ASSUME NEW q \in DOMAIN previews PROVE InForceSince(previews[q].read)'
    OBVIOUS
  <2>1. PICK r \in PreviewRead : r = previews[q].read /\ r = previews'[q].read /\ InForceSince(r)
    BY PreviewsRead DEF RegistryInv
  <2> QED BY <1>4, <2>1
<1>7. /\ \A r \in DOMAIN versions : r \in DOMAIN versions' /\ versions'[r] = versions[r]
      /\ Agrees(read.rulebook)'
  <2>1. PICK rulebook : rulebook = read.rulebook /\ rulebook = read'.rulebook
    OBVIOUS
  <2> QED BY <2>1, BindingKeeps
<1>8. Reviewed
  BY <1>1, <1>2, <1>7 DEF Reviewed, InForceSince, Agrees
<1> QED BY <1>2, <1>3, <1>5, <1>6, <1>7, <1>8 DEF RegistryInv

LEMMA RegistryPreserved == RegistryInv /\ [RegistryNext]_registryVars => RegistryInv' /\ Reviewed
<1> SUFFICES ASSUME RegistryInv, [RegistryNext]_registryVars PROVE RegistryInv' /\ Reviewed
  OBVIOUS
<1>0. /\ project \in [revision : Nat, preview : Nat, status : {"unconfigured", "draft", "offline_valid"}]
      /\ catalog \in [revision : Nat, content : Catalogs \union {None}] /\ compilerId \in {1, 2}
  BY DEF RegistryInv
<1>1. ASSUME NEW n, UpdateProject(n) PROVE RegistryInv' /\ Reviewed
  <2>1. /\ project'.revision = project.revision + 1 /\ project'.preview = project.preview
        /\ project' \in [revision : Nat, preview : Nat, status : {"unconfigured", "draft", "offline_valid"}]
        /\ UNCHANGED <<previews, versions, catalog, compilerId, author>>
    BY <1>0, <1>1 DEF UpdateProject
  <2>2. \A r \in PreviewRead : InForceSince(r) => InForceSince(r)'
    BY <1>0, <2>1 DEF InForceSince, PreviewRead
  <2>3. ASSUME NEW a \in Authors, author[a] # None PROVE InForceSince(author[a])'
    <3>1. PICK r \in PreviewRead : r = author'[a] /\ InForceSince(r)
      BY <2>1, <2>3 DEF RegistryInv
    <3> QED BY <2>2, <3>1
  <2>4. ASSUME NEW q \in DOMAIN previews PROVE InForceSince(previews[q].read)'
    <3>1. PICK r \in PreviewRead : r = previews'[q].read /\ InForceSince(r)
      BY <2>1, PreviewsRead DEF RegistryInv
    <3> QED BY <2>2, <3>1
  <2> QED BY <2>1, <2>3, <2>4 DEF RegistryInv, Reviewed, Agrees
<1>2. ASSUME NEW p, NEW n, ApplyConfiguration(p, n) PROVE RegistryInv' /\ Reviewed
  <2> DEFINE valid == previews[p].read.kind = "configuration" /\ previews[p].verdict.valid
             status == IF valid THEN "offline_valid" ELSE "draft"
  <2>1. /\ p \in DOMAIN previews /\ previews[p].read.revision = project.revision /\ n = project.revision
        /\ IdentityHolds(previews[p].read.rulebook)
        /\ versions' = versions \/ versions' = WithVersion(previews[p].read.rulebook)
        /\ catalog' = WithCatalog(previews[p].read.resources)
        /\ project' = [revision |-> n + 1, preview |-> p, status |-> status]
        /\ UNCHANGED <<previews, compilerId, author>>
    BY <1>2 DEF ApplyConfiguration, Presentable
  <2>2. status \in {"draft", "offline_valid"}
    OBVIOUS
  <2> HIDE DEF status
  <2> QED BY <2>1, <2>2, ConfigurationMoves
<1>3. ASSUME NEW p, NEW n, PublishRulebook(p, n) PROVE RegistryInv' /\ Reviewed
  <2> DEFINE status == IF previews[p].verdict.valid THEN "offline_valid" ELSE "draft"
  <2>1. /\ p \in DOMAIN previews /\ previews[p].read.revision = project.revision /\ n = project.revision
        /\ IdentityHolds(previews[p].read.rulebook)
        /\ versions' = WithVersion(previews[p].read.rulebook)
        /\ catalog' = WithCatalog(previews[p].read.resources)
        /\ project' = [revision |-> n + 1, preview |-> p, status |-> status]
        /\ UNCHANGED <<previews, compilerId, author>>
    BY <1>3 DEF PublishRulebook, Presentable
  <2>2. status \in {"draft", "offline_valid"}
    OBVIOUS
  <2> HIDE DEF status
  <2> QED BY <2>1, <2>2, ConfigurationMoves
<1>4. ASSUME NEW a \in Authors, NEW kind \in {"configuration", "rulebook"}, NEW r \in Rulebooks,
             NEW c \in Catalogs \union {None}, ReadForPreview(a, kind, r, c)
      PROVE  RegistryInv' /\ Reviewed
  <2> DEFINE read == [kind |-> kind, rulebook |-> r, resources |-> c, revision |-> project.revision,
                      catalog |-> catalog.revision, compiler |-> compilerId,
                      over |-> project.preview, overCatalog |-> catalog.content]
  <2>1. read \in PreviewRead /\ InForceSince(read)
    BY <1>0 DEF PreviewRead, InForceSince
  <2>2. author' = [author EXCEPT ![a] = read] /\ UNCHANGED <<project, previews, versions, catalog, compilerId>>
    BY <1>4 DEF ReadForPreview
  <2> HIDE DEF read
  <2>3. /\ author' \in [Authors -> PreviewRead \union {None}]
        /\ \A b \in Authors : author'[b] # None => InForceSince(author'[b])
    BY <2>1, <2>2 DEF RegistryInv
  <2> QED BY <2>2, <2>3 DEF RegistryInv, InForceSince, Agrees, Reviewed
<1>5. ASSUME NEW a \in Authors, SavePreview(a) PROVE RegistryInv' /\ Reviewed
  <2>1. PICK read \in PreviewRead : read = author[a] /\ InForceSince(read)
    BY <1>5 DEF SavePreview, RegistryInv
  <2> DEFINE kept == [read EXCEPT !.catalog = catalog.revision]
             new == [read |-> kept, verdict |-> Verdict(read)]
  <2>2. /\ UNCHANGED <<project, versions, catalog, compilerId>> /\ author' = [author EXCEPT ![a] = None]
        /\ previews' = previews \/ previews' = Append(previews, new)
    BY <1>5, <2>1 DEF SavePreview
  <2>3. kept \in PreviewRead /\ kept.revision = read.revision /\ kept.over = read.over
        /\ kept.overCatalog = read.overCatalog
    BY <1>0 DEF PreviewRead
  <2>4. Verdict(read) \in [draft : BOOLEAN, publish : BOOLEAN, valid : BOOLEAN]
    BY DEF Verdict, IdentityHolds
  <2> HIDE DEF kept
  <2>5. new \in Preview /\ new.read = kept
    BY <2>3, <2>4 DEF Preview
  <2> HIDE DEF new
  <2>6. InForceSince(kept)
    BY <2>1, <2>3 DEF InForceSince
  <2>7. /\ previews \in Seq(Preview) /\ author \in [Authors -> PreviewRead \union {None}]
        /\ \A q \in DOMAIN previews : InForceSince(previews[q].read)
        /\ \A b \in Authors : author[b] # None => InForceSince(author[b])
    BY DEF RegistryInv
  <2>8. /\ previews' \in Seq(Preview) /\ \A q \in DOMAIN previews : q \in DOMAIN previews' /\ previews'[q] = previews[q]
        /\ \A q \in DOMAIN previews' : q \in DOMAIN previews \/ previews'[q] = new
    BY <2>2, <2>5, <2>7
  <2>9. \A q \in DOMAIN previews' : InForceSince(previews'[q].read)
    BY <2>5, <2>6, <2>7, <2>8
  <2>10. /\ author' \in [Authors -> PreviewRead \union {None}]
         /\ \A b \in Authors : author'[b] # None => InForceSince(author'[b])
    BY <2>2, <2>7
  <2>11. RegistryInv'
    BY <2>2, <2>8, <2>9, <2>10 DEF RegistryInv, InForceSince, Agrees
  <2> QED BY <2>2, <2>8, <2>11 DEF RegistryInv, Agrees, Reviewed
<1>6. ASSUME UNCHANGED <<project, previews, versions, catalog, author>>, compilerId' \in {1, 2}
      PROVE  RegistryInv' /\ Reviewed
  BY <1>6 DEF RegistryInv, InForceSince, Agrees, Reviewed
<1>7. ASSUME \/ \E policy \in Policies : RegisterExecutionPolicy(policy)
             \/ \E p \in 1 .. MaxPreviews : PreviewExpires(p)
             \/ CompilerChanges \/ UNCHANGED registryVars
      PROVE  UNCHANGED <<project, previews, versions, catalog, author>> /\ compilerId' \in {1, 2}
  BY <1>0, <1>7 DEF RegisterExecutionPolicy, PreviewExpires, CompilerChanges, registryVars
<1> QED BY <1>1, <1>2, <1>3, <1>4, <1>5, <1>6, <1>7 DEF RegistryNext

(***************************************************************************)
(* A configuration replaces exactly what its author saw, and a bound       *)
(* rulebook revision keeps its text, for any authors and documents.        *)
(***************************************************************************)
THEOREM ConfigurationsReviewed == RegistrySpec => ConfigurationsAreReviewed
<1>1. RegistryInit => RegistryInv
  BY DEF RegistryInit, RegistryInv
<1>2. RegistryInv /\ [RegistryNext]_registryVars => RegistryInv'
  BY RegistryPreserved
<1>3. RegistryInv /\ [RegistryNext]_registryVars =>
        [/\ project'.preview # project.preview =>
               LET read == previews[project'.preview].read IN
               read.over = project.preview /\ read.overCatalog = catalog.content
         /\ \A r \in DOMAIN versions : r \in DOMAIN versions' /\ versions'[r] = versions[r]
         /\ project'.preview # 0 =>
               LET rulebook == previews'[project'.preview].read.rulebook IN
               rulebook.revision \in DOMAIN versions' => versions'[rulebook.revision] = rulebook.text
        ]_registryVars
  BY RegistryPreserved DEF Reviewed
<1> QED BY <1>1, <1>2, <1>3, PTL DEF RegistrySpec, ConfigurationsAreReviewed
==============================================================================
