---------------------------- MODULE CandidateGate ----------------------------
(***************************************************************************)
(* CandidateStore in backend/karajan/candidates/store.py and the rebinding *)
(* of reviewers in _review_binding.py, for one series of candidates.       *)
(*                                                                         *)
(* Candidates are frozen once and never changed; a later one supersedes    *)
(* them.  Checks and reviews are appended as evidence.  A review reads the *)
(* checks in one connection and is saved in a later one, so results may be *)
(* recorded in between; the gate recomputes everything when it is asked.   *)
(* A candidate is named by its revision, evidence by its position.         *)
(***************************************************************************)
EXTENDS Common, Naturals, Sequences, FiniteSets

CONSTANTS
    CheckIds,       \* checks the policy of every candidate requires
    Reviewers,      \* profiles that may be approved as reviewers
    MaxCandidates,  \* bound on revisions of the series
    MaxEvidence     \* bound on evidence recorded

VARIABLES
    candidates,     \* the series: content, input and writer, approved reviewers, rebind key
    evidence,       \* checks and reviews with their logs, in the order of their insertion
    reviewing,      \* a review between its read of the checks and its save, or None
    lost,           \* objects (contents and logs) whose file is gone
    altered         \* objects whose file no longer has their digest

gateVars == <<candidates, evidence, reviewing, lost, altered>>

GateInit ==
    /\ candidates = << >>
    /\ evidence = << >>
    /\ reviewing = None
    /\ lost = {}
    /\ altered = {}

Newest == Len(candidates)

(* _artifact: an object is stored under its digest.  A missing one is written again, an altered *)
(* one is refused, and one that is there stays.                                                 *)
Writes(object) ==
    /\ object \notin altered
    /\ lost' = lost \ {object}
    /\ UNCHANGED altered

(* _available: the object is there and has its digest. *)
Gone == {None} \union lost \union altered
Available(object) == object \notin Gone

(* register_baseline, or a call that stops after its objects were written: nothing else changes. *)
WriteObject(object) ==
    /\ Writes(object)
    /\ UNCHANGED <<candidates, evidence, reviewing>>

(* _freeze: what the newest candidate already holds is that candidate, rebound or not. *)
Frozen(content, input, writer, approved) ==
    LET record == [content |-> content, input |-> input, writer |-> writer,
                   reviewers |-> approved, rebind |-> None]
    IN  IF Newest # 0 /\ [candidates[Newest] EXCEPT !.rebind = None] = record THEN candidates
        ELSE Append(candidates, record)

Freeze(content, input, writer, approved) ==
    /\ Writes(content)
    /\ candidates' = Frozen(content, input, writer, approved)
    /\ Len(candidates') <= MaxCandidates
    /\ UNCHANGED <<evidence, reviewing>>

(* rebind: other reviewers for the newest candidate, as a revision of its own, once per key. *)
RebindReviewers(c, approved, key) ==
    /\ c \in DOMAIN candidates /\ Newest < MaxCandidates
    /\ \A i \in DOMAIN candidates : candidates[i].rebind # key
    /\ c = Newest /\ Available(candidates[c].content)
    /\ candidates' = Append(candidates, [candidates[c] EXCEPT !.reviewers = approved, !.rebind = key])
    /\ UNCHANGED <<evidence, reviewing, lost, altered>>

(* _save_evidence: one record per key. *)
WithEvidence(record) ==
    IF \E e \in DOMAIN evidence : evidence[e].key = record.key
      THEN evidence ELSE Append(evidence, record)

(* The log is written first, whether or not the key turns out to be one already used. *)
SavesEvidence(record) ==
    /\ IF record.log = None THEN UNCHANGED <<lost, altered>> ELSE Writes(record.log)
    /\ evidence' = WithEvidence(record)
    /\ Len(evidence') <= MaxEvidence
    /\ UNCHANGED candidates

Positions(found, c, kind, check) ==
    {e \in DOMAIN found : found[e].candidate = c /\ found[e].kind = kind /\ found[e].check = check}

LastOf(S) == CHOOSE e \in S : \A d \in S : d <= e

(* What succeeded without a log is unavailable. *)
Logged(status, log) == IF status = "passed" /\ log = None THEN "unavailable" ELSE status

(* record_check: the result of one of the policy's checks. *)
CheckRecord(c, check, passed, key, log) ==
    [candidate |-> c, kind |-> "check", check |-> check, key |-> key, by |-> None, saw |-> {},
     log |-> log, status |-> Logged(IF passed THEN "passed" ELSE "failed", log)]

RecordCheck(c, check, passed, key, log) ==
    /\ c \in DOMAIN candidates
    /\ SavesEvidence(CheckRecord(c, check, passed, key, log))
    /\ UNCHANGED reviewing

Latest(found, c, check) == LastOf(Positions(found, c, "check", check))
Present(found, c, check) == Positions(found, c, "check", check) # {}

Passed(found, c, check) == Present(found, c, check) /\ found[Latest(found, c, check)].status = "passed"

(* record_review up to its save: the latest result of every check passed, and is what was shown. *)
ReviewRecord(c, reviewer, shown, verdict, key, log) ==
    LET bound == /\ \A k \in CheckIds : /\ Passed(evidence, c, k)
                                        /\ Available(evidence[Latest(evidence, c, k)].log)
                 /\ shown = {Latest(evidence, c, k) : k \in {j \in CheckIds : Present(evidence, c, j)}}
        independent == reviewer \in candidates[c].reviewers /\ key # candidates[c].writer
    IN  [candidate |-> c, kind |-> "review", check |-> "review", key |-> key, by |-> reviewer, saw |-> shown,
         log |-> log, status |-> IF bound /\ independent THEN Logged(verdict, log) ELSE "invalidated"]

ReadForReview(c, reviewer, shown, verdict, key, log) ==
    /\ c \in DOMAIN candidates /\ reviewing = None
    /\ reviewing' = ReviewRecord(c, reviewer, shown, verdict, key, log)
    /\ UNCHANGED <<candidates, evidence, lost, altered>>

(* record_review from its log on; when the log cannot be written the review is gone. *)
SaveReview ==
    /\ reviewing # None
    /\ \/ SavesEvidence(reviewing)
       \/ reviewing.log \in altered /\ UNCHANGED <<candidates, evidence, lost, altered>>
    /\ reviewing' = None

Objects ==
    {candidates[c].content : c \in DOMAIN candidates} \union ({evidence[e].log : e \in DOMAIN evidence} \ {None})

(* The file of an object is removed. *)
LoseArtifact(object) ==
    /\ object \in Objects \ lost
    /\ lost' = lost \union {object} /\ altered' = altered \ {object}
    /\ UNCHANGED <<candidates, evidence, reviewing>>

(* The file of an object is overwritten. *)
AlterArtifact(object) ==
    /\ object \in Objects \ (lost \union altered)
    /\ altered' = altered \union {object}
    /\ UNCHANGED <<candidates, evidence, reviewing, lost>>

-----------------------------------------------------------------------------
Reviews(found, c) == Positions(found, c, "review", "review")

(* A slip in gate: which checks the review saw is not compared. *)
Decided_AnyChecks(found, c, input) ==
    /\ c = Newest /\ candidates[c].input = input
    /\ \A k \in CheckIds : Passed(found, c, k)
    /\ Reviews(found, c) # {} /\ found[LastOf(Reviews(found, c))].status = "passed"

(* gate, by its records: the newest candidate of the current input, its checks, a review of exactly these. *)
Decided(found, c, input) ==
    /\ c = Newest /\ candidates[c].input = input
    /\ \A k \in CheckIds : Passed(found, c, k)
    /\ Reviews(found, c) # {} /\ found[LastOf(Reviews(found, c))].status = "passed"
    /\ found[LastOf(Reviews(found, c))].saw = {Latest(found, c, k) : k \in CheckIds}

(* The objects that gate reads again: the content, and the logs of the records that count. *)
Relied(found, c) ==
    {candidates[c].content} \union {found[LastOf(Reviews(found, c))].log}
        \union {found[Latest(found, c, k)].log : k \in CheckIds}

GateOf(found, gone, c, input) == Decided(found, c, input) /\ Relied(found, c) \intersect gone = {}

Gate(c, input) == GateOf(evidence, Gone, c, input)

(* The step saved a passing review of the candidate, of an approved reviewer who did not write it. *)
ReviewSaved(c) ==
    /\ Len(evidence') = Len(evidence) + 1
    /\ LET added == evidence'[Len(evidence')] IN
       /\ added.kind = "review" /\ added.candidate = c /\ added.status = "passed"
       /\ added.by \in candidates[c].reviewers /\ added.key # candidates[c].writer

(* The step wrote back an object the gate was missing, and the gate had been decided before. *)
ObjectRestored(c, input) ==
    /\ Decided(evidence, c, input)
    /\ \E x \in Relied(evidence, c) : x \in lost /\ x \notin lost'

(***************************************************************************)
(* A gate opens by a review: when a candidate starts to pass, the step     *)
(* saved a passing review of it, given by a reviewer approved for it who   *)
(* is not its writer.  The one other way is that a call wrote back the     *)
(* very object whose loss had shut the gate, while checks and review were  *)
(* those that count already (a check or a freeze repeated with the same    *)
(* bytes does that).  A check recorded between the read and the save of a  *)
(* review, a later check of the same kind, or a new set of reviewers never *)
(* opens it: what was reviewed is exactly what counts.  Behaviour:         *)
(* record_check, record_review, _freeze, rebind and gate.                  *)
(***************************************************************************)
GateOpensByReview ==
    [][\A c \in DOMAIN candidates, i \in {candidates[j].input : j \in DOMAIN candidates} :
         ~Gate(c, i) /\ Gate(c, i)' => ReviewSaved(c) \/ ObjectRestored(c, i)]_gateVars
=============================================================================
