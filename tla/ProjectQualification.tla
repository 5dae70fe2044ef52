------------------------ MODULE ProjectQualification ------------------------
(***************************************************************************)
(* ProfileQualifications in backend/karajan/projects/qualification.py with *)
(* the credential generations of credential_sources.py and the suites of   *)
(* go_suite.py, go_reviewer_suite.py and go_commander_suite.py, for one    *)
(* profile of a project.                                                   *)
(*                                                                         *)
(* A qualification commits its start, then resolves the credential and     *)
(* observes outside any transaction, then records: the profile's binding,  *)
(* the runtime, the key file, the credential generation and the            *)
(* qualification itself may change meanwhile.  The reviewer and commander  *)
(* suites hold the project's lock around each effect and check again; the  *)
(* worker suite and the local fixture check at the end only.  A command    *)
(* repeated under its key is answered from its start and changes nothing.  *)
(* Contents of the binding, the runtime and the key file are small numbers *)
(* and may come back.                                                      *)
(***************************************************************************)
EXTENDS Common, Naturals, Sequences, FiniteSets

CONSTANTS
    Qualifiers,      \* concurrent calls of the qualify operations
    Suites,          \* suites in use, of "worker", "reviewer", "commander", "fixture"
    Scenes,          \* scenarios of a suite
    MaxStarts,       \* bound on qualifications started
    MaxGenerations,  \* bound on credential generations
    MaxChanges       \* bound on changes of binding, runtime and key file

VARIABLES
    binding,       \* the approved profile with its account, channel and repository
    runtime,       \* what source() of the suites reports
    keyFile,       \* content of the key file
    generations,   \* credential_generations with their seals: sealed content and revocation
    current,       \* credential_current: the generation, or 0
    orphans,       \* material_seals whose registration did not commit
    starts,        \* profile_qualification_starts
    records,       \* profile_qualification_records: per start its record, or None
    revoked,       \* profile_qualification_revocations
    lapsed,        \* starts and records whose time is over
    qualifier,     \* per call: where it stands, its start, its secret and scenarios done
    changes        \* changes so far

(* A suite has a scenario at least. *)
ASSUME QualificationAssumption == Scenes \in Nat \ {0}

qualVars == <<binding, runtime, keyFile, generations, current, orphans, starts, records,
              revoked, lapsed, qualifier, changes>>
world == <<binding, runtime, keyFile, generations, current, orphans, changes>>

Resting == [pc |-> "rest", start |-> 0, secret |-> 0, done |-> 0]
Contents == {1, 2}

QualificationInit ==
    /\ binding = 1 /\ runtime = 1 /\ keyFile = 1
    /\ generations = << >> /\ current = 0 /\ orphans = 0
    /\ starts = << >> /\ records = << >> /\ revoked = {} /\ lapsed = {}
    /\ qualifier = [c \in Qualifiers |-> Resting]
    /\ changes = 0

-----------------------------------------------------------------------------
(* _checked: the current generation, not revoked, and its seal fits the file as it is now. *)
CredentialHolds ==
    /\ current # 0
    /\ ~generations[current].revoked /\ generations[current].sealed = keyFile

(***************************************************************************)
(* register: the seal is committed to the private store first, then the    *)
(* generation to the project.  Stopped in between, the seal is an orphan   *)
(* and its command stays incomplete.                                       *)
(***************************************************************************)
RegisterCredential(expected) ==
    /\ expected = current
    /\ Len(generations) + orphans < MaxGenerations
    /\ \/ /\ generations' = Append(generations, [sealed |-> keyFile, revoked |-> FALSE])
          /\ current' = Len(generations')
          /\ UNCHANGED orphans
       \/ orphans' = orphans + 1 /\ UNCHANGED <<generations, current>>
    /\ UNCHANGED <<binding, runtime, keyFile, starts, records, revoked, lapsed, qualifier, changes>>

RevokeCredential(g) ==
    /\ g \in DOMAIN generations /\ ~generations[g].revoked
    /\ generations' = [generations EXCEPT ![g].revoked = TRUE]
    /\ UNCHANGED <<binding, runtime, keyFile, current, orphans, starts, records, revoked, lapsed,
                   qualifier, changes>>

(* The catalog, the installed runtime or the key file is changed, or changed back. *)
WorldChanges ==
    /\ changes < MaxChanges /\ changes' = changes + 1
    /\ \E content \in Contents :
          \/ binding' = content /\ binding # content /\ UNCHANGED <<runtime, keyFile>>
          \/ runtime' = content /\ runtime # content /\ UNCHANGED <<binding, keyFile>>
          \/ keyFile' = content /\ keyFile # content /\ UNCHANGED <<binding, runtime>>
    /\ UNCHANGED <<generations, current, orphans, starts, records, revoked, lapsed, qualifier>>

-----------------------------------------------------------------------------
OfSuite(suite) == {q \in DOMAIN starts : starts[q].suite = suite}
NewestOf(S) == CHOOSE q \in S : \A p \in S : p <= q

(* The start, with everything it was made under, is committed before anything else happens. *)
CommitStart(c, suite, generation, pc) ==
    /\ qualifier[c].pc = "rest" /\ Len(starts) < MaxStarts
    /\ starts' = Append(starts, [suite |-> suite, binding |-> binding, runtime |-> runtime,
                                 generation |-> generation])
    /\ records' = Append(records, None)
    /\ qualifier' = [qualifier EXCEPT ![c] = [Resting EXCEPT !.pc = pc, !.start = Len(starts')]]
    /\ UNCHANGED <<world, revoked, lapsed>>

(* qualify_commander_planning, up to its first commit *)
StartCommander(c) == CredentialHolds /\ CommitStart(c, "commander", current, "resolve")

(* qualify_runtime_tools, up to its first commit *)
StartRuntimeTools(c, suite) ==
    suite \in {"worker", "reviewer"} /\ CredentialHolds /\ CommitStart(c, suite, current, "resolve")

(* qualify_local_fixture, up to its first commit: no credential is used *)
StartFixture(c) == CommitStart(c, "fixture", 0, "observe")

(* resolve_exact: the secret of the generation the start was made under, or the suite fails. *)
ResolveCredential(c) ==
    LET start == starts[qualifier[c].start] IN
    /\ qualifier[c].pc = "resolve"
    /\ IF CredentialHolds /\ current = start.generation
         THEN qualifier' = [qualifier EXCEPT ![c].pc = "observe", ![c].secret = keyFile]
         ELSE qualifier' = [qualifier EXCEPT ![c].pc = "record"]
    /\ UNCHANGED <<world, starts, records, revoked, lapsed>>

(* What the start was made under is what there is now. *)
Unchanged(q) ==
    /\ starts[q].binding = binding /\ starts[q].runtime = runtime
    /\ CredentialHolds /\ current = starts[q].generation

(* _reviewer_current_locked, _commander_current_locked: also newest, open, unrevoked, in time. *)
StillCurrent(q) ==
    /\ Unchanged(q)
    /\ records[q] = None /\ q \notin revoked /\ <<"start", q>> \notin lapsed
    /\ q = NewestOf(OfSuite(starts[q].suite))

(* A scenario passes where it may, or ends the suite. *)
SceneOf(c, mayPass) ==
    /\ qualifier[c].pc = "observe"
    /\ \/ /\ mayPass
          /\ qualifier' = [qualifier EXCEPT ![c].done = @ + 1,
                ![c].pc = IF qualifier[c].done + 1 = Scenes THEN "record" ELSE @]
       \/ qualifier' = [qualifier EXCEPT ![c].pc = "record"]
    /\ UNCHANGED <<world, starts, records, revoked, lapsed>>

SuiteOf(c) == starts[qualifier[c].start].suite

(* FixedGoSuite.observe: nothing is looked at again while a worker scenario runs. *)
ObserveWorker(c) == qualifier[c].pc = "observe" /\ SuiteOf(c) = "worker" /\ SceneOf(c, TRUE)

(* FixedGoReviewerSuite.observe: the current guard is held around each effect. *)
ObserveReviewer(c) ==
    /\ qualifier[c].pc = "observe" /\ SuiteOf(c) = "reviewer"
    /\ SceneOf(c, StillCurrent(qualifier[c].start))

(* FixedGoCommanderSuite.observe: likewise. *)
ObserveCommander(c) ==
    /\ qualifier[c].pc = "observe" /\ SuiteOf(c) = "commander"
    /\ SceneOf(c, StillCurrent(qualifier[c].start))

(* _observe of the local fixture: its script must be the same afterwards. *)
ObserveFixture(c) ==
    /\ qualifier[c].pc = "observe" /\ SuiteOf(c) = "fixture"
    /\ SceneOf(c, starts[qualifier[c].start].runtime = runtime)

(* The last transaction: a record that passes if the suite did and what it was made under holds. *)
WithRecord(c, holds) ==
    /\ records' = [records EXCEPT ![qualifier[c].start] =
          [passed |-> qualifier[c].done = Scenes /\ holds, secret |-> qualifier[c].secret]]
    /\ qualifier' = [qualifier EXCEPT ![c] = Resting]
    /\ UNCHANGED <<world, starts, revoked, lapsed>>

RecordCommander(c) ==
    /\ qualifier[c].pc = "record" /\ SuiteOf(c) = "commander"
    /\ WithRecord(c, StillCurrent(qualifier[c].start))

RecordRuntimeTools(c) ==
    LET q == qualifier[c].start IN
    /\ qualifier[c].pc = "record" /\ SuiteOf(c) \in {"worker", "reviewer"}
    /\ WithRecord(c, Unchanged(q) /\ (SuiteOf(c) = "reviewer" => StillCurrent(q)))

RecordFixture(c) ==
    /\ qualifier[c].pc = "record" /\ SuiteOf(c) = "fixture"
    /\ WithRecord(c, starts[qualifier[c].start].binding = binding)

(* The controller ends between start and record: the qualification stays unknown. *)
QualifierStops(c) ==
    /\ qualifier[c].pc # "rest"
    /\ qualifier' = [qualifier EXCEPT ![c] = Resting]
    /\ UNCHANGED <<world, starts, records, revoked, lapsed>>

(* revoke, of a start whether or not it has a record. *)
RevokeQualification(q) ==
    /\ q \in DOMAIN starts \ revoked
    /\ revoked' = revoked \union {q}
    /\ UNCHANGED <<world, starts, records, lapsed, qualifier>>

(* The time of a start (expires_at) or of a record (valid_until) is over. *)
TimePasses(kind, q) ==
    /\ q \in DOMAIN starts /\ <<kind, q>> \notin lapsed
    /\ kind = "record" => records[q] # None
    /\ lapsed' = lapsed \union {<<kind, q>>}
    /\ UNCHANGED <<world, starts, records, revoked, qualifier>>

QualificationNext ==
    \/ \E g \in 0 .. MaxGenerations : RegisterCredential(g) \/ RevokeCredential(g)
    \/ WorldChanges
    \/ \E c \in Qualifiers :
          \/ "commander" \in Suites /\ StartCommander(c)
          \/ "fixture" \in Suites /\ StartFixture(c)
          \/ \E suite \in Suites : StartRuntimeTools(c, suite)
          \/ ResolveCredential(c) \/ QualifierStops(c)
          \/ ObserveWorker(c) \/ ObserveReviewer(c) \/ ObserveCommander(c) \/ ObserveFixture(c)
          \/ RecordCommander(c) \/ RecordRuntimeTools(c) \/ RecordFixture(c)
    \/ \E q \in 1 .. MaxStarts :
          \/ RevokeQualification(q)
          \/ \E kind \in {"start", "record"} : TimePasses(kind, q)

QualificationSpec == QualificationInit /\ [][QualificationNext]_qualVars

-----------------------------------------------------------------------------
(* _go_facts, and the source the commander's facts are asked for: runtime and credential. *)
SourceHolds(q) ==
    /\ starts[q].runtime = runtime
    /\ starts[q].suite # "fixture" => CredentialHolds /\ current = starts[q].generation

(* _commander_facts_locked and the same conditions of _facts, for one qualification. *)
Usable(q) ==
    /\ records[q] # None /\ records[q].passed /\ q \notin revoked
    /\ <<"record", q>> \notin lapsed
    /\ starts[q].binding = binding
    /\ SourceHolds(q)

(* A slip in _facts: the latest qualification that passed, not the latest one. *)
Facts_LatestPassed(suite) ==
    LET passed == {q \in OfSuite(suite) : records[q] # None /\ records[q].passed} IN
    IF passed # {} /\ Usable(NewestOf(passed)) THEN NewestOf(passed) ELSE 0

(* facts_for_profile, routing_facts_guard, commander_facts_guard: of the latest start, or none. *)
Facts(suite) ==
    IF OfSuite(suite) # {} /\ Usable(NewestOf(OfSuite(suite))) THEN NewestOf(OfSuite(suite)) ELSE 0

(***************************************************************************)
(* The facts routing relies on were earned and still hold: they come from  *)
(* the newest start of their suite, observed in full, with the very secret *)
(* that the current, unrevoked generation seals and the key file holds     *)
(* now, under today's binding and runtime.  A newer qualification that is  *)
(* running, failed, was interrupted or revoked hides them; so does a       *)
(* registration or a change made while it was observed.                    *)
(***************************************************************************)
FactsAreEarned ==
    \A suite \in Suites :
        LET q == Facts(suite) IN
        q # 0 =>
          /\ records[q].passed /\ q \notin revoked
          /\ \A p \in OfSuite(suite) : p <= q
          /\ starts[q].binding = binding /\ starts[q].runtime = runtime
          /\ suite # "fixture" =>
                /\ records[q].secret = keyFile
                /\ current = starts[q].generation /\ ~generations[current].revoked
                /\ records[q].secret = generations[current].sealed
=============================================================================
