--------------------------- MODULE MCOrchestration ---------------------------
(***************************************************************************)
(* The stores behind a Run, whose tables are disjoint: the project's       *)
(* registry and its qualifications, Run planning, planning executions, the *)
(* relay of their calls, the candidates' gate and the serial coordinator   *)
(* on top of it.  A behaviour of this model is one of a part.              *)
(***************************************************************************)
EXTENDS RunPlanning, SerialCoordinator, PlanningExecutions, ProjectRegistry,
        ProjectQualification, GoRelay

VARIABLE part

orchestrationVars ==
    <<planVars, serialVars, execVars, registryVars, qualVars, relayVars, part>>

(* A chain of three tasks, and revisions of the first two: the third is two dependencies away. *)
Task(revision, deps) == [revision |-> revision, deps |-> deps]
Plan(auth, a, b) == [auth |-> auth, tasks |-> [a |-> a, b |-> b, c |-> Task(1, {"b"})]]

MCPlans ==
    {Plan({"read"}, Task(1, {}), Task(1, {"a"})),
     Plan({"read"}, Task(2, {}), Task(1, {"a"})),
     Plan({"read"}, Task(1, {}), Task(2, {})),
     Plan({"read"}, Task(3, {"b"}), Task(1, {"a"})),
     Plan({}, Task(1, {}), Task(1, {"a"}))}

(* The project changes, and callers race, while the Run is created; then its lists grow to five. *)
PlanningBound ==
    /\ run # None => projectRevision = run.config
    /\ run # None /\ run.intents # << >> =>
          /\ projectRevision = 1 /\ \A c \in Creators : creator[c].pc = "done"
          /\ Len(run.intents) + Len(run.plans) + Len(run.handoffs) + Len(run.approvals) <= 5
          /\ Len(run.handoffs) = 2 => run.plans = << >>

MCIntentOf == [x \in Executions |-> x]

(***************************************************************************)
(* The store of candidates with callers of its own.  A check is recorded   *)
(* under a new key or one already used, with the log of that key or none;  *)
(* one object at a time is missing or altered.                             *)
(***************************************************************************)
GateNext ==
    /\ \/ Freeze(<<"content", Newest + 1>>, Newest + 1, 0, Reviewers)
       \/ Newest # 0 /\ LET c == candidates[Newest] IN Freeze(c.content, c.input, c.writer, c.reviewers)
       \/ \E c \in 1 .. MaxCandidates : RebindReviewers(c, {}, 1)
       \/ \E c \in DOMAIN candidates, check \in CheckIds, key \in 1 .. Len(evidence) + 1 :
             \E log \in {<<"log", key>>, None} : RecordCheck(c, check, TRUE, key, log)
       \/ \E c \in DOMAIN candidates, shown \in {{e} : e \in DOMAIN evidence}, r \in Reviewers,
             key \in {0, Len(evidence) + 1} : ReadForReview(c, r, shown, "passed", key, <<"log", 0>>)
       \/ SaveReview
       \/ \E x \in Objects : LoseArtifact(x) \/ AlterArtifact(x) \/ (x \in lost /\ WriteObject(x))
    /\ Cardinality(lost' \union altered') <= 1

(* What disturbs a serial Run; a behaviour meets two of these. *)
Disturbances ==
    stops + (approved - 1) + Cardinality(expired) + Cardinality(lost \union altered)
    + Cardinality({e \in DOMAIN evidence : evidence[e].key = 0})
    + (IF denied \/ recipe THEN 1 ELSE 0) + (IF serial.paused THEN 1 ELSE 0)

(* Rulebooks of one revision with two texts, and a second one that does not compile. *)
Rulebook(revision, text, compiles) == [revision |-> revision, text |-> text, compiles |-> compiles]
MCRulebooks == {Rulebook(1, "a", TRUE), Rulebook(1, "b", TRUE), Rulebook(2, "b", FALSE)}

Policy(revision, text) == [revision |-> revision, component |-> "seats", text |-> text]
MCPolicies == {Policy(1, "x"), Policy(2, "x"), Policy(2, "y")}

(* One preview expires or the compiler changes once; policies follow the last configuration. *)
RegistryBound ==
    /\ Cardinality(gone) + compilerId <= 2
    /\ policies # << >> => project.revision = MaxProjectRevision /\ gone = {} /\ author = [a \in Authors |-> None]

(***************************************************************************)
(* The suites of runtime tools mix, the others keep to themselves; a       *)
(* behaviour meets two of: a change, a lapse, a revocation, an interrupted *)
(* registration.                                                           *)
(***************************************************************************)
QualificationBound ==
    /\ \A p, q \in DOMAIN starts :
          {starts[p].suite, starts[q].suite} \subseteq {"worker", "reviewer"} \/ starts[p].suite = starts[q].suite
    /\ changes + Cardinality(lapsed) + Cardinality(revoked) + orphans
       + Cardinality({g \in DOMAIN generations : generations[g].revoked}) <= 2

(* Calls differ in nothing but their names: the first one at rest starts. *)
FirstAtRest ==
    \A c \in Qualifiers :
        qualifier[c].pc = "rest" /\ qualifier'[c].pc # "rest" =>
            \A d \in Qualifiers : d < c => qualifier[d].pc # "rest"

(***************************************************************************)
(* Requests, which differ in nothing else, arrive in the order of their    *)
(* names, two at a time, the last one alone; either the clock passes the   *)
(* expiry or authority is withdrawn.                                       *)
(***************************************************************************)
RelayBound ==
    /\ authority \/ (clock = 0 /\ ~grant.expired)
    /\ \A r \in Requests : r > 1 /\ handler[r].pc # "read" => handler[r - 1].pc # "read"
    /\ \A r \in Requests : r > 2 /\ handler[r].pc # "read" => handler[r - 2].pc = "done"
    /\ handler[Cardinality(Requests)].pc # "read" =>
          \A r \in Requests : r < Cardinality(Requests) => handler[r].pc = "done"

MCInit ==
    /\ PlanningInit /\ SerialInit /\ ExecutionsInit /\ RegistryInit /\ QualificationInit /\ RelayInit
    /\ part \in {"planning", "executions", "candidates", "serial", "registry", "qualification", "relay"}
    /\ part # "relay" => contexted

MCNext ==
    /\ UNCHANGED part
    /\ \/ /\ part = "planning" /\ PlanningNext /\ PlanningBound'
          /\ UNCHANGED <<serialVars, execVars, registryVars, qualVars, relayVars>>
       \/ /\ part = "executions" /\ ExecutionsNext
          /\ UNCHANGED <<planVars, serialVars, registryVars, qualVars, relayVars>>
       \/ /\ part = "candidates" /\ GateNext
          /\ UNCHANGED <<planVars, execVars, serial, hostVars, registryVars, qualVars, relayVars>>
       \/ /\ part = "serial" /\ SerialNext /\ Disturbances' <= 2
          /\ UNCHANGED <<planVars, execVars, registryVars, qualVars, relayVars>>
       \/ /\ part = "registry" /\ RegistryNext /\ RegistryBound'
          /\ UNCHANGED <<planVars, execVars, serialVars, qualVars, relayVars>>
       \/ /\ part = "qualification" /\ QualificationNext /\ QualificationBound' /\ FirstAtRest
          /\ UNCHANGED <<planVars, execVars, serialVars, registryVars, relayVars>>
       \/ /\ part = "relay" /\ RelayNext /\ RelayBound'
          /\ UNCHANGED <<planVars, execVars, serialVars, registryVars, qualVars>>

MCSpec == MCInit /\ [][MCNext]_orchestrationVars
==============================================================================
