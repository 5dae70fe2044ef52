---------------------------- MODULE MCExecution ----------------------------
(***************************************************************************)
(* The broker, the runner host and the checks of a candidate, whose tables *)
(* are disjoint: a behaviour of this model is one of either.               *)
(***************************************************************************)
EXTENDS ResourceBroker, RunnerHost, CandidateChecks

VARIABLE part

executionVars == <<brokerVars, hostVars, checkVars, part>>

(* Reviewers qualify, for other reasons later, then not; or one thing else goes wrong. *)
MCQualifications == <<1, 2, None>>
ChecksBound ==
    LET unrest == {u \in {"late", "cancel"} : around[u]} \union (IF around.approved THEN {} ELSE {"approved"}) IN
    Cardinality(unrest) <= (IF around.qualified = 1 THEN 1 ELSE 0)

MCInit == BrokerInit /\ HostInit /\ ChecksInit /\ part \in {"broker", "host", "checks"}

MCNext ==
    /\ UNCHANGED part
    /\ \/ part = "broker" /\ BrokerNext /\ UNCHANGED <<hostVars, checkVars>>
       \/ part = "host" /\ HostNext /\ UNCHANGED <<brokerVars, checkVars>>
       \/ part = "checks" /\ ChecksNext /\ ChecksBound' /\ UNCHANGED <<brokerVars, hostVars>>

MCSpec == MCInit /\ [][MCNext]_executionVars /\ BrokerFairness /\ HostFairness
=============================================================================
