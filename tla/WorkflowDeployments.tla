------------------------- MODULE WorkflowDeployments -------------------------
(***************************************************************************)
(* Deploying revisions of the bundle into one slot, and starting Runs from *)
(* it: WorkflowDeployments in backend/karajan/workflows/deployments.py,    *)
(* the loader in loader.py, and create_run in scheduling/store.py.         *)
(*                                                                         *)
(* A command freezes a verified revision into a persisted intent, copies   *)
(* it into a package of its own, loads the package, and moves the slot by  *)
(* compare-and-set.  Each is a transaction or a file operation of its own; *)
(* the same command may run twice at once, stop anywhere, be resumed by    *)
(* its key, or fail and say so.  A deployment is named by its command key: *)
(* one intent is persisted per key.                                        *)
(***************************************************************************)
EXTENDS WorkflowBundles

CONSTANTS
    DeployKeys,  \* keys of deploy and rollback commands
    Workers,     \* concurrent executions of such commands
    RunKeys,     \* keys of create_run commands
    Starters,    \* concurrent calls of create_run
    MaxFailures  \* bound on failures recorded per command

VARIABLES
    intents,     \* workflow_deployment_intents, by key
    packages,    \* package directories, by key: document, Altered or None
    deployed,    \* workflow_deployments, by key, with the slot revision it made
    slot,        \* workflow_deployment_slots: revision and active deployment
    deployLedger,\* commands: keys of completed deployments
    worker,      \* per execution: where it stands and the intent it holds
    starter,     \* per create_run: where it stands and what it acquired
    runs         \* workflow_runs, by key

deployVars == <<intents, packages, deployed, slot, deployLedger, worker, starter, runs>>
workflowVars == <<bundleVars, deployVars>>

Idle == [pc |-> "idle", key |-> None, intent |-> None]
NoStart == [pc |-> "idle", key |-> None, dep |-> None, revision |-> 0, doc |-> None]

DeployInit ==
    /\ intents = << >>
    /\ packages = [k \in DeployKeys |-> None]
    /\ deployed = << >>
    /\ slot = [revision |-> 0, dep |-> None]
    /\ deployLedger = {}
    /\ worker = [w \in Workers |-> Idle]
    /\ starter = [s \in Starters |-> NoStart]
    /\ runs = << >>

Goes(w, pc) == worker' = [worker EXCEPT ![w].pc = pc]
Ends(w) == worker' = [worker EXCEPT ![w] = Idle]

(* _intent_record of a frozen revision. *)
Intent(r, expected) ==
    [rev |-> r, frozen |-> revisions[r].doc, expected |-> expected, steps |-> {},
     outcome |-> "unresolved", failure |-> FALSE, history |-> 0]

(* _command: deploy of the head revision, or rollback to one deployed before; frozen by _freeze. *)
BeginDeploy(w, k, r, expected) ==
    /\ worker[w].pc = "idle"
    /\ k \notin deployLedger /\ k \notin DOMAIN intents
    /\ r = HeadRevision \/ \E d \in DOMAIN deployed : deployed[d].rev = r
    /\ Verified(r)
    /\ worker' = [worker EXCEPT ![w] = [pc |-> "persist", key |-> k,
                                        intent |-> Intent(r, expected)]]
    /\ UNCHANGED <<intents, packages, deployed, slot, deployLedger, starter, runs>>

(* _command, second transaction: a concurrent intent of this very command is taken over. *)
PersistIntent(w) ==
    LET k == worker[w].key
        mine == worker[w].intent
    IN
    /\ worker[w].pc = "persist"
    /\ IF k \in deployLedger THEN Ends(w) /\ UNCHANGED intents
       ELSE IF k \notin DOMAIN intents
         THEN intents' = WithRow(intents, k, mine) /\ Goes(w, "materialize")
       ELSE /\ UNCHANGED intents
            /\ IF intents[k].rev = mine.rev /\ intents[k].expected = mine.expected
                 THEN worker' = [worker EXCEPT ![w].pc = "materialize", ![w].intent = intents[k]]
                 ELSE Ends(w)
    /\ UNCHANGED <<packages, deployed, slot, deployLedger, starter, runs>>

(* _command of an unfinished key: the persisted intent is resumed. *)
ResumeDeploy(w, k) ==
    /\ worker[w].pc = "idle"
    /\ k \in DOMAIN intents /\ k \notin deployLedger
    /\ worker' = [worker EXCEPT ![w] = [pc |-> "materialize", key |-> k, intent |-> intents[k]]]
    /\ UNCHANGED <<intents, packages, deployed, slot, deployLedger, starter, runs>>

(* _read_source, _adopt, _write_tree: the source and any copy found are the frozen files. *)
MaterializePackage(w) ==
    LET k == worker[w].key  frozen == worker[w].intent.frozen IN
    /\ worker[w].pc = "materialize"
    /\ disk[worker[w].intent.rev] = frozen
    /\ packages[k] \in {None, frozen}
    /\ packages' = [packages EXCEPT ![k] = frozen]
    /\ Goes(w, "materialized")
    /\ UNCHANGED <<intents, deployed, slot, deployLedger, starter, runs>>

(* _record_step: merged into the intent as it is now. *)
RecordStep(w) ==
    LET k == worker[w].key
        step == IF worker[w].pc = "materialized" THEN "materialize" ELSE "load"
    IN
    /\ worker[w].pc \in {"materialized", "loaded"}
    /\ intents' = [intents EXCEPT ![k].steps = @ \union {step}]
    /\ Goes(w, IF step = "materialize" THEN "load" ELSE "activate")
    /\ UNCHANGED <<packages, deployed, slot, deployLedger, starter, runs>>

(* loader.load: the package is the frozen one and every kind has an adapter. *)
Loadable(k, frozen) == packages[k] = frozen /\ UnavailableKinds(frozen) = {}

LoadPackage(w) ==
    /\ worker[w].pc = "load"
    /\ Loadable(worker[w].key, worker[w].intent.frozen)
    /\ Goes(w, "loaded")
    /\ UNCHANGED <<intents, packages, deployed, slot, deployLedger, starter, runs>>

(* _complete_intent: earlier failures are archived. *)
Completed(intent) ==
    [intent EXCEPT !.outcome = "activated", !.failure = FALSE,
                   !.history = @ + (IF intent.failure THEN 1 ELSE 0)]

(* A slip in _activate: the slot is not compared. *)
ActivateDeployment_Blind(w) ==
    LET k == worker[w].key  intent == worker[w].intent IN
    /\ worker[w].pc = "activate" /\ k \notin deployLedger
    /\ deployed' = WithRow(deployed, k, [rev |-> intent.rev, doc |-> intent.frozen,
                                        steps |-> intents[k].steps,
                                        made |-> intent.expected + 1])
    /\ slot' = [revision |-> intent.expected + 1, dep |-> k]
    /\ deployLedger' = deployLedger \union {k}
    /\ intents' = [intents EXCEPT ![k] = Completed(@)]
    /\ Ends(w)
    /\ UNCHANGED <<packages, starter, runs>>

(* _activate: deployment, slot, ledger and intent in one transaction. *)
ActivateDeployment(w) ==
    LET k == worker[w].key  intent == worker[w].intent IN
    /\ worker[w].pc = "activate"
    /\ IF k \in deployLedger
         THEN UNCHANGED <<deployed, slot, deployLedger, intents>>
         ELSE /\ slot.revision = intent.expected
              /\ deployed' = WithRow(deployed, k, [rev |-> intent.rev, doc |-> intent.frozen,
                                                  steps |-> intents[k].steps,
                                                  made |-> intent.expected + 1])
              /\ slot' = [revision |-> intent.expected + 1, dep |-> k]
              /\ deployLedger' = deployLedger \union {k}
              /\ intents' = [intents EXCEPT ![k] = Completed(@)]
    /\ Ends(w)
    /\ UNCHANGED <<packages, starter, runs>>

Failures(intent) == intent.history + (IF intent.failure THEN 1 ELSE 0)

(***************************************************************************)
(* _record_failure: any step may fail (changed files, an interrupted copy  *)
(* with other bytes, a missing adapter, a moved slot, the file system).    *)
(* The ledger is consulted in the transaction that writes the failure.     *)
(***************************************************************************)
RecordFailure(w) ==
    LET k == worker[w].key IN
    /\ worker[w].pc \in {"materialize", "materialized", "load", "loaded", "activate"}
    /\ IF k \in deployLedger THEN UNCHANGED intents
       ELSE /\ Failures(intents[k]) < MaxFailures
            /\ intents' = [intents EXCEPT ![k].outcome = "failed", ![k].failure = TRUE,
                             ![k].history = Failures(intents[k])]
    /\ Ends(w)
    /\ UNCHANGED <<packages, deployed, slot, deployLedger, starter, runs>>

WorkerStops(w) ==
    /\ worker[w].pc # "idle"
    /\ Ends(w)
    /\ UNCHANGED <<intents, packages, deployed, slot, deployLedger, starter, runs>>

-----------------------------------------------------------------------------
(* accept: the active package is read again and verified against its own record. *)
Acceptable == slot.dep # None /\ Loadable(slot.dep, deployed[slot.dep].doc)

(* create_run: the key is looked up, the active definition acquired ... *)
AcquireSource(s, k) ==
    /\ starter[s].pc = "idle" /\ k \notin DOMAIN runs
    /\ Acceptable
    /\ starter' = [starter EXCEPT ![s] = [pc |-> "insert", key |-> k, dep |-> slot.dep,
                                          revision |-> slot.revision, doc |-> packages[slot.dep]]]
    /\ UNCHANGED <<intents, packages, deployed, slot, deployLedger, worker, runs>>

(* _recheck_source: the slot still names what was acquired. *)
SourceCurrent(acquired) == slot.dep = acquired.dep /\ slot.revision = acquired.revision

(* ... and the Run inserted in a transaction that looks up key and slot again. *)
InsertRun(s) ==
    LET acquired == starter[s] IN
    /\ acquired.pc = "insert"
    /\ runs' = IF acquired.key \notin DOMAIN runs /\ SourceCurrent(acquired)
                 THEN WithRow(runs, acquired.key,
                             [dep |-> acquired.dep, revision |-> acquired.revision,
                              doc |-> acquired.doc])
                 ELSE runs
    /\ starter' = [starter EXCEPT ![s] = NoStart]
    /\ UNCHANGED <<intents, packages, deployed, slot, deployLedger, worker>>

AlterPackage(k) ==
    /\ packages[k] \notin {None, Altered}
    /\ packages' = [packages EXCEPT ![k] = Altered]
    /\ UNCHANGED <<intents, deployed, slot, deployLedger, worker, starter, runs>>

DeployNext ==
    \/ \E w \in Workers, k \in DeployKeys, r \in 1 .. MaxHead, e \in 0 .. Cardinality(DeployKeys) - 1 :
          BeginDeploy(w, k, r, e)
    \/ \E w \in Workers, k \in DeployKeys : ResumeDeploy(w, k)
    \/ \E w \in Workers :
          \/ PersistIntent(w) \/ MaterializePackage(w) \/ RecordStep(w) \/ LoadPackage(w)
          \/ ActivateDeployment(w) \/ RecordFailure(w) \/ WorkerStops(w)
    \/ \E s \in Starters, k \in RunKeys : AcquireSource(s, k)
    \/ \E s \in Starters : InsertRun(s)
    \/ \E k \in DeployKeys : AlterPackage(k)

WorkflowInit == BundlesInit /\ DeployInit

WorkflowNext ==
    \/ BundlesNext /\ UNCHANGED deployVars
    \/ DeployNext /\ UNCHANGED bundleVars

WorkflowSpec == WorkflowInit /\ [][WorkflowNext]_workflowVars

-----------------------------------------------------------------------------
(***************************************************************************)
(* What is active was published and loaded: every deployment holds the     *)
(* document of its revision, all of whose kinds this build can execute,    *)
(* recorded both steps, and no two deployments made the same slot          *)
(* revision, however executions of one command overlap, stop and resume.   *)
(***************************************************************************)
ActiveIsLoaded ==
    /\ \A k \in DOMAIN deployed :
          /\ deployed[k].doc = revisions[deployed[k].rev].doc
          /\ UnavailableKinds(deployed[k].doc) = {}
          /\ deployed[k].steps = {"materialize", "load"}
    /\ slot.revision = Cardinality(DOMAIN deployed)
    /\ \A j, k \in DOMAIN deployed : deployed[j].made = deployed[k].made => j = k

(***************************************************************************)
(* A command that activated is never reported as failed, and one that did  *)
(* not is never reported as activated, although failures are recorded by   *)
(* other executions of the same command after it completed.                *)
(***************************************************************************)
OutcomesAgree ==
    \A k \in DOMAIN intents :
        /\ (intents[k].outcome = "activated") = (k \in deployLedger)
        /\ (k \in deployLedger) = (k \in DOMAIN deployed)

(***************************************************************************)
(* A Run keeps the definition it was confirmed with: the deployment it     *)
(* names made the slot revision it names, and its document is that         *)
(* deployment's, though the source was acquired before the insertion.      *)
(***************************************************************************)
RunsKeepTheirSource ==
    \A k \in DOMAIN runs :
        /\ runs[k].dep \in DOMAIN deployed
        /\ deployed[runs[k].dep].made = runs[k].revision
        /\ deployed[runs[k].dep].doc = runs[k].doc

(***************************************************************************)
(* A Run is inserted only from the deployment that is active at that       *)
(* moment, with the revision the slot then has: one replaced while its     *)
(* package was verified authorises no Run, though it was active when the   *)
(* call acquired it.                                                       *)
(***************************************************************************)
RunsStartFromActive ==
    \A k \in DOMAIN runs' \ DOMAIN runs :
        runs'[k].dep = slot'.dep /\ runs'[k].revision = slot'.revision

(***************************************************************************)
(* Deployments, the answers to their commands and the Runs made from them  *)
(* agree, and each Run came from the deployment active at its insertion    *)
(* (DeploymentStore, create_run).                                          *)
(***************************************************************************)
DeploymentsAreSound ==
    /\ [](ActiveIsLoaded /\ OutcomesAgree /\ RunsKeepTheirSource)
    /\ [][RunsStartFromActive]_workflowVars
=============================================================================
