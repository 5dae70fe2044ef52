-------------------------- MODULE SerialCoordinator --------------------------
(***************************************************************************)
(* SerialCoordinator in backend/karajan/orchestration/serial.py with the   *)
(* binding of binding.py: a Run of one worker task and the task that       *)
(* reviews it, driven by calls of advance.                                 *)
(*                                                                         *)
(* An operation is one transaction of the coordinator's database, but the  *)
(* RunnerHost and the CandidateStore it calls inside have databases of     *)
(* their own: when the coordinator stops before it commits, what they did  *)
(* stays.  Every action therefore ends with Commits or with StopsBefore.   *)
(* The RunnerHost is reduced to what the coordinator asks of it (module    *)
(* RunnerHost has the rest).                                               *)
(***************************************************************************)
EXTENDS CandidateGate

CONSTANTS
    MaxTotal,    \* counters.max_total_attempts
    MaxRetries,  \* counters.max_infrastructure_retries_per_root_task
    MaxInput,    \* bound on changes of the approved input
    Ids,         \* identities of attempts (uuid4)
    MaxStops     \* bound on stops of the coordinator

ASSUME IdsAssumption == IsFiniteSet(Ids) /\ Ids = 1 .. Cardinality(Ids) /\ Cardinality(Ids) >= MaxTotal

Tasks == {"worker", "reviewer"}
ExitCodes == {0, 1, 75}  \* 75: an infrastructure failure

VARIABLES
    serial,      \* the coordinator's row of the Run
    host,        \* RunnerHost: per attempt its process and its control
    approved,    \* version of the approved input of both tasks
    denied,      \* the profile is restricted, or the Run's time is over
    recipe,      \* the runner's recipe is not the one the tasks were bound to
    expired,     \* attempts whose activation's time is over
    stops        \* stops of the coordinator so far

hostVars == <<host, approved, denied, recipe, expired, stops>>
serialVars == <<serial, hostVars, gateVars>>

NoProcess ==
    [state |-> "absent", stage |-> None, code |-> 0, fence |-> 0, enabled |-> FALSE, activated |-> FALSE]

SerialInit ==
    /\ GateInit
    /\ serial = [attempts |-> << >>, tasks |-> [t \in Tasks |-> "none"], bound |-> [t \in Tasks |-> 0],
                 candidate |-> 0, check |-> 0, paused |-> FALSE, cancelled |-> FALSE, retries |-> 0]
    /\ host = [i \in Ids |-> NoProcess]
    /\ approved = 1 /\ denied = FALSE /\ recipe = FALSE /\ expired = {} /\ stops = 0

Attempts == DOMAIN serial.attempts
Of(t) == {a \in Attempts : serial.attempts[a].task = t}
Enqueued == {t \in Tasks : serial.tasks[t] # "none"}
Committed(value) == serial' = value

(* The coordinator stops before its transaction commits; other databases keep what they did. *)
StopsBefore == stops < MaxStops /\ stops' = stops + 1 /\ UNCHANGED serial
Commits(value) == Committed(value) /\ UNCHANGED stops

(* A new attempt under an identity nobody has used. *)
Unused == {i \in Ids : host[i] = NoProcess /\ \A a \in Attempts : serial.attempts[a].id # i}
Fresh == CHOOSE i \in Unused : \A j \in Unused : i <= j

Attempt(t, stage, fence) ==
    [id |-> Fresh, task |-> t, stage |-> stage, fence |-> fence, permit |-> 1, state |-> "queued"]

(* material: the input of the task as approved now, or an error. *)
StillApproved(t) == ~denied /\ approved = serial.bound[t]

-----------------------------------------------------------------------------
(* enqueue, _queue: the worker first; its review once the worker's check has evidence. *)
Enqueue(t) ==
    /\ serial.tasks[t] = "none" /\ ~serial.paused /\ ~serial.cancelled
    /\ ~denied
    /\ t = "reviewer" =>
          /\ serial.tasks["worker"] \in {"awaiting_review", "completed"} /\ serial.check # 0
    /\ Len(serial.attempts) < MaxTotal /\ Unused # {}
    /\ Commits([serial EXCEPT !.attempts = Append(@, Attempt(t, IF t = "worker" THEN "write" ELSE "review", 1)),
                              !.tasks[t] = "queued", !.bound[t] = approved])
    /\ UNCHANGED <<host, approved, denied, recipe, expired, gateVars>>

LastAttempt(t) == CHOOSE a \in Of(t) : \A b \in Of(t) : b <= a
FirstAttempt(t) == CHOOSE a \in Of(t) : \A b \in Of(t) : a <= b

(* retry: after a confirmed infrastructure failure of the writer, within the root's limit. *)
Retry(t) ==
    /\ serial.tasks[t] = "failed" /\ ~serial.paused /\ ~serial.cancelled
    /\ LET a == LastAttempt(t)
           i == serial.attempts[a].id
           fence == serial.attempts[a].fence + 1
       IN
       /\ host[i].state = "exited" /\ host[i].code = 75 /\ serial.attempts[a].stage = "write"
       /\ ~recipe /\ StillApproved(t)
       /\ serial.retries < MaxRetries /\ Len(serial.attempts) < MaxTotal
       /\ Unused # {}
       /\ host' = [host EXCEPT ![i].fence = fence, ![i].enabled = FALSE]
       /\ \/ Commits([serial EXCEPT !.attempts = Append([@ EXCEPT ![a].fence = fence], Attempt(t, "write", 1)),
                                    !.tasks[t] = "queued", !.retries = @ + 1])
          \/ StopsBefore
    /\ UNCHANGED <<approved, denied, recipe, expired, gateVars>>

(* An attempt with its fence raised. *)
Fenced(a) == [serial.attempts[a] EXCEPT !.fence = @ + 1]

(* control: pause and resume; cancel raises every fence first. *)
Control(action) ==
    /\ Enqueued # {}
    /\ CASE action = "cancel" ->
              /\ ~serial.cancelled
              /\ Commits([serial EXCEPT !.attempts = [a \in Attempts |-> Fenced(a)],
                                        !.cancelled = TRUE, !.paused = FALSE])
         [] action = "pause" ->
              /\ ~serial.cancelled /\ ~serial.paused
              /\ Commits([serial EXCEPT !.paused = TRUE])
         [] action = "resume" ->
              /\ ~serial.cancelled /\ serial.paused
              /\ Commits([serial EXCEPT !.paused = FALSE])
    /\ UNCHANGED <<host, approved, denied, recipe, expired, gateVars>>

-----------------------------------------------------------------------------
(* RunnerHost.set_control and cancel of each attempt the host knows; a living tree may not stop in time. *)
Stopped(as, survivors) ==
    [i \in Ids |->
        LET mine == {a \in as : serial.attempts[a].id = i} IN
        IF mine = {} \/ host[i].state \in {"absent", "workspace"} THEN host[i]
        ELSE [host[i] EXCEPT !.fence = serial.attempts[CHOOSE a \in mine : TRUE].fence, !.enabled = FALSE,
                !.state = IF mine \subseteq survivors \/ @ = "exited" THEN @ ELSE "stopped"]]

Running == {a \in Attempts : host[serial.attempts[a].id].state = "running"}

(* Processes of an attempt that was never committed: nobody watches or stops them. *)
Strays == {i \in Ids : host[i].state = "running" /\ \A a \in Attempts : serial.attempts[a].id # i}

(* A slip in _cancel_observe: a tree that did not stop in time is taken for stopped. *)
CancelObserve_Assumes ==
    /\ serial.cancelled
    /\ \E survivors \in SUBSET Running :
          /\ host' = Stopped({a \in Attempts : serial.attempts[a].state # "cancelled"}, survivors)
          /\ Commits([serial EXCEPT
                !.attempts = [a \in Attempts |-> [@[a] EXCEPT !.state = "cancelled"]],
                !.tasks = [t \in Tasks |-> IF Of(t) # {} THEN "cancelled" ELSE @[t]]])
    /\ UNCHANGED <<approved, denied, recipe, expired, gateVars>>

(* _cancel_observe: every attempt is stopped and confirmed, or stays unknown. *)
CancelObserve ==
    /\ serial.cancelled
    /\ \E survivors \in SUBSET Running :
          /\ host' = Stopped({a \in Attempts : serial.attempts[a].state # "cancelled"}, survivors)
          /\ \/ Commits([serial EXCEPT
                   !.attempts = [a \in Attempts |->
                       [@[a] EXCEPT !.state = IF a \in survivors THEN "unknown" ELSE "cancelled"]],
                   !.tasks = [t \in Tasks |-> IF Of(t) # {} THEN "cancelled" ELSE serial.tasks[t]]])
             \/ StopsBefore
    /\ UNCHANGED <<approved, denied, recipe, expired, gateVars>>

Invalidating == {t \in Tasks : serial.tasks[t] = "invalidating"}

(* _observe_invalidations: the attempts of the tasks are stopped, the tasks left when all are. *)
ObserveInvalidations ==
    LET as == UNION {Of(t) : t \in Invalidating} IN
    /\ ~serial.cancelled /\ Invalidating # {}
    /\ \E survivors \in SUBSET (Running \intersect as) :
          /\ host' = Stopped(as, survivors)
          /\ \/ Commits([serial EXCEPT
                   !.attempts = [a \in Attempts |->
                       IF a \in as THEN [@[a] EXCEPT !.state = IF a \in survivors THEN "unknown" ELSE "invalidated"]
                       ELSE @[a]],
                   !.tasks = [t \in Tasks |-> IF t \in Invalidating /\ Of(t) \intersect survivors = {}
                                               THEN "invalidated" ELSE serial.tasks[t]]])
             \/ StopsBefore
    /\ UNCHANGED <<approved, denied, recipe, expired, gateVars>>

(* The tasks are to be invalidated: the fence of each of their attempts is raised. *)
WithInvalidating(ts) ==
    [serial EXCEPT !.attempts = [a \in Attempts |-> IF @[a].task \in ts THEN Fenced(a) ELSE @[a]],
                   !.tasks = [t \in Tasks |-> IF t \in ts THEN "invalidating" ELSE serial.tasks[t]]]

Valid == {t \in Enqueued : serial.tasks[t] # "invalidated"}
Drivable == Enqueued # {} /\ ~serial.cancelled /\ Invalidating = {}

(* advance: another recipe, or tasks whose approved input is no longer theirs. *)
Invalidate ==
    /\ Drivable
    /\ recipe => \E a \in Attempts : host[serial.attempts[a].id].state \notin {"absent", "workspace"}
    /\ LET ts == {t \in Valid : recipe \/ ~StillApproved(t)} IN
       ts # {} /\ Commits(WithInvalidating(ts))
    /\ UNCHANGED <<host, approved, denied, recipe, expired, gateVars>>

(* advance: a completed worker whose gate no longer passes. *)
Recheck ==
    /\ Drivable /\ ~recipe /\ (\A t \in Valid : StillApproved(t))
    /\ serial.tasks["worker"] = "completed" /\ ~Gate(serial.candidate, serial.bound["worker"])
    /\ Commits([serial EXCEPT !.tasks["worker"] = "blocked"])
    /\ UNCHANGED <<host, approved, denied, recipe, expired, gateVars>>

(* The part of advance that launches and observes. *)
Moving ==
    /\ Drivable /\ ~recipe /\ (\A t \in Valid : StillApproved(t)) /\ ~serial.paused
    /\ serial.tasks["worker"] = "completed" => Gate(serial.candidate, serial.bound["worker"])

(* _queue_check: a copy of the task's first attempt, with its fence as it is now. *)
WithCheck ==
    IF serial.tasks["worker"] # "candidate_ready" \/ Len(serial.attempts) >= MaxTotal \/ Unused = {} THEN serial
    ELSE [serial EXCEPT !.tasks["worker"] = "checking",
            !.attempts = Append(@, Attempt("worker", "check", @[FirstAttempt("worker")].fence))]

Current(value) ==
    LET live == {a \in DOMAIN value.attempts : value.attempts[a].state \in {"queued", "running", "unknown"}}
    IN  IF live = {} THEN 0 ELSE CHOOSE a \in live : \A b \in live : a <= b

(* The host accepts a start once, under the fence of the manifest and a current permit. *)
MayStart(attempt) ==
    LET process == host[attempt.id] IN
    \/ process.activated
    \/ /\ process.state \in {"absent", "prepared"} /\ attempt.id \notin expired
       /\ attempt.fence = attempt.permit /\ process.fence <= attempt.fence

Started(attempt) ==
    [host EXCEPT ![attempt.id].stage = attempt.stage, ![attempt.id].fence = attempt.fence, ![attempt.id].enabled = TRUE,
                 ![attempt.id].activated = TRUE,
                 ![attempt.id].state = IF host[attempt.id].activated THEN @ ELSE "running"]

(* _launch_locked when the host refuses: prepared if it was not, and its control set. *)
Refused(attempt) ==
    IF host[attempt.id].state = "absent" /\ attempt.id \in expired THEN host
    ELSE [host EXCEPT ![attempt.id].state = IF @ = "absent" THEN "prepared" ELSE @,
                      ![attempt.id].fence = IF @ > attempt.fence THEN @ ELSE attempt.fence]

(* materialize: a check or a review gets the content of the candidate, or the call fails. *)
Materializes(attempt) ==
    host[attempt.id].state = "absent" /\ attempt.id \notin expired /\ attempt.stage # "write" =>
        Available(candidates[serial.candidate].content)

(* _launch, _launch_locked: materialize, prepare and start, in the transaction that queued a check. *)
Launch ==
    LET value == WithCheck
        a == Current(value)
        attempt == value.attempts[a]
        goes(state) == [value EXCEPT !.attempts[a].state = state]
    IN
    /\ Moving /\ a # 0 /\ attempt.state = "queued"
    /\ host[attempt.id].state # "workspace" /\ Materializes(attempt)
    /\ \/ /\ MayStart(attempt)
          /\ host' = Started(attempt)
          /\ \/ Commits(goes(IF host'[attempt.id].state = "running" THEN "running" ELSE "unknown"))
             \/ StopsBefore
       \/ /\ ~MayStart(attempt)
          /\ host' = Refused(attempt)
          /\ Commits(goes("blocked"))
       \/ /\ host[attempt.id].state = "absent" /\ attempt.id \notin expired
          /\ \E s \in {"workspace", "prepared"} : host' = [host EXCEPT ![attempt.id].state = s]
          /\ StopsBefore
    /\ UNCHANGED <<approved, denied, recipe, expired, gateVars>>

(* _observe of a process that has not exited. *)
ObserveLiving ==
    LET value == WithCheck
        a == Current(value)
        process == host[value.attempts[a].id]
    IN
    /\ Moving /\ a # 0 /\ value.attempts[a].state \in {"running", "unknown"}
    /\ process.state # "exited"
    /\ Commits([value EXCEPT !.attempts[a].state = IF process.state = "running" THEN "running" ELSE "unknown"])
    /\ UNCHANGED <<host, approved, denied, recipe, expired, gateVars>>

Ended(stage) ==
    LET a == Current(WithCheck) IN
    /\ Moving /\ a # 0 /\ a \in Attempts
    /\ serial.attempts[a].state \in {"running", "unknown"}
    /\ host[serial.attempts[a].id].state = "exited" /\ serial.attempts[a].stage = stage

(* The exit code of the attempt advance is at. *)
Succeeded == host[serial.attempts[Current(WithCheck)].id].code = 0

(* _observe of a writer: its candidate is frozen if it succeeded. *)
ObserveWriter ==
    LET a == Current(WithCheck)
        i == serial.attempts[a].id
    IN
    /\ Ended("write")
    /\ \/ /\ ~Succeeded
          /\ Commits([serial EXCEPT !.attempts[a].state = "failed", !.tasks["worker"] = "failed"])
          /\ UNCHANGED gateVars
       \/ /\ Succeeded
          /\ Freeze(<<"work", i>>, serial.bound["worker"], i, Reviewers)
          /\ \/ Commits([serial EXCEPT !.attempts[a].state = "completed",
                                       !.tasks["worker"] = "candidate_ready", !.candidate = Len(candidates')])
             \/ StopsBefore
    /\ UNCHANGED <<host, approved, denied, recipe, expired>>

(* read_log: what the process wrote, if its log is still there. *)
LogsOf(i) == {<<"log", i>>, None}

(* _save_evidence gives back the record of the key, unless that one has another log. *)
SavedAt(found, key) == CHOOSE e \in DOMAIN found : found[e].key = key
Saved(found, key) == found[SavedAt(found, key)]

(* _record_validation of a check. *)
ObserveCheck ==
    LET a == Current(WithCheck)
        i == serial.attempts[a].id
    IN
    /\ Ended("check")
    /\ \E log \in LogsOf(i) :
          /\ RecordCheck(serial.candidate, CHOOSE k \in CheckIds : TRUE, Succeeded, i, log)
          /\ Saved(evidence', i).log = log
    /\ \/ Commits([serial EXCEPT !.attempts[a].state = "completed", !.check = SavedAt(evidence', i),
             !.tasks["worker"] = IF Saved(evidence', i).status = "passed" THEN "awaiting_review" ELSE "blocked"])
       \/ StopsBefore
    /\ UNCHANGED <<host, approved, denied, recipe, expired>>

(* _record_validation of a review: the review is saved, then the gate is asked. *)
ObserveReview ==
    LET a == Current(WithCheck)
        i == serial.attempts[a].id
        verdict(log) == IF ~Succeeded THEN "failed" ELSE IF log = None THEN "inconclusive" ELSE "passed"
    IN
    /\ Ended("review")
    /\ \E log \in LogsOf(i) :
          /\ SavesEvidence(ReviewRecord(serial.candidate, CHOOSE r \in Reviewers : TRUE, {serial.check},
                                        verdict(log), i, log))
          /\ Saved(evidence', i).log = log
    /\ \/ Commits([serial EXCEPT !.attempts[a].state = "completed",
             !.tasks = [t \in Tasks |->
                 IF t = "reviewer" THEN (IF Saved(evidence', i).status = "passed" THEN "completed" ELSE "blocked")
                 ELSE IF GateOf(evidence', Gone', serial.candidate, serial.bound["worker"]) THEN "completed"
                 ELSE serial.tasks[t]]])
       \/ StopsBefore
    /\ UNCHANGED <<host, approved, denied, recipe, expired, reviewing>>

-----------------------------------------------------------------------------
(* The world: processes exit, plans and resources change, permits expire. *)
ProcessExits(i, code) ==
    /\ host[i].state = "running"
    /\ host' = [host EXCEPT ![i].state = "exited", ![i].code = code]
    /\ UNCHANGED <<serial, approved, denied, recipe, expired, stops, gateVars>>

InputChanges ==
    /\ approved < MaxInput /\ approved' = approved + 1
    /\ UNCHANGED <<serial, host, denied, recipe, expired, stops, gateVars>>

BecomesDenied ==
    /\ ~denied /\ denied' = TRUE
    /\ UNCHANGED <<serial, host, approved, recipe, expired, stops, gateVars>>

RecipeChanges ==
    /\ ~recipe /\ recipe' = TRUE
    /\ UNCHANGED <<serial, host, approved, denied, expired, stops, gateVars>>

PermitExpires(i) ==
    /\ i \in {serial.attempts[a].id : a \in Attempts} \ expired
    /\ expired' = expired \union {i}
    /\ UNCHANGED <<serial, host, approved, denied, recipe, stops, gateVars>>

(* Another caller of the store records a result; an object is lost, altered or written back. *)
StoreChanges ==
    /\ \/ \E k \in CheckIds, p \in BOOLEAN :
             serial.candidate # 0 /\ RecordCheck(serial.candidate, k, p, 0, <<"log", 0>>)
       \/ \E x \in Objects : LoseArtifact(x) \/ AlterArtifact(x) \/ (x \in lost /\ WriteObject(x))
    /\ UNCHANGED <<serial, hostVars>>

SerialNext ==
    \/ \E t \in Tasks : Enqueue(t) \/ Retry(t)
    \/ \E action \in {"pause", "resume", "cancel"} : Control(action)
    \/ CancelObserve \/ ObserveInvalidations \/ Invalidate \/ Recheck
    \/ Launch \/ ObserveLiving \/ ObserveWriter \/ ObserveCheck \/ ObserveReview
    \/ \E i \in Ids : PermitExpires(i) \/ \E code \in ExitCodes : ProcessExits(i, code)
    \/ InputChanges \/ BecomesDenied \/ RecipeChanges \/ StoreChanges

SerialSpec == SerialInit /\ [][SerialNext]_serialVars

-----------------------------------------------------------------------------
(***************************************************************************)
(* Of the attempts the coordinator committed at most one runs, and that    *)
(* one is still watched, or about to be stopped.  A check is started in    *)
(* the transaction that queues it, so a coordinator that stops before the  *)
(* commit leaves a process nobody knows of, beside which the next check    *)
(* starts: these strays are checks, at most one for each stop, and a       *)
(* writer never runs beside any other process.  And a worker is completed  *)
(* by an open gate only: in the step that completes it the gate of its     *)
(* candidate passes for the input it was bound to, and nothing of a        *)
(* cancelled Run completes.  Behaviour: advance of the serial coordinator, *)
(* its cancellation and retry.                                             *)
(***************************************************************************)
SerialRunsAreSound ==
    /\ [](/\ Cardinality(Running) <= 1
          /\ \A a \in Running : serial.attempts[a].state \in {"queued", "running", "unknown"}
          /\ Cardinality(Strays) <= stops
          /\ \A i \in Strays : host[i].stage = "check"
          /\ \A i, j \in Ids :
                host[i].state = "running" /\ host[j].state = "running" /\ host[i].stage = "write" => i = j)
    /\ [][serial.tasks["worker"] # "completed" /\ serial'.tasks["worker"] = "completed" =>
             /\ GateOf(evidence', Gone', serial.candidate, serial.bound["worker"])
             /\ ~serial.cancelled]_serialVars

(***************************************************************************)
(* An attempt is committed before its start intent is consumed, and a      *)
(* recovery continues under the same identity (the docs of the serial      *)
(* coordinator): every process the host was asked to start belongs to an   *)
(* attempt the coordinator knows.                                          *)
(***************************************************************************)
EveryProcessIsKnown ==
    \A i \in Ids : host[i].activated => \E a \in Attempts : serial.attempts[a].id = i

(***************************************************************************)
(* What was invalidated is not accepted later: once the approved input of  *)
(* a task changed and its attempts were stopped, the task never completes. *)
(***************************************************************************)
InvalidatedNeverCompletes ==
    [][\A t \in Tasks : serial.tasks[t] = "invalidated" => serial'.tasks[t] # "completed"]_serialVars
=============================================================================
