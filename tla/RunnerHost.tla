----------------------------- MODULE RunnerHost -----------------------------
(***************************************************************************)
(* One local process per prepared attempt: RunnerHost in                   *)
(* backend/karajan/execution/host.py and its supervisor in _supervisor.py. *)
(*                                                                         *)
(* start accepts an activation, marks it starting and spawns a supervisor, *)
(* in separate transactions; the supervisor registers itself, launches the *)
(* runner and watches it.  Controls, cancellations, results, the expiry of *)
(* the activation and stops of either process fall between any two steps.  *)
(* The fence and authorization of an attempt are compared together by the  *)
(* code and are one number here; the manifest of every attempt carries 1.  *)
(***************************************************************************)
EXTENDS Common, Integers

CONSTANTS
    Execs,       \* attempts, each with its own start key
    MaxFence,    \* bound on control fences
    MaxUsage     \* bound on usage events of an attempt

VARIABLES
    exec,        \* executions, None before prepare
    ctl,         \* controls, None before the first one
    starter,     \* the one caller inside start that is not a replay
    sup,         \* the supervisor process
    runner,      \* the runner process: how many were launched, whether it lives
    expired      \* attempts whose activation has expired

hostVars == <<exec, ctl, starter, sup, runner, expired>>

(* A row of executions: lifecycle and process state, outcome, and the usage settled so far. *)
Execution ==
    [state : {"prepared", "accepted", "starting", "running", "finished", "cancelled_unstarted"},
     phase : {"prepared", "accepted", "activated", "acknowledged", "denied"},
     cancelled : BOOLEAN, business : {"pending", "cancelled", "done"},
     ready : BOOLEAN, registered : BOOLEAN, sequence : Nat, settled : BOOLEAN]

(* An absent row is none. *)
ASSUME HostAssumption == None \notin Execution

HostTypeOK ==
    /\ exec \in [Execs -> Execution \union {None}]
    /\ DOMAIN ctl = Execs
    /\ starter \in [Execs -> {"idle", "accepted", "spawn", "acknowledge"}]
    /\ sup \in [Execs -> {"none", "booting", "launch", "record", "watch", "gone", "dead"}]
    /\ runner \in [Execs -> [launched : Nat, alive : BOOLEAN, effects : Nat]]

HostInit ==
    /\ exec = [x \in Execs |-> None]
    /\ ctl = [x \in Execs |-> None]
    /\ starter = [x \in Execs |-> "idle"]
    /\ sup = [x \in Execs |-> "none"]
    /\ runner = [x \in Execs |-> [launched |-> 0, alive |-> FALSE, effects |-> 0]]
    /\ expired = {}

Prepare(x) ==
    /\ exec[x] = None
    /\ exec' = [exec EXCEPT ![x] =
                  [state |-> "prepared", phase |-> "prepared", cancelled |-> FALSE,
                   business |-> "pending", ready |-> FALSE, registered |-> FALSE,
                   sequence |-> 0, settled |-> FALSE]]
    /\ UNCHANGED <<ctl, starter, sup, runner, expired>>

SetControl(x, f, enabled) ==
    /\ ctl[x] # None => ctl[x].fence <= f
    /\ ctl[x] # [fence |-> f, enabled |-> enabled]
    /\ ctl' = [ctl EXCEPT ![x] = [fence |-> f, enabled |-> enabled]]
    /\ UNCHANGED <<exec, starter, sup, runner, expired>>

(* A control that exists is left alone, disabled ones too. *)
InitializeControlOnce(x) ==
    /\ exec[x] # None /\ ctl[x] = None
    /\ exec[x].state = "prepared" /\ ~exec[x].cancelled
    /\ ctl' = [ctl EXCEPT ![x] = [fence |-> 1, enabled |-> TRUE]]
    /\ UNCHANGED <<exec, starter, sup, runner, expired>>

(* dispatch enabled, fence and authorization as in the manifest *)
ControlCurrent(x) == ctl[x] = [fence |-> 1, enabled |-> TRUE]

MayLaunch(x) == ~exec[x].cancelled /\ ControlCurrent(x) /\ x \notin expired

(* A slip in start: an accepted activation that is sent again goes through. *)
StartAccept_NoReplay(x) ==
    /\ exec[x] # None /\ starter[x] = "idle"
    /\ MayLaunch(x)
    /\ exec' = [exec EXCEPT ![x].state = "accepted", ![x].phase = "accepted"]
    /\ starter' = [starter EXCEPT ![x] = "accepted"]
    /\ UNCHANGED <<ctl, sup, runner, expired>>

(* start, first transaction.  A repeated activation is a replay and starts nothing. *)
StartAccept(x) ==
    /\ exec[x] # None /\ exec[x].phase = "prepared"
    /\ MayLaunch(x)
    /\ exec' = [exec EXCEPT ![x].state = "accepted", ![x].phase = "accepted"]
    /\ starter' = [starter EXCEPT ![x] = "accepted"]
    /\ UNCHANGED <<ctl, sup, runner, expired>>

(* start, second transaction: everything is checked again before the spawn. *)
StartActivate(x) ==
    /\ starter[x] = "accepted"
    /\ IF MayLaunch(x)
         THEN /\ exec' = [exec EXCEPT ![x].state = "starting", ![x].phase = "activated"]
              /\ starter' = [starter EXCEPT ![x] = "spawn"]
         ELSE /\ exec' = [exec EXCEPT ![x].state = "cancelled_unstarted", ![x].phase = "denied"]
              /\ starter' = [starter EXCEPT ![x] = "idle"]
    /\ UNCHANGED <<ctl, sup, runner, expired>>

StartSpawn(x) ==
    /\ starter[x] = "spawn"
    /\ sup' = [sup EXCEPT ![x] = "booting"]
    /\ starter' = [starter EXCEPT ![x] = "acknowledge"]
    /\ UNCHANGED <<exec, ctl, runner, expired>>

StartAcknowledge(x) ==
    /\ starter[x] = "acknowledge"
    /\ exec' = [exec EXCEPT ![x].phase = "acknowledged"]
    /\ starter' = [starter EXCEPT ![x] = "idle"]
    /\ UNCHANGED <<ctl, sup, runner, expired>>

HostStops(x) ==
    /\ starter[x] # "idle"
    /\ starter' = [starter EXCEPT ![x] = "idle"]
    /\ UNCHANGED <<exec, ctl, sup, runner, expired>>

(* supervise: registration and the last check, in one transaction. *)
SupervisorRegister(x) ==
    /\ sup[x] = "booting" /\ exec[x].state = "starting"
    /\ exec' = [exec EXCEPT ![x].ready = TRUE,
                            ![x].state = IF MayLaunch(x) THEN "running" ELSE "finished"]
    /\ sup' = [sup EXCEPT ![x] = IF MayLaunch(x) THEN "launch" ELSE "gone"]
    /\ UNCHANGED <<ctl, starter, runner, expired>>

SupervisorLaunch(x) ==
    /\ sup[x] = "launch"
    /\ runner' = [runner EXCEPT ![x].launched = @ + 1, ![x].alive = TRUE]
    /\ sup' = [sup EXCEPT ![x] = "record"]
    /\ UNCHANGED <<exec, ctl, starter, expired>>

SupervisorRecordsRunner(x) ==
    /\ sup[x] = "record"
    /\ exec' = [exec EXCEPT ![x].registered = TRUE]
    /\ sup' = [sup EXCEPT ![x] = "watch"]
    /\ UNCHANGED <<ctl, starter, runner, expired>>

(* A slip in the watch loop: only the timeout ends it. *)
SupervisorTerminates_TimeoutOnly(x, timeout) ==
    /\ sup[x] = "watch" /\ timeout
    /\ runner' = [runner EXCEPT ![x].alive = FALSE]
    /\ sup' = [sup EXCEPT ![x] = "gone"]
    /\ UNCHANGED <<exec, ctl, starter, expired>>

(* The watch loop sees a cancellation, or the timeout: the group is terminated. *)
SupervisorTerminates(x, timeout) ==
    /\ sup[x] = "watch"
    /\ exec[x].cancelled \/ timeout
    /\ runner' = [runner EXCEPT ![x].alive = FALSE]
    /\ sup' = [sup EXCEPT ![x] = "gone"]
    /\ UNCHANGED <<exec, ctl, starter, expired>>

(* The watch loop finds the group empty. *)
SupervisorFinishes(x) ==
    /\ sup[x] = "watch" /\ ~runner[x].alive /\ ~exec[x].cancelled
    /\ exec' = [exec EXCEPT ![x].state = "finished"]
    /\ sup' = [sup EXCEPT ![x] = "gone"]
    /\ UNCHANGED <<ctl, starter, runner, expired>>

RunnerExits(x) ==
    /\ runner[x].alive
    /\ runner' = [runner EXCEPT ![x].alive = FALSE]
    /\ UNCHANGED <<exec, ctl, starter, sup, expired>>

(* The supervisor is killed; its runner lives on in the group. *)
SupervisorDies(x) ==
    /\ sup[x] \in {"booting", "launch", "record", "watch"}
    /\ sup' = [sup EXCEPT ![x] = "dead"]
    /\ UNCHANGED <<exec, ctl, starter, runner, expired>>

(* current_fence_guard with current_runner_guard: an effect of the registered runner. *)
RunnerActs(x) ==
    /\ runner[x].alive /\ runner[x].effects = 0
    /\ exec[x].state = "running" /\ exec[x].ready /\ exec[x].registered
    /\ ~exec[x].cancelled /\ ControlCurrent(x)
    /\ sup[x] = "watch"
    /\ runner' = [runner EXCEPT ![x].effects = 1]
    /\ UNCHANGED <<exec, ctl, starter, sup, expired>>

(* A slip in cancel: an accepted or running start is counted as unstarted. *)
Cancel_CountsAccepted(x) ==
    /\ exec[x] # None /\ ~exec[x].cancelled
    /\ exec' = [exec EXCEPT ![x].cancelled = TRUE,
                            ![x].business = IF @ = "pending" THEN "cancelled" ELSE @,
                            ![x].state = IF @ \in {"prepared", "accepted", "starting", "running"}
                                           THEN "cancelled_unstarted" ELSE @]
    /\ ctl' = [ctl EXCEPT ![x] = IF @ = None THEN None ELSE [@ EXCEPT !.enabled = FALSE]]
    /\ UNCHANGED <<starter, sup, runner, expired>>

(* cancel: marks, withdraws the control; the process is stopped by its supervisor. *)
Cancel(x) ==
    /\ exec[x] # None
    /\ ~exec[x].cancelled \/ (ctl[x] # None /\ ctl[x].enabled)
    /\ exec' = [exec EXCEPT ![x].cancelled = TRUE,
                            ![x].business = IF @ = "pending" THEN "cancelled" ELSE @,
                            ![x].state = IF @ = "prepared" THEN "cancelled_unstarted" ELSE @]
    /\ ctl' = [ctl EXCEPT ![x] = IF @ = None THEN None ELSE [@ EXCEPT !.enabled = FALSE]]
    /\ UNCHANGED <<starter, sup, runner, expired>>

(* receive_result: only the accepted one changes the attempt. *)
ReceiveResult(x, f) ==
    /\ exec[x] # None
    /\ ~exec[x].cancelled /\ exec[x].business = "pending"
    /\ ctl[x] # None /\ f = 1 /\ ctl[x].fence = 1
    /\ exec[x].state \in {"running", "finished"}
    /\ exec' = [exec EXCEPT ![x].business = "done"]
    /\ UNCHANGED <<ctl, starter, sup, runner, expired>>

RecordUsage(x) ==
    /\ exec[x] # None /\ exec[x].sequence < MaxUsage
    /\ exec' = [exec EXCEPT ![x].sequence = @ + 1, ![x].settled = FALSE]
    /\ UNCHANGED <<ctl, starter, sup, runner, expired>>

SettleUsage(x, through) ==
    /\ exec[x] # None /\ ~exec[x].settled
    /\ through = exec[x].sequence
    /\ exec' = [exec EXCEPT ![x].settled = TRUE]
    /\ UNCHANGED <<ctl, starter, sup, runner, expired>>

Expire(x) ==
    /\ x \notin expired
    /\ expired' = expired \union {x}
    /\ UNCHANGED <<exec, ctl, starter, sup, runner>>

SupervisorStep(x) ==
    \/ SupervisorRegister(x) \/ SupervisorLaunch(x) \/ SupervisorRecordsRunner(x)
    \/ SupervisorTerminates(x, FALSE) \/ SupervisorFinishes(x)

HostNext ==
    \E x \in Execs :
        \/ Prepare(x)
        \/ \E f \in 1 .. MaxFence, b \in BOOLEAN : SetControl(x, f, b)
        \/ InitializeControlOnce(x)
        \/ StartAccept(x) \/ StartActivate(x) \/ StartSpawn(x) \/ StartAcknowledge(x)
        \/ HostStops(x)
        \/ SupervisorStep(x) \/ SupervisorTerminates(x, TRUE) \/ SupervisorDies(x)
        \/ RunnerExits(x) \/ RunnerActs(x)
        \/ Cancel(x)
        \/ \E f \in 1 .. MaxFence : ReceiveResult(x, f)
        \/ RecordUsage(x)
        \/ \E n \in 0 .. MaxUsage : SettleUsage(x, n)
        \/ Expire(x)

(* A supervisor that lives keeps running its loop. *)
HostFairness == \A x \in Execs : WF_hostVars(SupervisorStep(x))

HostSpec == HostInit /\ [][HostNext]_hostVars /\ HostFairness

-----------------------------------------------------------------------------
(* inspect: what the host says of the process. *)
Observed(x) ==
    CASE exec[x].state = "cancelled_unstarted" -> "exited"
      [] exec[x].state = "prepared" -> "prepared"
      [] OTHER -> IF ~exec[x].ready THEN "unknown"
                  ELSE IF runner[x].alive \/ sup[x] \in {"launch", "record", "watch"}
                    THEN "running" ELSE "exited"

(* Replayed and interrupted starts never run an attempt twice. *)
OneRunner ==
    \A x \in Execs : runner[x].launched <= 1 /\ (runner[x].launched = 1 => exec[x].ready)

(* What inspect calls exited is over: no process of the attempt lives, and none is launched later. *)
ExitedIsOver(x) ==
    Observed(x) = "exited" => ~runner[x].alive /\ ~runner'[x].alive /\ Observed(x)' = "exited"

(* One outcome, for good, and no guarded effect after a cancellation. *)
OutcomeIsFinal(x) ==
    /\ exec[x].business # "pending" => exec'[x].business = exec[x].business
    /\ exec[x].cancelled => /\ exec'[x].cancelled
                            /\ exec'[x].business # "pending"
                            /\ runner'[x].effects = runner[x].effects

(***************************************************************************)
(* An attempt ends once.  What inspect calls exited, and cancel therefore  *)
(* confirms, is over, although the cancellation may overtake start and the *)
(* supervisor anywhere.  A cancellation and a result that race leave one   *)
(* of them, for good, and a cancelled attempt has no further effect.       *)
(***************************************************************************)
AttemptsEndOnce ==
    [][\A x \in Execs : exec[x] # None => ExitedIsOver(x) /\ OutcomeIsFinal(x)]_hostVars

(***************************************************************************)
(* A cancelled attempt stops: its runner ends unless the supervisor itself *)
(* was killed, in whatever step of the launch the cancellation arrives.    *)
(***************************************************************************)
CancelledStops ==
    \A x \in Execs :
        (exec[x] # None /\ exec[x].cancelled) ~>
            \/ sup[x] = "dead"
            \/ ~runner[x].alive /\ sup[x] \notin {"launch", "record", "watch"}
=============================================================================
