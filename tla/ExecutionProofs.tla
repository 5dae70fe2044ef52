-------------------------- MODULE ExecutionProofs --------------------------
(***************************************************************************)
(* Runner host, broker and candidate checks, for any attempts, calls,      *)
(* fences, amounts, checks and bindings: an attempt runs and ends once, the *)
(* broker's money is accounted for, and what a check decides is decided on *)
(* the subject in force.                                                   *)
(***************************************************************************)
EXTENDS RunnerHost, ResourceBroker, CandidateChecks, SumTheorems, TLAPS

-----------------------------------------------------------------------------
(***************************************************************************)
(* Runner host.  How far start and the supervisor of an attempt have come, *)
(* and what its row says of it.  The row alone does not tell: a caller     *)
(* that stopped leaves an accepted or activated row behind, so the program *)
(* counters of both processes are tied to it here.                         *)
(***************************************************************************)
NeverStarted(x) == sup[x] = "none" /\ runner[x].launched = 0 /\ ~runner[x].alive

(* The caller of start against the row: before the spawn there is no process. *)
StartFollows(x) ==
    /\ exec[x].phase = "prepared" =>
          /\ starter[x] = "idle" /\ NeverStarted(x)
          /\ exec[x].state = (IF exec[x].cancelled THEN "cancelled_unstarted" ELSE "prepared")
    /\ exec[x].phase # "prepared" => exec[x].state # "prepared"
    /\ starter[x] = "accepted" =>
          exec[x].phase = "accepted" /\ exec[x].state = "accepted" /\ NeverStarted(x)
    /\ starter[x] = "spawn" =>
          exec[x].phase = "activated" /\ exec[x].state = "starting" /\ NeverStarted(x)
    /\ starter[x] = "acknowledge" => sup[x] # "none"
    /\ exec[x].state = "cancelled_unstarted" => starter[x] = "idle" /\ NeverStarted(x)

(* The supervisor against the row: it registers before it launches, and launches once. *)
SupervisorFollows(x) ==
    /\ NeverStarted(x) => ~exec[x].ready
    /\ sup[x] # "none" => exec[x].phase \in {"activated", "acknowledged"}
    /\ sup[x] = "booting" => exec[x].state = "starting" /\ ~exec[x].ready
    /\ ~exec[x].ready => runner[x].launched = 0
    /\ sup[x] \in {"launch", "record", "watch", "gone"} => exec[x].ready
    /\ sup[x] = "launch" => runner[x].launched = 0 /\ exec[x].state = "running"
    /\ exec[x].ready => sup[x] \notin {"none", "booting"}
    /\ runner[x].launched <= 1
    /\ runner[x].alive => exec[x].ready

LifeInv(x) ==
    /\ exec[x] = None => starter[x] = "idle" /\ NeverStarted(x)
    /\ exec[x] # None => /\ StartFollows(x) /\ SupervisorFollows(x)
                         /\ exec[x].cancelled => exec[x].business # "pending"

HostInv == HostTypeOK /\ \A x \in Execs : LifeInv(x)

(* What has to be shown of a step that concerns x alone. *)
LEMMA HostFrame ==
    ASSUME HostInv, NEW x \in Execs, HostTypeOK', LifeInv(x)',
           \A y \in Execs \ {x} : /\ exec'[y] = exec[y] /\ starter'[y] = starter[y]
                                  /\ sup'[y] = sup[y] /\ runner'[y] = runner[y]
    PROVE  HostInv'
  BY DEF HostInv, LifeInv, StartFollows, SupervisorFollows, NeverStarted

(* A step that writes the row of x. *)
LEMMA RowWritten ==
    ASSUME HostTypeOK, NEW x \in Execs, NEW row \in Execution, exec' = [exec EXCEPT ![x] = row]
    PROVE  /\ exec' \in [Execs -> Execution \union {None}]
           /\ exec'[x] = row /\ row # None
           /\ \A y \in Execs \ {x} : exec'[y] = exec[y]
  BY HostAssumption DEF HostTypeOK

(* A step that writes the process of x. *)
LEMMA ProcessWritten ==
    ASSUME HostTypeOK, NEW x \in Execs,
           NEW process \in [launched : Nat, alive : BOOLEAN, effects : Nat],
           runner' = [runner EXCEPT ![x] = process]
    PROVE  /\ runner' \in [Execs -> [launched : Nat, alive : BOOLEAN, effects : Nat]]
           /\ runner'[x] = process
           /\ \A y \in Execs \ {x} : runner'[y] = runner[y]
  BY DEF HostTypeOK

(* What the writes of a row leave of its lifecycle. *)
SameLifecycle(row, r) ==
    /\ row.phase = r.phase /\ row.state = r.state /\ row.ready = r.ready
    /\ row.cancelled = r.cancelled /\ row.business = r.business

LEMMA UsageRow ==
    ASSUME NEW r \in Execution
    PROVE  LET recorded == [r EXCEPT !.sequence = @ + 1, !.settled = FALSE]
               settled == [r EXCEPT !.settled = TRUE]
           IN  /\ recorded \in Execution /\ SameLifecycle(recorded, r)
               /\ settled \in Execution /\ SameLifecycle(settled, r)
<1> DEFINE counted == [r EXCEPT !.sequence = @ + 1]
           recorded == [counted EXCEPT !.settled = FALSE]
           settled == [r EXCEPT !.settled = TRUE]
<1>1. counted \in Execution /\ SameLifecycle(counted, r)
  BY DEF Execution, SameLifecycle
<1> HIDE DEF counted
<1>2. recorded \in Execution /\ SameLifecycle(recorded, counted)
  BY <1>1 DEF Execution, SameLifecycle
<1>3. settled \in Execution /\ SameLifecycle(settled, r)
  BY DEF Execution, SameLifecycle
<1>4. SameLifecycle(recorded, r)
  BY <1>1, <1>2 DEF SameLifecycle
<1> HIDE DEF recorded, settled
<1>5. recorded \in Execution /\ SameLifecycle(recorded, r)
      /\ settled \in Execution /\ SameLifecycle(settled, r)
  BY <1>2, <1>3, <1>4
<1> QED BY <1>5 DEF recorded, settled, counted

LEMMA UsageWritten ==
    ASSUME NEW x, exec[x] \in Execution, RecordUsage(x) \/ \E n \in 0 .. MaxUsage : SettleUsage(x, n)
    PROVE  \E row \in Execution : exec' = [exec EXCEPT ![x] = row] /\ SameLifecycle(row, exec[x])
<1> DEFINE recorded == [exec[x] EXCEPT !.sequence = @ + 1, !.settled = FALSE]
           settled == [exec[x] EXCEPT !.settled = TRUE]
<1>1. /\ recorded \in Execution /\ SameLifecycle(recorded, exec[x])
      /\ settled \in Execution /\ SameLifecycle(settled, exec[x])
  BY UsageRow
<1>2. exec' = [exec EXCEPT ![x] = recorded] \/ exec' = [exec EXCEPT ![x] = settled]
  BY DEF RecordUsage, SettleUsage
<1> HIDE DEF recorded, settled
<1> QED BY <1>1, <1>2

LEMMA CancelledRow ==
    ASSUME NEW r \in Execution
    PROVE  LET row == [r EXCEPT !.cancelled = TRUE,
                                !.business = IF @ = "pending" THEN "cancelled" ELSE @,
                                !.state = IF @ = "prepared" THEN "cancelled_unstarted" ELSE @]
           IN  /\ row \in Execution /\ row.phase = r.phase /\ row.ready = r.ready
               /\ row.cancelled = TRUE /\ row.business # "pending"
               /\ row.state = (IF r.state = "prepared" THEN "cancelled_unstarted" ELSE r.state)
  BY DEF Execution

(* The steps of an attempt: of the caller of start, of the processes, of its row and controls. *)
StartOf(x) ==
    StartAccept(x) \/ StartActivate(x) \/ StartSpawn(x) \/ StartAcknowledge(x) \/ HostStops(x)

ProcessOf(x) ==
    \/ SupervisorStep(x) \/ SupervisorTerminates(x, TRUE) \/ SupervisorDies(x)
    \/ RunnerExits(x) \/ RunnerActs(x)

RowOf(x) ==
    \/ Prepare(x) \/ InitializeControlOnce(x) \/ Cancel(x) \/ RecordUsage(x) \/ Expire(x)
    \/ \E f \in 1 .. MaxFence : ReceiveResult(x, f) \/ \E b \in BOOLEAN : SetControl(x, f, b)
    \/ \E n \in 0 .. MaxUsage : SettleUsage(x, n)

(* start: a repeated activation is not accepted, a refused one starts nothing. *)
LEMMA StartInvariant ==
    ASSUME HostInv, NEW x \in Execs, StartOf(x)
    PROVE  HostInv'
<1> USE DEF HostInv, HostTypeOK, LifeInv, StartFollows, SupervisorFollows, NeverStarted
<1>1. CASE StartAccept(x)
  BY <1>1, HostAssumption DEF StartAccept, MayLaunch, Execution
<1>2. CASE StartActivate(x)
  BY <1>2, HostAssumption DEF StartActivate, Execution
<1>3. CASE StartSpawn(x)
  BY <1>3 DEF StartSpawn
<1>4. CASE StartAcknowledge(x)
  <2> DEFINE row == [exec[x] EXCEPT !.phase = "acknowledged"]
  <2>1. exec[x] \in Execution
    BY <1>4 DEF StartAcknowledge
  <2>2. /\ row \in Execution /\ row.phase = "acknowledged" /\ row.state = exec[x].state
        /\ row.ready = exec[x].ready /\ row.cancelled = exec[x].cancelled
        /\ row.business = exec[x].business
    BY <2>1 DEF Execution
  <2>3. /\ exec' = [exec EXCEPT ![x] = row]
        /\ starter[x] = "acknowledge" /\ starter' = [starter EXCEPT ![x] = "idle"]
        /\ UNCHANGED <<ctl, sup, runner>>
    BY <1>4 DEF StartAcknowledge
  <2> HIDE DEF row
  <2>4. exec'[x] = row /\ row # None /\ HostTypeOK'
    <3>1. HostTypeOK /\ exec' = [exec EXCEPT ![x] = row] /\ row \in Execution
      BY <2>2, <2>3
    <3>2. /\ exec' \in [Execs -> Execution \union {None}]
          /\ exec'[x] = row /\ row # None
      BY <3>1, RowWritten
    <3> QED BY <2>3, <3>2
  <2>5. LifeInv(x)'
    BY <2>1, <2>2, <2>3, <2>4, HostAssumption
  <2> QED BY <2>3, <2>4, <2>5, HostFrame
<1>5. CASE HostStops(x)
  BY <1>5 DEF HostStops
<1> QED BY <1>1, <1>2, <1>3, <1>4, <1>5 DEF StartOf

(* The supervisor and its runner. *)
LEMMA SupervisorInvariant ==
    ASSUME HostInv, NEW x \in Execs, ProcessOf(x)
    PROVE  HostInv'
<1> USE DEF HostInv, HostTypeOK, LifeInv, StartFollows, SupervisorFollows, NeverStarted
<1> DEFINE Process == [launched : Nat, alive : BOOLEAN, effects : Nat]
<1>1. CASE SupervisorRegister(x)
  BY <1>1, HostAssumption DEF SupervisorRegister, Execution
<1>2. CASE SupervisorLaunch(x)
  <2> DEFINE process == [runner[x] EXCEPT !.launched = @ + 1, !.alive = TRUE]
  <2>0. runner[x] \in Process
    OBVIOUS
  <2>1. process \in Process /\ process.launched = runner[x].launched + 1 /\ process.alive = TRUE
    <3> DEFINE counted == [runner[x] EXCEPT !.launched = @ + 1]
    <3>1. counted \in Process /\ counted.launched = runner[x].launched + 1
      BY <2>0
    <3> HIDE DEF counted
    <3>2. /\ [counted EXCEPT !.alive = TRUE] \in Process
          /\ [counted EXCEPT !.alive = TRUE].launched = counted.launched
          /\ [counted EXCEPT !.alive = TRUE].alive = TRUE
      BY <3>1
    <3> QED BY <3>1, <3>2 DEF counted
  <2>2. /\ runner' = [runner EXCEPT ![x] = process] /\ sup[x] = "launch"
        /\ sup' = [sup EXCEPT ![x] = "record"] /\ UNCHANGED <<exec, ctl, starter>>
    BY <1>2 DEF SupervisorLaunch
  <2> HIDE DEF process
  <2>3. runner'[x] = process /\ HostTypeOK'
    BY <2>1, <2>2, ProcessWritten
  <2>4. LifeInv(x)'
    BY <2>1, <2>2, <2>3
  <2> QED BY <2>2, <2>3, <2>4, HostFrame, ProcessWritten, <2>1
<1>3. CASE SupervisorRecordsRunner(x)
  <2> DEFINE row == [exec[x] EXCEPT !.registered = TRUE]
  <2>1. exec[x] # None /\ exec[x] \in Execution
    BY <1>3 DEF SupervisorRecordsRunner
  <2>2. /\ row \in Execution /\ row.phase = exec[x].phase /\ row.state = exec[x].state
        /\ row.ready = exec[x].ready /\ row.cancelled = exec[x].cancelled
        /\ row.business = exec[x].business
    BY <2>1 DEF Execution
  <2>3. /\ exec' = [exec EXCEPT ![x] = row] /\ sup[x] = "record"
        /\ sup' = [sup EXCEPT ![x] = "watch"] /\ UNCHANGED <<ctl, starter, runner>>
    BY <1>3 DEF SupervisorRecordsRunner
  <2> HIDE DEF row
  <2>4. exec'[x] = row /\ row # None /\ HostTypeOK'
    <3>1. HostTypeOK /\ exec' = [exec EXCEPT ![x] = row] /\ row \in Execution
      BY <2>2, <2>3
    <3>2. /\ exec' \in [Execs -> Execution \union {None}]
          /\ exec'[x] = row /\ row # None
      BY <3>1, RowWritten
    <3> QED BY <2>3, <3>2
  <2>5. LifeInv(x)'
    BY <2>1, <2>2, <2>3, <2>4
  <2> QED BY <2>3, <2>4, <2>5, HostFrame
<1>4. CASE SupervisorTerminates(x, FALSE) \/ SupervisorTerminates(x, TRUE) \/ RunnerExits(x)
  <2> DEFINE process == [runner[x] EXCEPT !.alive = FALSE]
  <2>1. process \in Process /\ process.launched = runner[x].launched /\ process.alive = FALSE
    OBVIOUS
  <2>2. /\ runner' = [runner EXCEPT ![x] = process] /\ UNCHANGED <<exec, ctl, starter>>
        /\ \/ sup[x] = "watch" /\ sup' = [sup EXCEPT ![x] = "gone"]
           \/ runner[x].alive /\ UNCHANGED sup
    BY <1>4 DEF SupervisorTerminates, RunnerExits
  <2> HIDE DEF process
  <2>3. runner'[x] = process /\ HostTypeOK'
    BY <2>1, <2>2, ProcessWritten
  <2>4. LifeInv(x)'
    BY <2>1, <2>2, <2>3
  <2> QED BY <2>1, <2>2, <2>3, <2>4, HostFrame, ProcessWritten
<1>5. CASE SupervisorFinishes(x)
  BY <1>5, HostAssumption DEF SupervisorFinishes, Execution
<1>6. CASE SupervisorDies(x)
  BY <1>6 DEF SupervisorDies
<1>7. CASE RunnerActs(x)
  <2> DEFINE process == [runner[x] EXCEPT !.effects = 1]
  <2>1. /\ process \in Process /\ process.launched = runner[x].launched
        /\ process.alive = runner[x].alive
    OBVIOUS
  <2>2. runner' = [runner EXCEPT ![x] = process] /\ UNCHANGED <<exec, ctl, starter, sup>>
    BY <1>7 DEF RunnerActs
  <2> HIDE DEF process
  <2>3. runner'[x] = process /\ HostTypeOK'
    BY <2>1, <2>2, ProcessWritten
  <2>4. LifeInv(x)'
    BY <2>1, <2>2, <2>3
  <2> QED BY <2>1, <2>2, <2>3, <2>4, HostFrame, ProcessWritten
<1> HIDE DEF HostInv
<1> QED BY <1>1, <1>2, <1>3, <1>4, <1>5, <1>6, <1>7 DEF ProcessOf, SupervisorStep

(* Controls, cancellation, results and usage: the row changes, the process does not. *)
LEMMA RowInvariant ==
    ASSUME HostInv, NEW x \in Execs, RowOf(x)
    PROVE  HostInv'
<1> USE DEF HostInv, HostTypeOK, LifeInv, StartFollows, SupervisorFollows, NeverStarted
<1>1. CASE Prepare(x)
  BY <1>1, HostAssumption DEF Prepare, Execution
<1>2. CASE InitializeControlOnce(x) \/ Expire(x)
              \/ \E f \in 1 .. MaxFence, b \in BOOLEAN : SetControl(x, f, b)
  BY <1>2 DEF InitializeControlOnce, Expire, SetControl
<1>3. CASE Cancel(x)
  <2> DEFINE row == [exec[x] EXCEPT !.cancelled = TRUE,
                                    !.business = IF @ = "pending" THEN "cancelled" ELSE @,
                                    !.state = IF @ = "prepared" THEN "cancelled_unstarted" ELSE @]
  <2>1. exec[x] # None /\ exec[x] \in Execution
    BY <1>3 DEF Cancel
  <2>2. /\ row \in Execution /\ row.phase = exec[x].phase /\ row.ready = exec[x].ready
        /\ row.cancelled = TRUE /\ row.business # "pending"
        /\ row.state = (IF exec[x].state = "prepared" THEN "cancelled_unstarted" ELSE exec[x].state)
    BY <2>1, CancelledRow
  <2>3. /\ exec' = [exec EXCEPT ![x] = row] /\ UNCHANGED <<starter, sup, runner>>
        /\ DOMAIN ctl' = Execs
    BY <1>3 DEF Cancel
  <2> HIDE DEF row
  <2>4. exec'[x] = row /\ row # None /\ HostTypeOK'
    <3>1. HostTypeOK /\ exec' = [exec EXCEPT ![x] = row] /\ row \in Execution
      BY <2>2, <2>3
    <3>2. /\ exec' \in [Execs -> Execution \union {None}]
          /\ exec'[x] = row /\ row # None
      BY <3>1, RowWritten
    <3> QED BY <2>3, <3>2
  <2>5. LifeInv(x)'
    BY <2>1, <2>2, <2>3, <2>4 DEF Execution
  <2> QED BY <2>3, <2>4, <2>5, HostFrame
<1>4. CASE RecordUsage(x) \/ \E n \in 0 .. MaxUsage : SettleUsage(x, n)
  <2>1. exec[x] # None /\ exec[x] \in Execution
    BY <1>4 DEF RecordUsage, SettleUsage
  <2>2. PICK row \in Execution :
            exec' = [exec EXCEPT ![x] = row] /\ SameLifecycle(row, exec[x])
    BY <1>4, <2>1, UsageWritten
  <2>3. UNCHANGED <<ctl, starter, sup, runner>>
    BY <1>4 DEF RecordUsage, SettleUsage
  <2>4. exec'[x] = row /\ row # None /\ HostTypeOK'
    <3>1. HostTypeOK /\ exec' = [exec EXCEPT ![x] = row] /\ row \in Execution
      BY <2>2, <2>3
    <3>2. /\ exec' \in [Execs -> Execution \union {None}]
          /\ exec'[x] = row /\ row # None
      BY <3>1, RowWritten
    <3> QED BY <2>3, <3>2
  <2>5. LifeInv(x)'
    BY <2>1, <2>2, <2>3, <2>4 DEF SameLifecycle
  <2> QED BY <2>2, <2>3, <2>4, <2>5, HostFrame, RowWritten
<1>5. CASE \E f \in 1 .. MaxFence : ReceiveResult(x, f)
  BY <1>5, HostAssumption DEF ReceiveResult, Execution
<1> HIDE DEF HostInv
<1> QED BY <1>1, <1>2, <1>3, <1>4, <1>5 DEF RowOf

LEMMA HostInvariance == HostSpec => []HostInv
<1>1. HostInit => HostInv
  BY DEF HostInit, HostInv, HostTypeOK, LifeInv, NeverStarted
<1>2. HostInv /\ [HostNext]_hostVars => HostInv'
  <2>1. CASE UNCHANGED hostVars
    BY <2>1 DEF hostVars, HostInv, HostTypeOK, LifeInv, StartFollows, SupervisorFollows,
                NeverStarted
  <2> QED BY <2>1, StartInvariant, SupervisorInvariant, RowInvariant DEF HostNext, StartOf, ProcessOf, RowOf
<1> QED BY <1>1, <1>2, PTL DEF HostSpec

(* Replayed and interrupted starts launch the runner of an attempt once, after registration. *)
THEOREM OneRunnerHolds == HostSpec => []OneRunner
<1>1. HostInv => OneRunner
  <2> SUFFICES ASSUME HostInv, NEW x \in Execs
               PROVE  runner[x].launched <= 1 /\ (runner[x].launched = 1 => exec[x].ready)
    BY DEF OneRunner
  <2> QED BY DEF HostInv, HostTypeOK, LifeInv, SupervisorFollows, NeverStarted
<1> QED BY <1>1, HostInvariance, PTL

(* inspect says exited: the attempt was never started, or its registered process is gone. *)
Over(x) ==
    \/ exec[x].state = "cancelled_unstarted"
    \/ /\ exec[x].state # "prepared" /\ exec[x].ready
       /\ ~runner[x].alive /\ sup[x] \notin {"launch", "record", "watch"}

LEMMA ExitedMeansOver ==
    ASSUME NEW x \in Execs
    PROVE  /\ Observed(x) = "exited" <=> Over(x)
           /\ Observed(x)' = "exited" <=> Over(x)'
<1>1. Observed(x) = "exited" <=> Over(x)
  <2>1. CASE exec[x].state = "cancelled_unstarted"
    BY <2>1 DEF Observed, Over
  <2>2. CASE exec[x].state = "prepared"
    BY <2>2 DEF Observed, Over
  <2>3. CASE exec[x].state \notin {"cancelled_unstarted", "prepared"}
    BY <2>3 DEF Observed, Over
  <2> QED BY <2>1, <2>2, <2>3
<1>2. Observed(x)' = "exited" <=> Over(x)'
  <2>1. CASE exec'[x].state = "cancelled_unstarted"
    BY <2>1 DEF Observed, Over
  <2>2. CASE exec'[x].state = "prepared"
    BY <2>2 DEF Observed, Over
  <2>3. CASE exec'[x].state \notin {"cancelled_unstarted", "prepared"}
    BY <2>3 DEF Observed, Over
  <2> QED BY <2>1, <2>2, <2>3
<1> QED BY <1>1, <1>2

(* A step of one attempt leaves the rows and processes of the others alone. *)
LEMMA OthersKept ==
    ASSUME HostTypeOK, NEW x \in Execs, NEW y \in Execs, y # x, StartOf(y) \/ ProcessOf(y) \/ RowOf(y)
    PROVE  exec'[x] = exec[x] /\ sup'[x] = sup[x] /\ runner'[x] = runner[x]
<1> USE DEF HostTypeOK
<1>1. CASE StartOf(y)
  BY <1>1 DEF StartOf, StartAccept, StartActivate, StartSpawn, StartAcknowledge, HostStops
<1>2. CASE ProcessOf(y)
  BY <1>2 DEF ProcessOf, SupervisorStep, SupervisorRegister, SupervisorLaunch, SupervisorRecordsRunner,
              SupervisorTerminates, SupervisorFinishes, SupervisorDies, RunnerExits, RunnerActs
<1>3. CASE RowOf(y)
  BY <1>3 DEF RowOf, Prepare, InitializeControlOnce, Cancel, RecordUsage, Expire, ReceiveResult,
              SetControl, SettleUsage
<1> QED BY <1>1, <1>2, <1>3

(* What one step leaves of an attempt that has ended. *)
Ended(x) ==
    /\ Over(x) => ~runner[x].alive /\ ~runner'[x].alive /\ Over(x)'
    /\ OutcomeIsFinal(x)

LEMMA EndedByStart ==
    ASSUME HostInv, NEW x \in Execs, exec[x] # None, StartOf(x)
    PROVE  Ended(x)
<1> USE DEF HostInv, HostTypeOK, LifeInv, StartFollows, SupervisorFollows, NeverStarted,
            Ended, Over, OutcomeIsFinal
<1>1. CASE StartAccept(x)
  BY <1>1 DEF StartAccept, MayLaunch, Execution
<1>2. CASE StartActivate(x)
  BY <1>2 DEF StartActivate, MayLaunch, Execution
<1>3. CASE StartSpawn(x)
  BY <1>3 DEF StartSpawn
<1>4. CASE StartAcknowledge(x)
  BY <1>4 DEF StartAcknowledge, Execution
<1>5. CASE HostStops(x)
  BY <1>5 DEF HostStops
<1> QED BY <1>1, <1>2, <1>3, <1>4, <1>5 DEF StartOf

LEMMA EndedBySupervisor ==
    ASSUME HostInv, NEW x \in Execs, exec[x] # None, ProcessOf(x)
    PROVE  Ended(x)
<1> USE DEF HostInv, HostTypeOK, LifeInv, StartFollows, SupervisorFollows, NeverStarted,
            Ended, Over, OutcomeIsFinal
<1>1. CASE SupervisorRegister(x)
  BY <1>1 DEF SupervisorRegister, Execution
<1>2. CASE SupervisorLaunch(x)
  BY <1>2 DEF SupervisorLaunch
<1>3. CASE SupervisorRecordsRunner(x)
  BY <1>3 DEF SupervisorRecordsRunner, Execution
<1>4. CASE SupervisorTerminates(x, FALSE) \/ SupervisorTerminates(x, TRUE) \/ RunnerExits(x)
  BY <1>4 DEF SupervisorTerminates, RunnerExits
<1>5. CASE SupervisorFinishes(x)
  BY <1>5 DEF SupervisorFinishes, Execution
<1>6. CASE SupervisorDies(x)
  BY <1>6 DEF SupervisorDies
<1>7. CASE RunnerActs(x)
  BY <1>7 DEF RunnerActs
<1> QED BY <1>1, <1>2, <1>3, <1>4, <1>5, <1>6, <1>7 DEF ProcessOf, SupervisorStep

LEMMA EndedByRow ==
    ASSUME HostInv, NEW x \in Execs, exec[x] # None, RowOf(x)
    PROVE  Ended(x)
<1> USE DEF HostInv, HostTypeOK, LifeInv, StartFollows, SupervisorFollows, NeverStarted,
            Ended, Over, OutcomeIsFinal
<1>1. CASE Prepare(x)
  BY <1>1 DEF Prepare
<1>2. CASE InitializeControlOnce(x) \/ Expire(x)
              \/ \E f \in 1 .. MaxFence, b \in BOOLEAN : SetControl(x, f, b)
  BY <1>2 DEF InitializeControlOnce, Expire, SetControl
<1>3. CASE Cancel(x)
  BY <1>3 DEF Cancel, Execution
<1>4. CASE RecordUsage(x) \/ \E n \in 0 .. MaxUsage : SettleUsage(x, n)
  <2>1. PICK row \in Execution :
            exec' = [exec EXCEPT ![x] = row] /\ SameLifecycle(row, exec[x])
    BY <1>4, UsageWritten
  <2>2. exec'[x] = row /\ UNCHANGED <<sup, runner>>
    BY <1>4, <2>1 DEF RecordUsage, SettleUsage
  <2> QED BY <2>1, <2>2 DEF SameLifecycle
<1>5. CASE \E f \in 1 .. MaxFence : ReceiveResult(x, f)
  BY <1>5 DEF ReceiveResult, Execution
<1> QED BY <1>1, <1>2, <1>3, <1>4, <1>5 DEF RowOf

(***************************************************************************)
(* An attempt ends once: what inspect calls exited is over, a cancellation *)
(* and a result that race leave one outcome, and a cancelled attempt has   *)
(* no further effect.                                                      *)
(***************************************************************************)
THEOREM AttemptsEnd == HostSpec => AttemptsEndOnce
<1> DEFINE Step == \A x \in Execs : exec[x] # None => ExitedIsOver(x) /\ OutcomeIsFinal(x)
<1>1. HostInv /\ HostNext => Step
  <2> SUFFICES ASSUME HostInv, HostNext, NEW x \in Execs, exec[x] # None
               PROVE  ExitedIsOver(x) /\ OutcomeIsFinal(x)
    OBVIOUS
  <2>1. PICK y \in Execs : StartOf(y) \/ ProcessOf(y) \/ RowOf(y)
    BY DEF HostNext, StartOf, ProcessOf, RowOf
  <2>2. CASE y = x
    <3>1. Ended(x)
      BY <2>1, <2>2, EndedByStart, EndedBySupervisor, EndedByRow
    <3> QED BY <3>1, ExitedMeansOver DEF Ended, ExitedIsOver
  <2>3. CASE y # x
    <3>1. exec'[x] = exec[x] /\ sup'[x] = sup[x] /\ runner'[x] = runner[x]
      BY <2>1, <2>3, OthersKept DEF HostInv
    <3>2. Over(x) => ~runner[x].alive /\ Over(x)'
      BY <3>1 DEF Over, HostInv, LifeInv, StartFollows, NeverStarted
    <3>3. OutcomeIsFinal(x)
      BY <3>1 DEF OutcomeIsFinal, HostInv, LifeInv
    <3> QED BY <3>1, <3>2, <3>3, ExitedMeansOver DEF ExitedIsOver
  <2> QED BY <2>2, <2>3
<1>2. HostInv /\ [HostNext]_hostVars => [Step]_hostVars
  BY <1>1
<1> QED BY <1>2, HostInvariance, PTL DEF HostSpec, AttemptsEndOnce

-----------------------------------------------------------------------------
(***************************************************************************)
(* Broker.  What a call's row, its thread and its reports say of each      *)
(* other, and the budget: the money held exceeds the limit by no more than *)
(* the provider reported.                                                  *)
(***************************************************************************)
CallFollows(c) ==
    /\ calls[c].attempt \in DOMAIN attempts
    /\ calls[c].actual # None <=> calls[c].state = "settled"
    /\ calls[c].actual = None => \A e \in DOMAIN usage : usage[e].call # c
    /\ calls[c].actual # None =>
          \E e \in DOMAIN usage : usage[e].call = c /\ usage[e].actual <= calls[c].actual

TablesInv ==
    /\ BrokerTypeOK
    /\ IsFiniteSet(DOMAIN attempts) /\ IsFiniteSet(DOMAIN calls)
    /\ \A c \in DOMAIN calls : CallFollows(c)
    /\ \A c \in Calls \ DOMAIN calls : c \notin reached /\ sender[c].pc = "idle"

BrokerInv == TablesInv /\ SentMoneyIsHeld /\ OverdraftIsReported

(* The writes of a row of attempts. *)
LEMMA FutureRow ==
    ASSUME NEW r \in AttemptRow, NEW m \in Nat
    PROVE  [r EXCEPT !.future = m] \in AttemptRow /\ [r EXCEPT !.future = m].future = m
  BY DEF AttemptRow

LEMMA AttemptRows ==
    ASSUME NEW r \in AttemptRow, NEW s \in {"active", "suspended", "finished", "revoked"},
           NEW m \in Nat, NEW f \in Nat
    PROVE  /\ [r EXCEPT !.state = s, !.future = m] \in AttemptRow
           /\ [r EXCEPT !.state = s, !.future = m].future = m
           /\ [r EXCEPT !.state = s, !.future = m, !.fence = f] \in AttemptRow
           /\ [r EXCEPT !.state = s, !.future = m, !.fence = f].future = m
  BY DEF AttemptRow

(* What a write of a row of calls leaves alone. *)
SameBooking(row, r) == row.attempt = r.attempt /\ row.upper = r.upper

Reasons == {None, "AUTHORIZATION_INVALID", "PRICE_UNBOUNDED_OR_EXPIRED",
            "SEND_OUTCOME_UNKNOWN", "COST_BOUND_EXCEEDED"}

(* A booked call without a charge is open or not sent, and what it holds is natural. *)
LEMMA RowFacts ==
    ASSUME TablesInv
    PROVE  /\ \A a \in DOMAIN attempts : attempts[a] \in AttemptRow /\ attempts[a].future \in Nat
           /\ \A c \in DOMAIN calls : /\ calls[c] \in CallRow /\ calls[c].upper \in Nat
                                      /\ calls[c].actual \in Nat \union {None}
                                      /\ calls[c].attempt \in DOMAIN attempts
                                      /\ CallHeld(c) \in Nat
  BY DEF TablesInv, BrokerTypeOK, AttemptRow, CallRow, CallFollows, CallHeld

(* What the reports added to a call is never negative. *)
LEMMA RaisedNat ==
    ASSUME TablesInv, NEW c \in DOMAIN calls
    PROVE  Raised(c) \in Nat
<1> DEFINE reported == {usage[e].actual : e \in {x \in DOMAIN usage : usage[x].call = c}}
<1>1. CASE calls[c].actual = None
  BY <1>1 DEF Raised
<1>2. CASE calls[c].actual # None
  <2>1. calls[c].actual \in Nat /\ calls[c].upper \in Nat
    BY <1>2, RowFacts
  <2>2. PICK e \in DOMAIN usage : usage[e].call = c /\ usage[e].actual <= calls[c].actual
    BY <1>2 DEF TablesInv, CallFollows
  <2>3. reported \in SUBSET Nat /\ usage[e].actual \in reported
    BY <2>2 DEF TablesInv, BrokerTypeOK
  <2>4. Min(reported) \in Nat /\ Min(reported) <= calls[c].actual
    <3> HIDE DEF reported
    <3>1. Min(reported) \in reported /\ Min(reported) <= usage[e].actual
      BY <2>3, MinOfNat
    <3>2. usage[e].actual \in Nat /\ Min(reported) \in Nat
      BY <2>3, <3>1
    <3> QED BY <2>1, <2>2, <3>1, <3>2
  <2> HIDE DEF reported
  <2> DEFINE least == Min({Min(reported), calls[c].upper})
  <2>5. least \in Nat /\ least <= Min(reported)
    <3>1. {Min(reported), calls[c].upper} \in SUBSET Nat
      BY <2>1, <2>4
    <3> QED BY <3>1, MinOfNat
  <2>6. Raised(c) = calls[c].actual - least
    BY <1>2 DEF Raised, reported
  <2> HIDE DEF least
  <2> QED BY <2>1, <2>4, <2>5, <2>6
<1> QED BY <1>1, <1>2

-----------------------------------------------------------------------------
(* The terms of the budget. *)
Future == [a \in DOMAIN attempts |-> attempts[a].future]
Cost == [c \in DOMAIN calls |-> CallHeld(c)]
Extra == [c \in DOMAIN calls |-> Raised(c)]

BudgetTerms ==
    /\ Held = SumFunctionOnSet(Future, DOMAIN attempts) + SumFunctionOnSet(Cost, DOMAIN calls)
    /\ OverdraftIsReported <=> Held <= Limit + SumFunctionOnSet(Extra, DOMAIN calls)
    /\ SumFunctionOnSet(Future, DOMAIN attempts) \in Nat
    /\ SumFunctionOnSet(Cost, DOMAIN calls) \in Nat
    /\ SumFunctionOnSet(Extra, DOMAIN calls) \in Nat
    /\ IsFiniteSet(DOMAIN attempts) /\ IsFiniteSet(DOMAIN calls)
    /\ \A a \in DOMAIN attempts : Future[a] = attempts[a].future /\ Future[a] \in Nat
    /\ \A c \in DOMAIN calls : /\ Cost[c] = CallHeld(c) /\ Cost[c] \in Nat
                               /\ Extra[c] = Raised(c) /\ Extra[c] \in Nat

LEMMA BudgetTermsHold == TablesInv => BudgetTerms
<1> SUFFICES ASSUME TablesInv PROVE BudgetTerms
  OBVIOUS
<1>1. \A a \in DOMAIN attempts : Future[a] = attempts[a].future /\ Future[a] \in Nat
  BY RowFacts DEF Future
<1>2. \A c \in DOMAIN calls : /\ Cost[c] = CallHeld(c) /\ Cost[c] \in Nat
                             /\ Extra[c] = Raised(c) /\ Extra[c] \in Nat
  BY RowFacts, RaisedNat DEF Cost, Extra
<1>3. IsFiniteSet(DOMAIN attempts) /\ IsFiniteSet(DOMAIN calls)
  BY DEF TablesInv
<1>4. /\ SumFunctionOnSet(Future, DOMAIN attempts) \in Nat
      /\ SumFunctionOnSet(Cost, DOMAIN calls) \in Nat
      /\ SumFunctionOnSet(Extra, DOMAIN calls) \in Nat
  BY <1>1, <1>2, <1>3, SumNat
<1>5. Held = SumFunctionOnSet(Future, DOMAIN attempts) + SumFunctionOnSet(Cost, DOMAIN calls)
  BY DEF Held, SumFunction, Future, Cost
<1>6. OverdraftIsReported <=> Held <= Limit + SumFunctionOnSet(Extra, DOMAIN calls)
  BY DEF OverdraftIsReported, SumFunction, Extra
<1> QED BY <1>1, <1>2, <1>3, <1>4, <1>5, <1>6 DEF BudgetTerms

LEMMA BudgetTermsNext == TablesInv' => BudgetTerms'
  BY BudgetTermsHold, PTL

(* A step after which no attempt, no call holds more. *)
LEMMA BudgetShrinks ==
    ASSUME TablesInv, TablesInv', OverdraftIsReported,
           DOMAIN attempts' = DOMAIN attempts, DOMAIN calls' = DOMAIN calls,
           \A a \in DOMAIN attempts : attempts'[a].future <= attempts[a].future,
           \A c \in DOMAIN calls : CallHeld(c)' <= CallHeld(c) /\ Raised(c)' = Raised(c)
    PROVE  OverdraftIsReported'
<1>1. BudgetTerms /\ BudgetTerms'
  BY BudgetTermsHold, BudgetTermsNext
<1>2. SumFunctionOnSet(Future', DOMAIN attempts) <= SumFunctionOnSet(Future, DOMAIN attempts)
  <2>1. \A a \in DOMAIN attempts : Future[a] \in Int /\ Future'[a] \in Int /\ Future'[a] <= Future[a]
    BY <1>1 DEF BudgetTerms
  <2> QED BY <1>1, <2>1, SumMonotone DEF BudgetTerms
<1>3. SumFunctionOnSet(Cost', DOMAIN calls) <= SumFunctionOnSet(Cost, DOMAIN calls)
  <2>1. \A c \in DOMAIN calls : Cost[c] \in Int /\ Cost'[c] \in Int /\ Cost'[c] <= Cost[c]
    BY <1>1 DEF BudgetTerms
  <2> QED BY <1>1, <2>1, SumMonotone DEF BudgetTerms
<1>4. SumFunctionOnSet(Extra', DOMAIN calls) = SumFunctionOnSet(Extra, DOMAIN calls)
  <2>1. \A c \in DOMAIN calls : Extra'[c] = Extra[c]
    BY <1>1 DEF BudgetTerms
  <2> QED BY <1>1, <2>1, SumSame DEF BudgetTerms
<1> QED BY <1>1, <1>2, <1>3, <1>4, BrokerAssumption DEF BudgetTerms

(* The refund of an attempt. *)
Back(C) == {c \in C \intersect DOMAIN calls : calls[c].state = "prepared"}
Uppers == [c \in DOMAIN calls |-> calls[c].upper]
Refund(C) ==
    [a \in DOMAIN attempts |-> SumFunctionOnSet(Uppers, {c \in Back(C) : calls[c].attempt = a})]

LEMMA ReleasedRows ==
    ASSUME TablesInv, NEW C
    PROVE  /\ ReleasedAttempts(attempts, C) \in [DOMAIN attempts -> AttemptRow]
           /\ \A a \in DOMAIN attempts :
                 /\ Refund(C)[a] \in Nat
                 /\ ReleasedAttempts(attempts, C)[a].future <= attempts[a].future + Refund(C)[a]
<1> DEFINE group(a) == {b \in Back(C) : calls[b].attempt = a}
           refunded(a) == [attempts[a] EXCEPT !.future = @ + SumFunction([c \in group(a) |-> calls[c].upper])]
           result == ReleasedAttempts(attempts, C)
<1>1. ASSUME NEW a \in DOMAIN attempts
      PROVE  /\ Refund(C)[a] \in Nat
             /\ SumFunction([c \in group(a) |-> calls[c].upper]) = Refund(C)[a]
  <2>1. group(a) \in SUBSET DOMAIN calls /\ IsFiniteSet(group(a))
    BY FS_Subset DEF TablesInv, Back
  <2>2. \A c \in group(a) : Uppers[c] \in Nat /\ Uppers[c] = [x \in group(a) |-> calls[x].upper][c]
    BY <2>1, RowFacts DEF Uppers
  <2> HIDE DEF group
  <2>3. SumFunctionOnSet(Uppers, group(a)) \in Nat
    BY <2>1, <2>2, SumNat
  <2>4. SumFunctionOnSet([x \in group(a) |-> calls[x].upper], group(a)) = SumFunctionOnSet(Uppers, group(a))
    BY <2>1, <2>2, SumSame
  <2> QED BY <2>3, <2>4 DEF SumFunction, Refund, group
<1>2. result = [a \in DOMAIN attempts |-> IF attempts[a].state # "active" THEN attempts[a] ELSE refunded(a)]
  BY DEF ReleasedAttempts, Back
<1>3. ASSUME NEW a \in DOMAIN attempts
      PROVE  result[a] \in AttemptRow /\ result[a].future <= attempts[a].future + Refund(C)[a]
  <2>1. attempts[a] \in AttemptRow /\ attempts[a].future \in Nat /\ Refund(C)[a] \in Nat
    BY <1>1, RowFacts
  <2>2. refunded(a) = [attempts[a] EXCEPT !.future = attempts[a].future + Refund(C)[a]]
    BY <1>1
  <2>3. attempts[a].future + Refund(C)[a] \in Nat
    BY <2>1
  <2>4. refunded(a) \in AttemptRow /\ refunded(a).future = attempts[a].future + Refund(C)[a]
    <3> HIDE DEF refunded
    <3> QED BY <2>1, <2>2, <2>3, FutureRow
  <2>5. result[a] = attempts[a] \/ result[a] = refunded(a)
    BY <1>2
  <2> HIDE DEF refunded, result
  <2> QED BY <2>1, <2>4, <2>5
<1>4. DOMAIN result = DOMAIN attempts
  BY <1>2
<1> HIDE DEF result, group, refunded
<1> QED BY <1>1, <1>2, <1>3, <1>4 DEF result

(* A step that gives back what the released calls held: the money changes places only. *)
LEMMA BudgetReleases ==
    ASSUME TablesInv, TablesInv', OverdraftIsReported, NEW C,
           attempts' = ReleasedAttempts(attempts, C), DOMAIN calls' = DOMAIN calls,
           \A c \in DOMAIN calls :
              /\ Raised(c)' = Raised(c)
              /\ CallHeld(c)' = (IF c \in Back(C) THEN 0 ELSE CallHeld(c))
    PROVE  OverdraftIsReported'
<1>1. BudgetTerms /\ BudgetTerms'
  BY BudgetTermsHold, BudgetTermsNext
<1>2. DOMAIN attempts' = DOMAIN attempts
  BY ReleasedRows
<1> DEFINE rest == DOMAIN calls \ Back(C)
<1>3. /\ Back(C) \in SUBSET DOMAIN calls /\ IsFiniteSet(Back(C)) /\ IsFiniteSet(rest)
      /\ Back(C) \intersect rest = {} /\ Back(C) \union rest = DOMAIN calls
  BY <1>1, FS_Subset DEF Back, BudgetTerms
<1>4. \A c \in Back(C) : Uppers[c] \in Nat /\ Cost[c] = Uppers[c] /\ calls[c].attempt \in DOMAIN attempts
  BY RowFacts DEF Back, Uppers, Cost, CallHeld, TablesInv, CallFollows
<1>5. SumFunctionOnSet(Refund(C), DOMAIN attempts) = SumFunctionOnSet(Uppers, Back(C))
  <2> DEFINE key == [c \in Back(C) |-> calls[c].attempt]
  <2>1. \A c \in Back(C) : key[c] \in DOMAIN attempts /\ Uppers[c] \in Int
    BY <1>4
  <2> DEFINE part == [a \in DOMAIN attempts |-> {c \in Back(C) : calls[c].attempt = a}]
  <2>2. \A a \in DOMAIN attempts :
           /\ part[a] \subseteq Back(C) /\ \A c \in Back(C) : c \in part[a] <=> key[c] = a
           /\ Refund(C)[a] = SumFunctionOnSet(Uppers, part[a])
    BY DEF Refund
  <2> HIDE DEF key, part
  <2>3. IsFiniteSet(DOMAIN attempts)
    BY DEF TablesInv
  <2> QED BY <1>3, <2>1, <2>2, <2>3, SumByKey
<1>6. SumFunctionOnSet(Future', DOMAIN attempts)
         <= SumFunctionOnSet(Future, DOMAIN attempts) + SumFunctionOnSet(Refund(C), DOMAIN attempts)
  <2> DEFINE after == [a \in DOMAIN attempts |-> Future[a] + Refund(C)[a]]
  <2>1. \A a \in DOMAIN attempts :
           /\ Future[a] \in Int /\ Refund(C)[a] \in Int /\ after[a] = Future[a] + Refund(C)[a]
           /\ Future'[a] \in Int /\ after[a] \in Int /\ Future'[a] <= after[a]
    BY <1>1, <1>2, ReleasedRows DEF BudgetTerms
  <2> HIDE DEF after
  <2>2. IsFiniteSet(DOMAIN attempts)
    BY DEF TablesInv
  <2>3. SumFunctionOnSet(after, DOMAIN attempts)
           = SumFunctionOnSet(Future, DOMAIN attempts) + SumFunctionOnSet(Refund(C), DOMAIN attempts)
    BY <2>1, <2>2, SumPlus
  <2>4. SumFunctionOnSet(Future', DOMAIN attempts) <= SumFunctionOnSet(after, DOMAIN attempts)
    BY <2>1, <2>2, SumMonotone
  <2> QED BY <2>3, <2>4
<1>7. SumFunctionOnSet(Cost, DOMAIN calls)
         = SumFunctionOnSet(Uppers, Back(C)) + SumFunctionOnSet(Cost, rest)
  <2>1. \A c \in Back(C) \union rest : Cost[c] \in Int
    BY <1>1, <1>3 DEF BudgetTerms
  <2>2. SumFunctionOnSet(Cost, Back(C) \union rest)
           = SumFunctionOnSet(Cost, Back(C)) + SumFunctionOnSet(Cost, rest)
    BY <1>3, <2>1, SumUnion
  <2>3. SumFunctionOnSet(Cost, Back(C)) = SumFunctionOnSet(Uppers, Back(C))
    BY <1>3, <1>4, SumSame
  <2> HIDE DEF rest
  <2> QED BY <1>3, <2>2, <2>3
<1>8. SumFunctionOnSet(Cost', DOMAIN calls) = SumFunctionOnSet(Cost, rest)
  <2>1. \A c \in Back(C) \union rest : Cost'[c] \in Int
    BY <1>1, <1>3 DEF BudgetTerms
  <2>2. SumFunctionOnSet(Cost', Back(C) \union rest)
           = SumFunctionOnSet(Cost', Back(C)) + SumFunctionOnSet(Cost', rest)
    BY <1>3, <2>1, SumUnion
  <2>3. \A c \in Back(C) : Cost'[c] = 0
    BY <1>1, <1>3 DEF BudgetTerms
  <2>4. \A c \in rest : Cost'[c] = Cost[c] /\ Cost[c] \in Int
    BY <1>1, <1>3 DEF BudgetTerms
  <2> HIDE DEF rest
  <2>5. SumFunctionOnSet(Cost', Back(C)) = 0
    BY <1>3, <2>3, SumZero
  <2>6. SumFunctionOnSet(Cost', rest) = SumFunctionOnSet(Cost, rest) /\ SumFunctionOnSet(Cost, rest) \in Int
    BY <1>3, <2>4, SumSame, SumInt
  <2> QED BY <1>3, <2>2, <2>5, <2>6
<1>9. SumFunctionOnSet(Extra', DOMAIN calls) = SumFunctionOnSet(Extra, DOMAIN calls)
  <2>1. \A c \in DOMAIN calls : Extra'[c] = Extra[c]
    BY <1>1 DEF BudgetTerms
  <2> QED BY <1>1, <2>1, SumSame DEF BudgetTerms
<1>10. SumFunctionOnSet(Uppers, Back(C)) \in Nat /\ SumFunctionOnSet(Cost, rest) \in Nat
  <2>1. \A c \in rest : Cost[c] \in Nat
    BY <1>1, <1>3 DEF BudgetTerms
  <2> HIDE DEF rest
  <2> QED BY <1>3, <1>4, <2>1, SumNat
<1> HIDE DEF rest
<1> QED BY <1>1, <1>2, <1>5, <1>6, <1>7, <1>8, <1>9, <1>10, BrokerAssumption DEF BudgetTerms

-----------------------------------------------------------------------------
(* What every step but a reservation, a new call and a settlement leaves alone. *)
QuietStep ==
    /\ UNCHANGED usage
    /\ attempts' \in [DOMAIN attempts -> AttemptRow] /\ calls' \in [DOMAIN calls -> CallRow]
    /\ \A c \in DOMAIN calls : /\ SameBooking(calls'[c], calls[c]) /\ calls'[c].actual = calls[c].actual
                               /\ calls'[c].state = "settled" <=> calls[c].state = "settled"
    /\ sender' \in [Calls -> [pc : {"idle", "intent", "send", "answer"}, fence : Nat]]
    /\ reached' \subseteq Calls
    /\ \A c \in Calls \ DOMAIN calls : c \notin reached' /\ sender'[c].pc = "idle"

LEMMA RaisedSame ==
    ASSUME NEW c, usage' = usage, calls'[c].actual = calls[c].actual, calls'[c].upper = calls[c].upper
    PROVE  Raised(c)' = Raised(c)
<1> DEFINE reported(u) == Min({u[e].actual : e \in {x \in DOMAIN u : u[x].call = c}})
<1>1. /\ Raised(c) = (IF calls[c].actual = None THEN 0
                     ELSE calls[c].actual - Min({reported(usage), calls[c].upper}))
      /\ Raised(c)' = (IF calls'[c].actual = None THEN 0
                      ELSE calls'[c].actual - Min({reported(usage'), calls'[c].upper}))
  BY DEF Raised
<1> HIDE DEF reported
<1> QED BY <1>1

LEMMA QuietTables ==
    ASSUME TablesInv, QuietStep
    PROVE  /\ TablesInv' /\ DOMAIN attempts' = DOMAIN attempts /\ DOMAIN calls' = DOMAIN calls
           /\ \A c \in DOMAIN calls : Raised(c)' = Raised(c)
<1>1. DOMAIN attempts' = DOMAIN attempts /\ DOMAIN calls' = DOMAIN calls
  BY DEF QuietStep
<1>2. BrokerTypeOK'
  BY <1>1 DEF QuietStep, TablesInv, BrokerTypeOK
<1>3. ASSUME NEW c \in DOMAIN calls PROVE CallFollows(c)' /\ Raised(c)' = Raised(c)
  <2>1. /\ usage' = usage /\ calls'[c].actual = calls[c].actual /\ calls'[c].upper = calls[c].upper
        /\ calls'[c].attempt = calls[c].attempt
        /\ calls'[c].state = "settled" <=> calls[c].state = "settled"
    BY DEF QuietStep, SameBooking
  <2>2. CallFollows(c)'
    BY <1>1, <2>1 DEF TablesInv, CallFollows
  <2>3. Raised(c)' = Raised(c)
    BY <2>1, RaisedSame
  <2> QED BY <2>2, <2>3
<1> QED BY <1>1, <1>2, <1>3 DEF QuietStep, TablesInv

(* What _release_prepared makes of the calls. *)
LEMMA ReleasedCallRows ==
    ASSUME TablesInv, NEW C
    PROVE  /\ ReleasedCalls(C) \in [DOMAIN calls -> CallRow]
           /\ \A c \in DOMAIN calls :
                 /\ SameBooking(ReleasedCalls(C)[c], calls[c])
                 /\ ReleasedCalls(C)[c].actual = calls[c].actual
                 /\ ReleasedCalls(C)[c].state = IF c \in Back(C) THEN "not_sent" ELSE calls[c].state
<1> DEFINE moved(c) == [calls[c] EXCEPT !.state = "not_sent"]
<1>1. ASSUME NEW c \in DOMAIN calls
      PROVE  /\ calls[c] \in CallRow /\ moved(c) \in CallRow /\ SameBooking(moved(c), calls[c])
             /\ moved(c).actual = calls[c].actual /\ moved(c).state = "not_sent"
  <2>1. calls[c] \in CallRow
    BY RowFacts
  <2> QED BY <2>1 DEF CallRow, SameBooking
<1> HIDE DEF moved
<1>2. ReleasedCalls(C) = [c \in DOMAIN calls |-> IF c \in Back(C) THEN moved(c) ELSE calls[c]]
  BY DEF ReleasedCalls, Back, moved
<1> QED BY <1>1, <1>2 DEF SameBooking

(* _release_prepared with the refund, whatever else is written to the reasons. *)
LEMMA RefundQuiet ==
    ASSUME BrokerInv, QuietStep, NEW C, attempts' = ReleasedAttempts(attempts, C),
           \A c \in DOMAIN calls :
              calls'[c].state = "not_sent" <=> c \in Back(C) \/ calls[c].state = "not_sent"
    PROVE  TablesInv' /\ OverdraftIsReported'
<1>1. TablesInv'
  BY QuietTables DEF BrokerInv
<1>2. \A c \in DOMAIN calls :
         /\ Raised(c)' = Raised(c)
         /\ CallHeld(c)' = (IF c \in Back(C) THEN 0 ELSE CallHeld(c))
  BY QuietTables DEF BrokerInv, QuietStep, SameBooking, CallHeld, Back
<1> QED BY <1>1, <1>2, BudgetReleases, QuietTables DEF BrokerInv

(* No attempt gets more, no call that was given up is taken up again. *)
LEMMA ShrinkQuiet ==
    ASSUME BrokerInv, QuietStep,
           \A a \in DOMAIN attempts : attempts'[a].future <= attempts[a].future,
           \A c \in DOMAIN calls : calls[c].state = "not_sent" => calls'[c].state = "not_sent"
    PROVE  TablesInv' /\ OverdraftIsReported'
<1>1. TablesInv'
  BY QuietTables DEF BrokerInv
<1>2. \A c \in DOMAIN calls : Raised(c)' = Raised(c) /\ CallHeld(c)' <= CallHeld(c)
  BY QuietTables, RowFacts DEF BrokerInv, QuietStep, SameBooking, CallHeld
<1> QED BY <1>1, <1>2, BudgetShrinks, QuietTables DEF BrokerInv

(* Which steps can disturb SentMoneyIsHeld: calls are sent only as send_pending. *)
LEMMA SentKept ==
    ASSUME BrokerInv, QuietStep,
           \A c \in DOMAIN calls :
              calls'[c].state \in {"prepared", "not_sent"} =>
                 /\ calls[c].state \in {"prepared", "not_sent"}
                 /\ c \in reached' => c \in reached
                 /\ sender'[c].pc \in {"send", "answer"} => sender[c].pc \in {"send", "answer"}
    PROVE  SentMoneyIsHeld'
  BY QuietTables DEF BrokerInv, SentMoneyIsHeld

LEMMA ThreadHasCall ==
    ASSUME BrokerInv, NEW c \in Calls, sender[c].pc # "idle"
    PROVE  c \in DOMAIN calls /\ calls[c] \in CallRow
  BY RowFacts DEF BrokerInv, TablesInv

LEMMA AbandonStep ==
    ASSUME BrokerInv, NEW c \in Calls, AbandonIntent(c)
    PROVE  BrokerInv'
<1>1. c \in DOMAIN calls
  BY ThreadHasCall DEF AbandonIntent
<1> DEFINE released == ReleasedCalls({c})
           reason == IF ~Authorized(calls[c].attempt, sender[c].fence) THEN "AUTHORIZATION_INVALID"
                     ELSE IF calls[c].state # "prepared" THEN released[c].reason
                     ELSE "PRICE_UNBOUNDED_OR_EXPIRED"
           row == [released[c] EXCEPT !.reason = reason]
<1>2. /\ attempts' = ReleasedAttempts(attempts, {c})
      /\ calls' = [released EXCEPT ![c] = row]
      /\ sender' = [sender EXCEPT ![c].pc = "idle"] /\ UNCHANGED <<usage, reached, lapsed>>
  BY DEF AbandonIntent
<1>3. /\ released \in [DOMAIN calls -> CallRow]
      /\ \A d \in DOMAIN calls :
            /\ SameBooking(released[d], calls[d]) /\ released[d].actual = calls[d].actual
            /\ released[d].state = IF d \in Back({c}) THEN "not_sent" ELSE calls[d].state
  BY ReleasedCallRows DEF BrokerInv
<1>4. released[c] \in CallRow /\ reason \in Reasons
  <2>1. released[c] \in CallRow
    BY <1>1, <1>3
  <2>2. released[c].reason \in Reasons
    BY <2>1 DEF CallRow, Reasons
  <2> QED BY <2>1, <2>2 DEF Reasons
<1> HIDE DEF released, reason
<1>5. /\ row \in CallRow /\ SameBooking(row, released[c]) /\ row.actual = released[c].actual
      /\ row.state = released[c].state
  BY <1>4 DEF CallRow, SameBooking, Reasons
<1> HIDE DEF row
<1>6. /\ calls' \in [DOMAIN calls -> CallRow]
      /\ \A d \in DOMAIN calls :
            /\ SameBooking(calls'[d], calls[d]) /\ calls'[d].actual = calls[d].actual
            /\ calls'[d].state = IF d \in Back({c}) THEN "not_sent" ELSE calls[d].state
  BY <1>1, <1>2, <1>3, <1>5 DEF SameBooking
<1>7. /\ sender' \in [Calls -> [pc : {"idle", "intent", "send", "answer"}, fence : Nat]]
      /\ \A d \in Calls : sender'[d].pc = (IF d = c THEN "idle" ELSE sender[d].pc)
  BY <1>2 DEF BrokerInv, TablesInv, BrokerTypeOK
<1>8. QuietStep
  BY <1>1, <1>2, <1>6, <1>7, ReleasedRows DEF QuietStep, BrokerInv, TablesInv, BrokerTypeOK, Back
<1>9. TablesInv' /\ OverdraftIsReported'
  BY <1>2, <1>6, <1>8, RefundQuiet
<1>10. SentMoneyIsHeld'
  BY <1>2, <1>6, <1>7, <1>8, SentKept DEF Back, BrokerInv, TablesInv, BrokerTypeOK
<1> QED BY <1>9, <1>10 DEF BrokerInv

LEMMA SubmitSteps ==
    ASSUME BrokerInv, NEW c \in Calls, RecordIntent(c) \/ Post(c) \/ GiveUp(c)
    PROVE  BrokerInv'
<1>1. c \in DOMAIN calls /\ calls[c] \in CallRow
  BY ThreadHasCall DEF RecordIntent, Post, GiveUp
<1> DEFINE intended == [calls[c] EXCEPT !.state = "send_pending"]
           unknown == [calls[c] EXCEPT !.state = "send_unknown", !.reason = "SEND_OUTCOME_UNKNOWN"]
<1>2. /\ intended \in CallRow /\ SameBooking(intended, calls[c]) /\ intended.actual = calls[c].actual
      /\ intended.state = "send_pending"
      /\ unknown \in CallRow /\ SameBooking(unknown, calls[c]) /\ unknown.actual = calls[c].actual
      /\ unknown.state = "send_unknown"
  BY <1>1 DEF CallRow, SameBooking
<1>3. /\ UNCHANGED <<attempts, usage>>
      /\ \/ /\ calls[c].state = "prepared" /\ sender[c].pc = "intent" /\ sender' = [sender EXCEPT ![c].pc = "send"]
            /\ calls' = [calls EXCEPT ![c] = intended] /\ UNCHANGED reached
         \/ /\ sender[c].pc = "send" /\ sender' = [sender EXCEPT ![c].pc = "answer"]
            /\ UNCHANGED calls /\ reached' = reached \union {c}
         \/ /\ sender[c].pc \in {"send", "answer"} /\ sender' = [sender EXCEPT ![c].pc = "idle"]
            /\ UNCHANGED reached
            /\ calls' = IF calls[c].state = "settled" THEN calls ELSE [calls EXCEPT ![c] = unknown]
  BY DEF RecordIntent, Post, GiveUp
<1> HIDE DEF intended, unknown
<1>4. /\ calls' \in [DOMAIN calls -> CallRow]
      /\ \A d \in DOMAIN calls :
            /\ SameBooking(calls'[d], calls[d]) /\ calls'[d].actual = calls[d].actual
            /\ calls'[d].state = "settled" <=> calls[d].state = "settled"
            /\ d # c => calls'[d] = calls[d]
            /\ calls'[d] # calls[d] => calls'[d].state \in {"send_pending", "send_unknown"}
  BY <1>1, <1>2, <1>3 DEF SameBooking, BrokerInv, TablesInv, BrokerTypeOK, SentMoneyIsHeld
<1>5. /\ sender' \in [Calls -> [pc : {"idle", "intent", "send", "answer"}, fence : Nat]]
      /\ \A d \in Calls : d # c => sender'[d] = sender[d]
      /\ sender'[c].pc # sender[c].pc
  BY <1>3 DEF BrokerInv, TablesInv, BrokerTypeOK
<1>6. QuietStep
  BY <1>1, <1>3, <1>4, <1>5 DEF QuietStep, BrokerInv, TablesInv, BrokerTypeOK
<1>7. \A d \in DOMAIN calls : calls[d].state = "not_sent" => calls'[d].state = "not_sent"
  BY <1>1, <1>3, <1>4 DEF BrokerInv, SentMoneyIsHeld
<1>8. TablesInv' /\ OverdraftIsReported'
  <2>1. \A a \in DOMAIN attempts : attempts'[a].future <= attempts[a].future
    BY <1>3, RowFacts DEF BrokerInv
  <2> QED BY <1>6, <1>7, <2>1, ShrinkQuiet
<1>9. SentMoneyIsHeld'
  BY <1>1, <1>2, <1>3, <1>4, <1>5, <1>6, SentKept DEF BrokerInv, TablesInv, BrokerTypeOK, SentMoneyIsHeld
<1> QED BY <1>8, <1>9 DEF BrokerInv

LEMMA RecoverStep ==
    ASSUME BrokerInv, Recover
    PROVE  BrokerInv'
<1> DEFINE released == ReleasedCalls(Calls)
           unknown(c) == [calls[c] EXCEPT !.state = "send_unknown", !.reason = "SEND_OUTCOME_UNKNOWN"]
<1>1. /\ attempts' = ReleasedAttempts(attempts, Calls) /\ UNCHANGED <<usage, sender, reached>>
      /\ calls' = [c \in DOMAIN calls |->
                     IF calls[c].state \in {"send_pending", "send_unknown"} THEN unknown(c) ELSE released[c]]
  BY DEF Recover
<1>2. \A c \in DOMAIN calls :
         /\ unknown(c) \in CallRow /\ SameBooking(unknown(c), calls[c]) /\ unknown(c).actual = calls[c].actual
         /\ unknown(c).state = "send_unknown"
  <2> SUFFICES ASSUME NEW c \in DOMAIN calls
               PROVE  /\ unknown(c) \in CallRow /\ SameBooking(unknown(c), calls[c])
                      /\ unknown(c).actual = calls[c].actual /\ unknown(c).state = "send_unknown"
    OBVIOUS
  <2>1. calls[c] \in CallRow
    BY RowFacts DEF BrokerInv
  <2> QED BY <2>1 DEF CallRow, SameBooking
<1>3. /\ released \in [DOMAIN calls -> CallRow]
      /\ \A d \in DOMAIN calls :
            /\ SameBooking(released[d], calls[d]) /\ released[d].actual = calls[d].actual
            /\ released[d].state = IF d \in Back(Calls) THEN "not_sent" ELSE calls[d].state
  BY ReleasedCallRows DEF BrokerInv
<1> HIDE DEF released, unknown
<1>4. /\ calls' \in [DOMAIN calls -> CallRow]
      /\ \A d \in DOMAIN calls :
            /\ SameBooking(calls'[d], calls[d]) /\ calls'[d].actual = calls[d].actual
            /\ calls'[d].state = IF calls[d].state \in {"send_pending", "send_unknown"} THEN "send_unknown"
                                 ELSE IF d \in Back(Calls) THEN "not_sent" ELSE calls[d].state
  BY <1>1, <1>2, <1>3
<1>5. QuietStep
  BY <1>1, <1>4, ReleasedRows DEF QuietStep, BrokerInv, TablesInv, BrokerTypeOK, Back
<1>6. TablesInv' /\ OverdraftIsReported'
  <2>1. \A c \in DOMAIN calls : calls'[c].state = "not_sent" <=> c \in Back(Calls) \/ calls[c].state = "not_sent"
    BY <1>4 DEF Back
  <2> QED BY <1>1, <1>5, <2>1, RefundQuiet
<1>7. SentMoneyIsHeld'
  BY <1>1, <1>4, <1>5, SentKept DEF Back, BrokerInv
<1> QED BY <1>6, <1>7 DEF BrokerInv

(* finish and revoke: the allowance and the prepared calls go, without a refund. *)
LEMMA EndStep ==
    ASSUME BrokerInv, NEW a \in Attempts, FinishAttempt(a) \/ RevokeAttempt(a)
    PROVE  BrokerInv'
<1> DEFINE finished == [attempts[a] EXCEPT !.state = "finished", !.future = 0]
           revoked == [attempts[a] EXCEPT !.state = "revoked", !.future = 0, !.fence = @ + 1]
           C == {c \in DOMAIN calls : calls[c].attempt = a}
           released == ReleasedCalls(C)
<1>1. /\ a \in DOMAIN attempts /\ calls' = released /\ UNCHANGED <<usage, sender, reached>>
      /\ attempts' = [attempts EXCEPT ![a] = finished] \/ attempts' = [attempts EXCEPT ![a] = revoked]
  BY DEF FinishAttempt, RevokeAttempt
<1>2. attempts[a] \in AttemptRow /\ attempts[a].fence + 1 \in Nat
  BY <1>1, RowFacts DEF AttemptRow, BrokerInv
<1>3. finished \in AttemptRow /\ finished.future = 0
  BY <1>2 DEF AttemptRow
<1>4. revoked \in AttemptRow /\ revoked.future = 0
  BY <1>2 DEF AttemptRow
<1>5. /\ released \in [DOMAIN calls -> CallRow]
      /\ \A d \in DOMAIN calls :
            /\ SameBooking(released[d], calls[d]) /\ released[d].actual = calls[d].actual
            /\ released[d].state = IF d \in Back(C) THEN "not_sent" ELSE calls[d].state
  BY ReleasedCallRows DEF BrokerInv
<1> HIDE DEF released, finished, revoked, C
<1>6. /\ attempts' \in [DOMAIN attempts -> AttemptRow]
      /\ \A b \in DOMAIN attempts : attempts'[b].future <= attempts[b].future
  BY <1>1, <1>3, <1>4, RowFacts DEF BrokerInv, TablesInv, BrokerTypeOK
<1>7. QuietStep
  BY <1>1, <1>5, <1>6 DEF QuietStep, BrokerInv, TablesInv, BrokerTypeOK, Back
<1>8. TablesInv' /\ OverdraftIsReported'
  BY <1>1, <1>5, <1>6, <1>7, ShrinkQuiet
<1>9. SentMoneyIsHeld'
  BY <1>1, <1>5, <1>7, SentKept DEF Back, BrokerInv
<1> QED BY <1>8, <1>9 DEF BrokerInv

LEMMA OutsideStep ==
    ASSUME BrokerInv, BrokerStops \/ (\E a \in Attempts : Lapse(a)) \/ UNCHANGED brokerVars
    PROVE  BrokerInv'
<1>1. /\ UNCHANGED <<attempts, calls, usage, reached>>
      /\ sender' = sender \/ sender' = [c \in Calls |-> [sender[c] EXCEPT !.pc = "idle"]]
  BY DEF BrokerStops, Lapse, brokerVars
<1>2. /\ sender' \in [Calls -> [pc : {"idle", "intent", "send", "answer"}, fence : Nat]]
      /\ \A c \in Calls : sender'[c].pc \in {"idle", sender[c].pc}
  BY <1>1 DEF BrokerInv, TablesInv, BrokerTypeOK
<1>3. QuietStep
  BY <1>1, <1>2 DEF QuietStep, BrokerInv, TablesInv, BrokerTypeOK, SameBooking
<1>4. TablesInv' /\ OverdraftIsReported'
  BY <1>1, <1>3, ShrinkQuiet, RowFacts DEF BrokerInv
<1>5. SentMoneyIsHeld'
  BY <1>1, <1>2, <1>3, SentKept DEF BrokerInv, TablesInv, BrokerTypeOK
<1> QED BY <1>4, <1>5 DEF BrokerInv

LEMMA ReserveStep ==
    ASSUME BrokerInv, NEW a \in Attempts, NEW amount \in Amounts, ReserveAttempt(a, amount)
    PROVE  BrokerInv'
<1> DEFINE row == [state |-> "active", future |-> amount, fence |-> 1]
<1>1. /\ a \notin DOMAIN attempts /\ amount + Held <= Limit
      /\ attempts' = [x \in DOMAIN attempts \union {a} |-> IF x = a THEN row ELSE attempts[x]]
      /\ UNCHANGED <<calls, usage, sender, reached>>
  BY DEF ReserveAttempt, WithRow
<1>2. row \in AttemptRow /\ row.future = amount /\ amount \in Nat
  BY BrokerAssumption DEF AttemptRow
<1> HIDE DEF row
<1>3. /\ DOMAIN attempts' = DOMAIN attempts \union {a} /\ attempts' \in [DOMAIN attempts' -> AttemptRow]
      /\ attempts'[a] = row /\ \A b \in DOMAIN attempts : attempts'[b] = attempts[b]
  BY <1>1, <1>2, RowFacts DEF BrokerInv
<1>4. TablesInv'
  <2>1. BrokerTypeOK'
    BY <1>1, <1>3 DEF BrokerInv, TablesInv, BrokerTypeOK
  <2>2. IsFiniteSet(DOMAIN attempts')
    BY <1>3, FS_AddElement DEF BrokerInv, TablesInv
  <2>3. \A c \in DOMAIN calls : CallFollows(c)'
    BY <1>1, <1>3 DEF BrokerInv, TablesInv, CallFollows
  <2> QED BY <1>1, <2>1, <2>2, <2>3 DEF BrokerInv, TablesInv
<1>5. BudgetTerms /\ BudgetTerms'
  BY <1>4, BudgetTermsHold, BudgetTermsNext DEF BrokerInv
<1>6. SumFunctionOnSet(Future', DOMAIN attempts') = amount + SumFunctionOnSet(Future, DOMAIN attempts)
  <2>1. Future'[a] = amount /\ \A b \in DOMAIN attempts : Future'[b] \in Int /\ Future'[b] = Future[b]
    <3>1. Future'[a] = attempts'[a].future /\ attempts'[a].future = amount
      BY <1>2, <1>3, <1>5 DEF BudgetTerms
    <3>2. \A b \in DOMAIN attempts : Future'[b] = attempts'[b].future /\ Future[b] = attempts[b].future
                                      /\ Future[b] \in Int
      BY <1>3, <1>5 DEF BudgetTerms
    <3> QED BY <1>3, <3>1, <3>2
  <2>2. SumFunctionOnSet(Future', DOMAIN attempts) = SumFunctionOnSet(Future, DOMAIN attempts)
    BY <1>5, <2>1, SumSame DEF BudgetTerms
  <2>3. SumFunctionOnSet(Future', DOMAIN attempts \union {a})
           = Future'[a] + SumFunctionOnSet(Future', DOMAIN attempts)
    BY <1>1, <1>2, <1>5, <2>1, SumAdd DEF BudgetTerms
  <2> QED BY <1>3, <2>1, <2>2, <2>3
<1>7. SumFunctionOnSet(Cost', DOMAIN calls') = SumFunctionOnSet(Cost, DOMAIN calls)
  <2>1. \A c \in DOMAIN calls : Cost'[c] = Cost[c]
    BY <1>1 DEF Cost, CallHeld
  <2> QED BY <1>1, <1>5, <2>1, SumSame DEF BudgetTerms
<1>8. OverdraftIsReported'
  BY <1>1, <1>2, <1>5, <1>6, <1>7, BrokerAssumption DEF BudgetTerms
<1>9. SentMoneyIsHeld'
  BY <1>1 DEF BrokerInv, SentMoneyIsHeld
<1> QED BY <1>4, <1>8, <1>9 DEF BrokerInv

LEMMA PrepareStep ==
    ASSUME BrokerInv, NEW a \in Attempts, NEW c \in Calls, NEW f \in Nat,
           NEW l \in Logical \union {None}, NEW d \in Digests, NEW upper \in Amounts,
           PrepareCall(a, c, f, l, d, upper)
    PROVE  BrokerInv'
<1>0. IsFiniteSet(DOMAIN attempts) /\ IsFiniteSet(DOMAIN calls)
  BY DEF BrokerInv, TablesInv
<1> DEFINE row == [attempt |-> a, state |-> "prepared", upper |-> upper,
                   actual |-> None, logical |-> l, digest |-> d, reason |-> None]
           att == [attempts[a] EXCEPT !.future = @ - upper]
           thread == [pc |-> "intent", fence |-> f]
<1>1. /\ a \in DOMAIN attempts /\ c \notin DOMAIN calls /\ upper <= attempts[a].future
      /\ attempts' = [attempts EXCEPT ![a] = att]
      /\ calls' = [x \in DOMAIN calls \union {c} |-> IF x = c THEN row ELSE calls[x]]
      /\ sender' = [sender EXCEPT ![c] = thread] /\ UNCHANGED <<usage, reached>>
  BY DEF PrepareCall, WithRow
<1>2. /\ row \in CallRow /\ row.state = "prepared" /\ row.upper = upper /\ row.actual = None
      /\ row.attempt = a
  BY BrokerAssumption DEF CallRow
<1>3. attempts[a] \in AttemptRow /\ attempts[a].future \in Nat /\ upper \in Nat
  BY <1>1, RowFacts, BrokerAssumption DEF BrokerInv
<1>4. att \in AttemptRow /\ att.future = attempts[a].future - upper
  <2>1. attempts[a].future - upper \in Nat
    BY <1>1, <1>3
  <2> QED BY <1>3, <2>1, FutureRow
<1>5. thread \in [pc : {"idle", "intent", "send", "answer"}, fence : Nat] /\ thread.pc = "intent"
  OBVIOUS
<1> HIDE DEF row, att, thread
<1>6. /\ DOMAIN attempts' = DOMAIN attempts /\ attempts' \in [DOMAIN attempts -> AttemptRow]
      /\ attempts'[a] = att /\ \A b \in DOMAIN attempts \ {a} : attempts'[b] = attempts[b]
  BY <1>1, <1>4, RowFacts DEF BrokerInv, TablesInv, BrokerTypeOK
<1>7. /\ DOMAIN calls' = DOMAIN calls \union {c} /\ calls' \in [DOMAIN calls' -> CallRow]
      /\ calls'[c] = row /\ \A x \in DOMAIN calls : calls'[x] = calls[x]
  BY <1>1, <1>2, RowFacts DEF BrokerInv
<1>8. TablesInv'
  <2>1. BrokerTypeOK'
    BY <1>1, <1>5, <1>6, <1>7 DEF BrokerInv, TablesInv, BrokerTypeOK
  <2>2. IsFiniteSet(DOMAIN attempts') /\ IsFiniteSet(DOMAIN calls')
    BY <1>6, <1>7, FS_AddElement DEF BrokerInv, TablesInv
  <2>3. \A x \in DOMAIN calls : CallFollows(x)'
    BY <1>1, <1>6, <1>7 DEF BrokerInv, TablesInv, CallFollows
  <2>4. CallFollows(c)'
    BY <1>1, <1>2, <1>6, <1>7 DEF BrokerInv, TablesInv, BrokerTypeOK, CallFollows
  <2>5. \A x \in Calls \ DOMAIN calls' : x \notin reached' /\ sender'[x].pc = "idle"
    BY <1>1, <1>7 DEF BrokerInv, TablesInv, BrokerTypeOK
  <2> QED BY <1>7, <2>1, <2>2, <2>3, <2>4, <2>5 DEF TablesInv
<1>9. BudgetTerms /\ BudgetTerms'
  BY <1>8, BudgetTermsHold, BudgetTermsNext DEF BrokerInv
<1>10. SumFunctionOnSet(Future', DOMAIN attempts') = SumFunctionOnSet(Future, DOMAIN attempts) - upper
  <2>1. /\ \A b \in DOMAIN attempts : Future[b] \in Int
        /\ \A b \in DOMAIN attempts \ {a} : Future'[b] = Future[b]
        /\ Future[a] = attempts[a].future /\ Future'[a] = Future[a] - upper /\ Future'[a] \in Int
    BY <1>1, <1>4, <1>6, <1>9 DEF BudgetTerms
  <2>2. SumFunctionOnSet(Future', DOMAIN attempts)
           = SumFunctionOnSet(Future, DOMAIN attempts) - Future[a] + Future'[a]
    <3> DEFINE atts == DOMAIN attempts
    <3>1. /\ IsFiniteSet(atts) /\ a \in atts /\ \A b \in atts : Future[b] \in Int /\ Future'[a] \in Int
          /\ \A b \in atts \ {a} : Future'[b] = Future[b]
      BY <1>0, <1>1, <2>1
    <3> HIDE DEF atts
    <3>2. SumFunctionOnSet(Future', atts) = SumFunctionOnSet(Future, atts) - Future[a] + Future'[a]
      BY <3>1, SumRewrite
    <3> QED BY <3>2 DEF atts
  <2> QED BY <1>3, <1>6, <1>9, <2>1, <2>2 DEF BudgetTerms
<1>11. SumFunctionOnSet(Cost', DOMAIN calls') = upper + SumFunctionOnSet(Cost, DOMAIN calls)
  <2>1. Cost'[c] = upper /\ \A x \in DOMAIN calls : Cost'[x] = Cost[x] /\ Cost[x] \in Int
    <3>1. CallHeld(c)' = upper
      BY <1>2, <1>7 DEF CallHeld
    <3>2. \A x \in DOMAIN calls : CallHeld(x)' = CallHeld(x)
      BY <1>7 DEF CallHeld
    <3> QED BY <1>7, <1>9, <3>1, <3>2 DEF BudgetTerms
  <2>2. SumFunctionOnSet(Cost', DOMAIN calls) = SumFunctionOnSet(Cost, DOMAIN calls)
    BY <1>9, <2>1, SumSame DEF BudgetTerms
  <2>3. SumFunctionOnSet(Cost', DOMAIN calls \union {c}) = Cost'[c] + SumFunctionOnSet(Cost', DOMAIN calls)
    <3>1. c \notin DOMAIN calls /\ Cost'[c] \in Int /\ \A x \in DOMAIN calls : Cost'[x] \in Int
      BY <1>1, <1>3, <2>1
    <3> QED BY <1>0, <3>1, SumAdd
  <2> QED BY <1>7, <2>1, <2>2, <2>3
<1>12. SumFunctionOnSet(Extra', DOMAIN calls') = SumFunctionOnSet(Extra, DOMAIN calls)
  <2>1. Extra'[c] = 0 /\ \A x \in DOMAIN calls : Extra'[x] = Extra[x] /\ Extra[x] \in Int
    <3>1. Raised(c)' = 0
      BY <1>2, <1>7 DEF Raised
    <3>2. \A x \in DOMAIN calls : Raised(x)' = Raised(x)
      BY <1>1, <1>7, RaisedSame
    <3> QED BY <1>7, <1>9, <3>1, <3>2 DEF BudgetTerms
  <2>2. SumFunctionOnSet(Extra', DOMAIN calls) = SumFunctionOnSet(Extra, DOMAIN calls)
    BY <1>9, <2>1, SumSame DEF BudgetTerms
  <2>3. SumFunctionOnSet(Extra', DOMAIN calls \union {c}) = Extra'[c] + SumFunctionOnSet(Extra', DOMAIN calls)
    <3>1. c \notin DOMAIN calls /\ Extra'[c] \in Int /\ \A x \in DOMAIN calls : Extra'[x] \in Int
      BY <1>1, <2>1
    <3> QED BY <1>0, <3>1, SumAdd
  <2> QED BY <1>7, <1>9, <2>1, <2>2, <2>3 DEF BudgetTerms
<1>13. OverdraftIsReported'
  BY <1>3, <1>9, <1>10, <1>11, <1>12, BrokerAssumption DEF BudgetTerms, BrokerInv
<1>14. SentMoneyIsHeld'
  BY <1>1, <1>5, <1>7 DEF BrokerInv, SentMoneyIsHeld, TablesInv, BrokerTypeOK
<1> QED BY <1>8, <1>13, <1>14 DEF BrokerInv

-----------------------------------------------------------------------------
(* The reports about a call. *)
Reported(u, c) == {u[e].actual : e \in {x \in DOMAIN u : u[x].call = c}}

LEMMA RaisedFrom ==
    ASSUME NEW c
    PROVE  /\ Raised(c) = IF calls[c].actual = None THEN 0
                          ELSE calls[c].actual - Min({Min(Reported(usage, c)), calls[c].upper})
           /\ Raised(c)' = IF calls'[c].actual = None THEN 0
                           ELSE calls'[c].actual - Min({Min(Reported(usage', c)), calls'[c].upper})
  BY DEF Raised, Reported

(* What a report that does not lower the total adds to what was reported above the bound. *)
LEMMA RaisedByReport ==
    ASSUME TablesInv, NEW c \in DOMAIN calls, NEW e, e \notin DOMAIN usage, NEW actual \in Nat,
           calls[c].actual # None => actual >= calls[c].actual,
           usage' = WithRow(usage, e, [call |-> c, actual |-> actual]),
           calls'[c].actual = actual, calls'[c].upper = calls[c].upper
    PROVE  /\ Raised(c)' - Raised(c) =
                 IF calls[c].actual # None THEN actual - calls[c].actual
                 ELSE IF actual <= calls[c].upper THEN 0 ELSE actual - calls[c].upper
           /\ \A d \in DOMAIN calls \ {c} : Reported(usage', d) = Reported(usage, d)
<1>1. /\ DOMAIN usage' = DOMAIN usage \union {e} /\ usage'[e] = [call |-> c, actual |-> actual]
      /\ \A x \in DOMAIN usage : usage'[x] = usage[x]
  BY DEF WithRow
<1>2. Reported(usage', c) = Reported(usage, c) \union {actual}
  BY <1>1 DEF Reported
<1>3. \A d \in DOMAIN calls \ {c} : Reported(usage', d) = Reported(usage, d)
  BY <1>1 DEF Reported
<1>4. calls[c].upper \in Nat /\ calls[c].actual \in Nat \union {None} /\ actual # None
  BY RowFacts, BrokerAssumption
<1> DEFINE old == Reported(usage, c)
           upper == calls[c].upper
<1>5. CASE calls[c].actual = None
  <2>1. old = {}
    BY <1>5 DEF Reported, TablesInv, CallFollows
  <2>2. Min(Reported(usage', c)) = actual
    <3>1. Reported(usage', c) = {actual} /\ {actual} \in SUBSET Nat
      BY <1>2, <2>1
    <3>2. Min({actual}) \in {actual}
      BY <3>1, MinOfNat
    <3> QED BY <3>1, <3>2
  <2>3. Min({actual, upper}) = IF actual <= upper THEN actual ELSE upper
    <3>1. {actual, upper} \in SUBSET Nat
      BY <1>4
    <3>2. /\ Min({actual, upper}) \in {actual, upper}
          /\ Min({actual, upper}) <= actual /\ Min({actual, upper}) <= upper
      BY <3>1, MinOfNat
    <3> QED BY <1>4, <3>2
  <2>4. Raised(c) = 0
    BY <1>5 DEF Raised
  <2>5. Raised(c)' = actual - Min({actual, upper})
    BY <1>4, <2>2, RaisedFrom
  <2> QED BY <1>3, <1>4, <1>5, <2>3, <2>4, <2>5
<1>6. CASE calls[c].actual # None
  <2>1. PICK x \in DOMAIN usage : usage[x].call = c /\ usage[x].actual <= calls[c].actual
    BY <1>6 DEF TablesInv, CallFollows
  <2>2. old \in SUBSET Nat /\ usage[x].actual \in old
    BY <2>1 DEF Reported, TablesInv, BrokerTypeOK
  <2>3. Min(old \union {actual}) = Min(old) /\ Min(old) \in Nat
    <3> HIDE DEF old
    <3>1. Min(old) \in old /\ \A y \in old : Min(old) <= y
      BY <2>2, MinOfNat
    <3>2. old \union {actual} \in SUBSET Nat /\ old \union {actual} # {}
      BY <2>2
    <3>3. /\ Min(old \union {actual}) \in old \union {actual}
          /\ \A y \in old \union {actual} : Min(old \union {actual}) <= y
      BY <3>2, MinOfNat
    <3>4. usage[x].actual <= actual /\ usage[x].actual \in Nat /\ Min(old) <= usage[x].actual
      <4>1. calls[c].actual \in Nat /\ actual >= calls[c].actual
        BY <1>4, <1>6
      <4>2. usage[x].actual \in Nat /\ Min(old) <= usage[x].actual
        BY <2>2, <3>1
      <4>3. usage[x].actual <= calls[c].actual
        BY <2>1
      <4> QED BY <4>1, <4>2, <4>3
    <3>5. Min(old) <= actual /\ Min(old) \in Nat
      <4>1. Min(old) \in Nat
        BY <2>2, <3>1
      <4> QED BY <3>4, <4>1
    <3>6. Min(old \union {actual}) \in Nat /\ Min(old \union {actual}) <= Min(old)
      BY <3>1, <3>2, <3>3
    <3>7. Min(old) <= Min(old \union {actual})
      BY <3>1, <3>3, <3>5
    <3> QED BY <3>5, <3>6, <3>7
  <2> DEFINE least == Min({Min(old), upper})
  <2>4. least \in Nat
    <3>1. {Min(old), upper} \in SUBSET Nat
      BY <1>4, <2>3
    <3>2. least \in {Min(old), upper}
      BY <3>1, MinOfNat
    <3> QED BY <3>1, <3>2
  <2>5. Raised(c) = calls[c].actual - least
    BY <1>6, RaisedFrom
  <2>6. Raised(c)' = actual - least
    BY <1>2, <1>4, <2>3, RaisedFrom
  <2> HIDE DEF least
  <2> QED BY <1>3, <1>4, <1>6, <2>4, <2>5, <2>6
<1> QED BY <1>5, <1>6

(* The refund of a settlement is what the call no longer holds, never more. *)
LEMMA SettledRow ==
    ASSUME NEW att \in AttemptRow, NEW call \in CallRow, NEW actual \in Nat,
           call.actual # None => actual >= call.actual
    PROVE  /\ SettledAttempt(att, call, actual) \in AttemptRow
           /\ SettledAttempt(att, call, actual).future + actual <=
                 IF call.actual # None THEN att.future + actual
                 ELSE IF actual <= call.upper THEN att.future + call.upper
                 ELSE att.future + actual
<1> DEFINE before == IF call.actual = None THEN call.upper ELSE call.actual
           left == att.future + before - actual
           rest == IF left < 0 THEN 0 ELSE left
           suspended == [att EXCEPT !.state = "suspended", !.future = 0]
           kept == [att EXCEPT !.future = rest]
<1>1. /\ att.future \in Nat /\ call.upper \in Nat /\ call.actual \in Nat \union {None}
  BY DEF AttemptRow, CallRow
<1>2. before \in Nat /\ rest \in Nat
  BY <1>1
<1>3. suspended \in AttemptRow /\ suspended.future = 0
  BY DEF AttemptRow
<1>4. kept \in AttemptRow /\ kept.future = rest
  <2> HIDE DEF rest
  <2> QED BY <1>2, FutureRow
<1>5. SettledAttempt(att, call, actual) =
         IF att.state # "active" THEN att ELSE IF actual > call.upper THEN suspended ELSE kept
  BY DEF SettledAttempt
<1> HIDE DEF suspended, kept
<1> QED BY <1>1, <1>2, <1>3, <1>4, <1>5

LEMMA SettleStep ==
    ASSUME BrokerInv, NEW c \in Calls, NEW e \in Events, NEW actual \in Amounts,
           SettleAnswer(c, e, actual) \/ SettleReport(c, e, actual)
    PROVE  BrokerInv'
<1> DEFINE a == calls[c].attempt
           reason == IF actual > calls[c].upper THEN "COST_BOUND_EXCEEDED" ELSE calls[c].reason
           row == [calls[c] EXCEPT !.state = "settled", !.actual = actual, !.reason = reason]
           att == SettledAttempt(attempts[a], calls[c], actual)
           report == [call |-> c, actual |-> actual]
<1>1. /\ e \notin DOMAIN usage /\ c \in DOMAIN calls
      /\ calls[c].state \in {"send_pending", "send_unknown", "settled"}
      /\ calls[c].actual # None => actual >= calls[c].actual
  BY DEF SettleAnswer, SettleReport, Settle, Settleable
<1>2. /\ usage' = WithRow(usage, e, report) /\ UNCHANGED reached
      /\ calls' = [calls EXCEPT ![c] = row] /\ attempts' = [attempts EXCEPT ![a] = att]
      /\ sender' = sender \/ sender' = [sender EXCEPT ![c].pc = "idle"]
  BY DEF SettleAnswer, SettleReport, Settle
<1>3. /\ a \in DOMAIN attempts /\ attempts[a] \in AttemptRow /\ attempts[a].future \in Nat
      /\ calls[c] \in CallRow /\ calls[c].upper \in Nat /\ calls[c].actual \in Nat \union {None}
      /\ actual \in Nat /\ actual # None
  BY <1>1, RowFacts, BrokerAssumption DEF BrokerInv
<1>4. /\ row \in CallRow /\ SameBooking(row, calls[c]) /\ row.actual = actual /\ row.state = "settled"
  <2>1. calls[c] \in CallRow /\ actual \in Nat
    BY <1>3
  <2>2. reason \in Reasons
    BY <2>1 DEF CallRow, Reasons
  <2> HIDE DEF reason
  <2> QED BY <2>1, <2>2 DEF CallRow, SameBooking, Reasons
<1>5. /\ att \in AttemptRow
      /\ att.future + actual <= IF calls[c].actual # None THEN attempts[a].future + actual
                               ELSE IF actual <= calls[c].upper THEN attempts[a].future + calls[c].upper
                               ELSE attempts[a].future + actual
  BY <1>1, <1>3, SettledRow
<1> HIDE DEF row, att, a
<1>6. /\ DOMAIN attempts' = DOMAIN attempts /\ attempts' \in [DOMAIN attempts -> AttemptRow]
      /\ attempts'[a] = att /\ \A b \in DOMAIN attempts \ {a} : attempts'[b] = attempts[b]
  BY <1>2, <1>3, <1>5 DEF BrokerInv, TablesInv, BrokerTypeOK
<1>7. /\ DOMAIN calls' = DOMAIN calls /\ calls' \in [DOMAIN calls -> CallRow]
      /\ calls'[c] = row /\ \A d \in DOMAIN calls \ {c} : calls'[d] = calls[d]
  BY <1>1, <1>2, <1>4 DEF BrokerInv, TablesInv, BrokerTypeOK
<1>8. /\ DOMAIN usage' = DOMAIN usage \union {e} /\ usage'[e] = report
      /\ \A x \in DOMAIN usage : usage'[x] = usage[x]
      /\ usage' \in [DOMAIN usage' -> [call : DOMAIN calls, actual : Nat]]
  BY <1>1, <1>2, <1>3 DEF WithRow, BrokerInv, TablesInv, BrokerTypeOK
<1>9. /\ sender' \in [Calls -> [pc : {"idle", "intent", "send", "answer"}, fence : Nat]]
      /\ \A d \in Calls : sender'[d].pc \in {"idle", sender[d].pc}
  BY <1>2 DEF BrokerInv, TablesInv, BrokerTypeOK
<1>10. TablesInv'
  <2>1. BrokerTypeOK'
    BY <1>2, <1>6, <1>7, <1>8, <1>9 DEF BrokerInv, TablesInv, BrokerTypeOK
  <2>2. \A d \in DOMAIN calls \ {c} : CallFollows(d)'
    <3> SUFFICES ASSUME NEW d \in DOMAIN calls \ {c} PROVE CallFollows(d)'
      OBVIOUS
    <3>1. CallFollows(d) /\ calls'[d] = calls[d] /\ usage'[e].call # d
      BY <1>7, <1>8 DEF BrokerInv, TablesInv
    <3> QED BY <1>6, <1>8, <3>1 DEF CallFollows
  <2>3. CallFollows(c)'
    <3>1. usage'[e].call = c /\ usage'[e].actual = actual
      BY <1>8
    <3> QED BY <1>3, <1>4, <1>6, <1>7, <1>8, <3>1 DEF CallFollows, SameBooking, a
  <2>4. \A d \in Calls \ DOMAIN calls : d \notin reached' /\ sender'[d].pc = "idle"
    BY <1>2, <1>9 DEF BrokerInv, TablesInv
  <2> QED BY <1>6, <1>7, <2>1, <2>2, <2>3, <2>4 DEF BrokerInv, TablesInv
<1>11. BudgetTerms /\ BudgetTerms'
  BY <1>10, BudgetTermsHold, BudgetTermsNext DEF BrokerInv
<1>12. IsFiniteSet(DOMAIN attempts) /\ IsFiniteSet(DOMAIN calls)
  BY DEF BrokerInv, TablesInv
<1>13. SumFunctionOnSet(Future', DOMAIN attempts)
          = SumFunctionOnSet(Future, DOMAIN attempts) - attempts[a].future + att.future
  <2> DEFINE atts == DOMAIN attempts
  <2>1. /\ IsFiniteSet(atts) /\ a \in atts /\ \A b \in atts : Future[b] \in Int /\ Future'[a] \in Int
        /\ \A b \in atts \ {a} : Future'[b] = Future[b]
    BY <1>3, <1>6, <1>11, <1>12 DEF BudgetTerms
  <2>2. Future[a] = attempts[a].future /\ Future'[a] = att.future
    BY <1>3, <1>6, <1>11 DEF BudgetTerms
  <2> HIDE DEF atts
  <2>3. SumFunctionOnSet(Future', atts) = SumFunctionOnSet(Future, atts) - Future[a] + Future'[a]
    BY <2>1, SumRewrite
  <2> QED BY <2>2, <2>3 DEF atts
<1>14. SumFunctionOnSet(Cost', DOMAIN calls)
          = SumFunctionOnSet(Cost, DOMAIN calls)
            - (IF calls[c].actual = None THEN calls[c].upper ELSE calls[c].actual) + actual
  <2> DEFINE ids == DOMAIN calls
  <2>1. \A d \in DOMAIN calls \ {c} : CallHeld(d)' = CallHeld(d)
    BY <1>7 DEF CallHeld
  <2>2. /\ CallHeld(c) = (IF calls[c].actual = None THEN calls[c].upper ELSE calls[c].actual)
        /\ CallHeld(c)' = actual
    BY <1>1, <1>3, <1>4, <1>7 DEF CallHeld
  <2>3. /\ IsFiniteSet(ids) /\ c \in ids /\ \A d \in ids : Cost[d] \in Int /\ Cost'[c] \in Int
        /\ \A d \in ids \ {c} : Cost'[d] = Cost[d]
    BY <1>1, <1>7, <1>11, <1>12, <2>1 DEF BudgetTerms
  <2>4. Cost[c] = CallHeld(c) /\ Cost'[c] = actual
    BY <1>1, <1>7, <1>11, <2>2 DEF BudgetTerms
  <2> HIDE DEF ids
  <2>5. SumFunctionOnSet(Cost', ids) = SumFunctionOnSet(Cost, ids) - Cost[c] + Cost'[c]
    BY <2>3, SumRewrite
  <2> QED BY <2>2, <2>4, <2>5 DEF ids
<1>15. SumFunctionOnSet(Extra', DOMAIN calls)
          = SumFunctionOnSet(Extra, DOMAIN calls)
            + (IF calls[c].actual # None THEN actual - calls[c].actual
               ELSE IF actual <= calls[c].upper THEN 0 ELSE actual - calls[c].upper)
  <2> DEFINE ids == DOMAIN calls
             raise == IF calls[c].actual # None THEN actual - calls[c].actual
                      ELSE IF actual <= calls[c].upper THEN 0 ELSE actual - calls[c].upper
  <2>1. /\ calls'[c].actual = actual /\ calls'[c].upper = calls[c].upper
        /\ usage' = WithRow(usage, e, [call |-> c, actual |-> actual]) /\ TablesInv
    BY <1>2, <1>4, <1>7 DEF SameBooking, BrokerInv
  <2>2. /\ Raised(c)' - Raised(c) = raise
        /\ \A d \in DOMAIN calls \ {c} : Reported(usage', d) = Reported(usage, d)
    BY <1>1, <1>3, <2>1, RaisedByReport
  <2>3. \A d \in DOMAIN calls \ {c} : Raised(d)' = Raised(d)
    BY <1>7, <2>2, RaisedFrom
  <2>4. /\ IsFiniteSet(ids) /\ c \in ids /\ \A d \in ids : Extra[d] \in Int /\ Extra'[c] \in Int
        /\ \A d \in ids \ {c} : Extra'[d] = Extra[d]
    BY <1>1, <1>7, <1>11, <1>12, <2>3 DEF BudgetTerms
  <2>5. Extra[c] = Raised(c) /\ Extra'[c] = Raised(c)'
    BY <1>1, <1>7, <1>11 DEF BudgetTerms
  <2>6. raise \in Int /\ SumFunctionOnSet(Extra, ids) \in Int /\ Extra[c] \in Int /\ Extra'[c] \in Int
    BY <1>1, <1>3, <1>11, <2>4 DEF BudgetTerms
  <2> HIDE DEF ids, raise
  <2>7. SumFunctionOnSet(Extra', ids) = SumFunctionOnSet(Extra, ids) - Extra[c] + Extra'[c]
    BY <2>4, SumRewrite
  <2>8. Extra'[c] - Extra[c] = raise
    BY <2>2, <2>5
  <2> QED BY <2>6, <2>7, <2>8 DEF ids, raise
<1>16. OverdraftIsReported'
  <2>1. att.future \in Nat
    BY <1>5 DEF AttemptRow
  <2>2. /\ SumFunctionOnSet(Future, DOMAIN attempts) \in Nat /\ SumFunctionOnSet(Cost, DOMAIN calls) \in Nat
        /\ SumFunctionOnSet(Extra, DOMAIN calls) \in Nat
        /\ SumFunctionOnSet(Future, DOMAIN attempts) + SumFunctionOnSet(Cost, DOMAIN calls)
              <= Limit + SumFunctionOnSet(Extra, DOMAIN calls)
    BY <1>11 DEF BudgetTerms, BrokerInv
  <2>3. SumFunctionOnSet(Future', DOMAIN attempts) + SumFunctionOnSet(Cost', DOMAIN calls)
           <= Limit + SumFunctionOnSet(Extra', DOMAIN calls)
    BY <1>3, <1>5, <1>13, <1>14, <1>15, <2>1, <2>2, BrokerAssumption
  <2> QED BY <1>6, <1>7, <1>11, <2>3 DEF BudgetTerms
<1>17. SentMoneyIsHeld'
  BY <1>2, <1>4, <1>7, <1>9 DEF BrokerInv, SentMoneyIsHeld, TablesInv, BrokerTypeOK
<1> QED BY <1>10, <1>16, <1>17 DEF BrokerInv

LEMMA BrokerInvariance == BrokerSpec => []BrokerInv
<1>1. BrokerInit => BrokerInv
  <2> SUFFICES ASSUME BrokerInit PROVE BrokerInv
    OBVIOUS
  <2>1. /\ DOMAIN attempts = {} /\ DOMAIN calls = {} /\ DOMAIN usage = {} /\ reached = {}
        /\ attempts = [x \in {} |-> 0] /\ calls = [x \in {} |-> 0] /\ usage = [x \in {} |-> 0]
    BY DEF BrokerInit
  <2>2. sender = [c \in Calls |-> [pc |-> "idle", fence |-> 0]]
    BY DEF BrokerInit
  <2>3. TablesInv
    BY <2>1, <2>2, FS_EmptySet DEF TablesInv, BrokerTypeOK
  <2>4. OverdraftIsReported
    <3>1. BudgetTerms
      BY <2>3, BudgetTermsHold
    <3> QED BY <2>1, <3>1, SumEmpty, BrokerAssumption DEF BudgetTerms
  <2> QED BY <2>1, <2>3, <2>4 DEF BrokerInv, SentMoneyIsHeld
<1>2. BrokerInv /\ [BrokerNext]_brokerVars => BrokerInv'
  <2> SUFFICES ASSUME BrokerInv, [BrokerNext]_brokerVars PROVE BrokerInv'
    OBVIOUS
  <2>1. ASSUME NEW a \in Attempts, NEW m \in Amounts, ReserveAttempt(a, m) PROVE BrokerInv'
    BY <2>1, ReserveStep
  <2>2. ASSUME NEW a \in Attempts, NEW c \in Calls, NEW f \in 1 .. MaxRevocations,
               NEW l \in Logical \union {None}, NEW d \in Digests, NEW u \in Amounts,
               PrepareCall(a, c, f, l, d, u)
        PROVE  BrokerInv'
    <3>1. f \in Nat
      BY DEF MaxRevocations
    <3> QED BY <2>2, <3>1, PrepareStep
  <2>3. ASSUME NEW c \in Calls, SubmitStep(c) PROVE BrokerInv'
    BY <2>3, AbandonStep, SubmitSteps, SettleStep DEF SubmitStep
  <2>4. ASSUME NEW c \in Calls, NEW e \in Events, NEW m \in Amounts, SettleReport(c, e, m)
        PROVE  BrokerInv'
    BY <2>4, SettleStep
  <2>5. CASE Recover
    BY <2>5, RecoverStep
  <2>6. ASSUME NEW a \in Attempts, FinishAttempt(a) \/ RevokeAttempt(a) PROVE BrokerInv'
    BY <2>6, EndStep
  <2>7. CASE BrokerStops \/ (\E a \in Attempts : Lapse(a)) \/ UNCHANGED brokerVars
    BY <2>7, OutsideStep
  <2> QED BY <2>1, <2>2, <2>3, <2>4, <2>5, <2>6, <2>7 DEF BrokerNext
<1> QED BY <1>1, <1>2, PTL DEF BrokerSpec

(***************************************************************************)
(* Nothing sent is forgotten and nothing is created: a call the provider   *)
(* received stays booked, and the budget is exceeded by no more than the   *)
(* provider reported.                                                      *)
(***************************************************************************)
THEOREM MoneyIsKept == BrokerSpec => []MoneyIsAccounted
<1>1. BrokerInv => MoneyIsAccounted
  BY DEF BrokerInv, MoneyIsAccounted
<1> QED BY <1>1, BrokerInvariance, PTL

-----------------------------------------------------------------------------
(***************************************************************************)
(* The checks of a candidate.  The child of a row and the runner's result  *)
(* tell how far the check came; the ledger's row follows them late and     *)
(* goes back to observed, so what it says is tied to the result here: a    *)
(* stop that is known was published, and is published once.                *)
(***************************************************************************)
CheckPhases ==
    {"prepared", "claimed", "host_prepared", "host_start_claimed", "host_started", "native_claimed",
     "reconciliation_required", "observed", "evidence_submit_claimed", "recorded", "cancelled"}
CheckRow ==
    [phase : CheckPhases, claimed : BOOLEAN, native : BOOLEAN, observed : Stops \union {None},
     cleaned : BOOLEAN, submit : BOOLEAN, evidence : {"judged", "unknown", None}]
ResultRow ==
    [claimed : BOOLEAN, cancelled : BOOLEAN, native : {"running", "ended", None}, stop : Stops \union {None}]

(* The row against the result: what was observed is the published stop. *)
Observes(x, y) ==
    /\ x.observed # None => x.observed = y.stop
    /\ x.evidence = "judged" => x.observed = "confirmed"
    /\ x.cleaned => around.cancel /\ (x.native => y.stop \in {"confirmed", "not_started"})

RowsInv ==
    /\ DOMAIN rows \subseteq Rows
    /\ \A r \in DOMAIN rows : rows[r] \in CheckRow /\ Observes(rows[r], results[r])

(* The child against the result: it starts the process at most once, and publishes last. *)
ChildFits(c, y) ==
    /\ c \in {None, "registered", "guarded", "claimed", "bound"} => y.native = None /\ y.stop = None
    /\ c = "running" => y.stop = None
    /\ y.stop = "confirmed" => y.native = "ended"
    /\ y.stop = "not_started" => y.native = None

ChildrenInv ==
    /\ checkers \in [Rows -> CheckerStates \union {None}] /\ results \in [Rows -> ResultRow]
    /\ \A r \in Rows : ChildFits(checkers[r], results[r])

(* Past the native claim. *)
Beyond(c, y) == c \in {"claimed", "bound", "running", "published"} \/ y.native # None \/ y.stop # None

NativeInv ==
    \A r \in Rows :
        /\ checkers[r] # None => r \in DOMAIN rows
        /\ Beyond(checkers[r], results[r]) => r \in DOMAIN rows /\ rows[r].native

InForce(r) == subject # None /\ CheckIsCurrent(r) /\ ~TransitionPending
CurrentInv == \A r \in Rows : results[r].native = "running" => InForce(r)

EvidenceSound(e) ==
    /\ e.row \in DOMAIN rows /\ rows[e.row].submit /\ e.row \notin submitted
    /\ e.status \in {"judged", "unknown"} /\ (e.status = "judged" => rows[e.row].observed = "confirmed")

EvidenceInv ==
    /\ checkEvidence \in Seq([row : Rows, status : {"judged", "unknown"}])
    /\ \A n \in DOMAIN checkEvidence : EvidenceSound(checkEvidence[n])
    /\ \A m, n \in DOMAIN checkEvidence : checkEvidence[m].row = checkEvidence[n].row => m = n
    /\ \A r \in submitted : r \in DOMAIN rows /\ rows[r].submit

AroundInv ==
    around \in [cancel : BOOLEAN, approved : BOOLEAN, qualified : 1 .. Len(Qualifications), late : BOOLEAN]

(* The subject, its transition and the series of candidates. *)
Unmade == \A n \in DOMAIN series : series[n] # transition.id
Made == series[subject.revision + 1] = transition.id

SeriesInv ==
    /\ series \in Seq(Nat) /\ transitions \in Nat
    /\ \A n \in DOMAIN series : series[n] <= transitions
    /\ \A m, n \in DOMAIN series : series[m] = series[n] => m = n

TransitionInv ==
    /\ transition # None =>
          /\ subject # None /\ transition \in TransitionRow /\ transition.id \in 1 .. transitions
    /\ TransitionPending => transition.expected = subject.revision /\ subject.revision < MaxSubjects
    /\ ~TransitionPending /\ subject # None => Len(series) = subject.revision
    /\ transition # None /\ transition.phase = "prepared" => Len(series) = subject.revision /\ Unmade
    /\ transition # None /\ transition.phase = "rebind_claimed" =>
          \/ Len(series) = subject.revision /\ Unmade
          \/ Len(series) = subject.revision + 1 /\ Made /\ claimers = {}
    /\ transition # None /\ transition.phase = "ready" => Len(series) = subject.revision + 1 /\ Made
    /\ claimers # {} =>
          transition # None /\ transition.phase = "rebind_claimed" /\ claimers = {transition.id}

SubjectInv ==
    /\ subject = None => DOMAIN rows = {} /\ transition = None /\ Len(series) = 1
    /\ subject # None => subject \in SubjectRow /\ subject.revision \in 1 .. MaxSubjects

ChecksInv ==
    /\ RowsInv /\ ChildrenInv /\ NativeInv /\ CurrentInv /\ EvidenceInv /\ AroundInv
    /\ SeriesInv /\ TransitionInv /\ SubjectInv

subjectVars == <<subject, transition, transitions, claimers, series>>

(* A row only gains claims and, once confirmed, stays so. *)
Later(x, y) ==
    /\ y \in CheckRow /\ (x.native => y.native) /\ (x.submit => y.submit)
    /\ x.observed = "confirmed" => y.observed = "confirmed"

RowsGain == DOMAIN rows \subseteq DOMAIN rows' /\ \A r \in DOMAIN rows : Later(rows[r], rows'[r])

LEMMA EvidenceStays ==
    ASSUME EvidenceInv, RowsGain, UNCHANGED <<checkEvidence, submitted>>
    PROVE  EvidenceInv'
<1>1. ASSUME NEW n \in DOMAIN checkEvidence PROVE EvidenceSound(checkEvidence[n])'
  BY <1>1 DEF EvidenceInv, EvidenceSound, RowsGain, Later
<1>2. \A r \in submitted : r \in DOMAIN rows' /\ rows'[r].submit
  BY DEF EvidenceInv, RowsGain, Later
<1> QED BY <1>1, <1>2 DEF EvidenceInv

LEMMA NativeStays ==
    ASSUME NativeInv, RowsGain, UNCHANGED <<checkers, results>>
    PROVE  NativeInv'
  BY DEF NativeInv, Beyond, RowsGain, Later

LEMMA SubjectStays ==
    ASSUME SeriesInv, TransitionInv, SubjectInv, UNCHANGED subjectVars, DOMAIN rows' = DOMAIN rows
    PROVE  SeriesInv' /\ TransitionInv' /\ SubjectInv'
  BY DEF subjectVars, SeriesInv, TransitionInv, SubjectInv, TransitionPending, Unmade, Made

LEMMA CurrentStays ==
    ASSUME CurrentInv, UNCHANGED subjectVars, UNCHANGED results
    PROVE  CurrentInv'
  BY DEF subjectVars, CurrentInv, InForce, CheckIsCurrent, TransitionPending

(* One row of the ledger is saved. *)
LEMMA RowSaved ==
    ASSUME RowsInv, NEW r \in DOMAIN rows, NEW x, SaveRow(r, x), Later(rows[r], x),
           Observes(x, results[r]), UNCHANGED <<results, around>>
    PROVE  RowsInv' /\ RowsGain /\ DOMAIN rows' = DOMAIN rows /\ rows'[r] = x
<1>1. /\ DOMAIN rows' = DOMAIN rows /\ rows'[r] = x
      /\ \A q \in DOMAIN rows : q # r => rows'[q] = rows[q]
  BY DEF SaveRow, WithRow
<1>2. ASSUME NEW q \in DOMAIN rows PROVE Later(rows[q], rows'[q])
  <2>1. CASE q = r
    BY <1>1, <2>1
  <2>2. CASE q # r
    BY <1>1, <2>2 DEF RowsInv, Later
  <2> QED BY <2>1, <2>2
<1>3. ASSUME NEW q \in DOMAIN rows PROVE rows'[q] \in CheckRow /\ Observes(rows[q], results[q])'
  <2>1. CASE q = r
    BY <1>1, <2>1 DEF Later, Observes
  <2>2. CASE q # r
    BY <1>1, <2>2 DEF RowsInv, Observes
  <2> QED BY <2>1, <2>2
<1> QED BY <1>1, <1>2, <1>3 DEF RowsInv, RowsGain

LEMMA RowStep ==
    ASSUME ChecksInv, NEW r \in DOMAIN rows, NEW x, SaveRow(r, x), Later(rows[r], x),
           Observes(x, results[r]), UNCHANGED subjectVars,
           UNCHANGED <<checkers, results, submitted, checkEvidence, around>>
    PROVE  ChecksInv'
<1>1. RowsInv' /\ RowsGain /\ DOMAIN rows' = DOMAIN rows
  BY RowSaved DEF ChecksInv
<1>2. EvidenceInv' /\ NativeInv' /\ SeriesInv' /\ TransitionInv' /\ SubjectInv' /\ CurrentInv'
  BY <1>1, EvidenceStays, NativeStays, SubjectStays, CurrentStays DEF ChecksInv
<1>3. ChildrenInv' /\ AroundInv'
  BY DEF ChecksInv, ChildrenInv, AroundInv
<1> QED BY <1>1, <1>2, <1>3 DEF ChecksInv

(* The child or the result of one check moves. *)
LEMMA ResultMoves ==
    ASSUME ChecksInv, NEW r \in Rows, NEW c \in CheckerStates \union {None}, NEW y \in ResultRow,
           checkers' = [checkers EXCEPT ![r] = c], results' = [results EXCEPT ![r] = y],
           UNCHANGED rows, UNCHANGED subjectVars, UNCHANGED <<submitted, checkEvidence, around>>,
           ChildFits(c, y), Beyond(c, y) => r \in DOMAIN rows /\ rows[r].native, c # None => r \in DOMAIN rows,
           r \in DOMAIN rows => Observes(rows[r], y),
           y.native = "running" => results[r].native = "running" \/ InForce(r)
    PROVE  ChecksInv'
<1>1. /\ checkers' \in [Rows -> CheckerStates \union {None}] /\ results' \in [Rows -> ResultRow]
      /\ checkers'[r] = c /\ results'[r] = y
      /\ \A q \in Rows : q # r => checkers'[q] = checkers[q] /\ results'[q] = results[q]
  BY DEF ChecksInv, ChildrenInv
<1>2. ASSUME NEW q \in Rows PROVE ChildFits(checkers'[q], results'[q])
  <2>1. CASE q = r
    BY <1>1, <2>1
  <2>2. CASE q # r
    BY <1>1, <2>2 DEF ChecksInv, ChildrenInv
  <2> QED BY <2>1, <2>2
<1>3. ChildrenInv'
  BY <1>1, <1>2 DEF ChildrenInv, ChildFits
<1>4. ASSUME NEW q \in Rows, Beyond(checkers'[q], results'[q]) PROVE q \in DOMAIN rows /\ rows[q].native
  <2>1. CASE q = r
    BY <1>1, <1>4, <2>1
  <2>2. CASE q # r
    BY <1>1, <1>4, <2>2 DEF ChecksInv, NativeInv
  <2> QED BY <2>1, <2>2
<1>40. ASSUME NEW q \in Rows, checkers'[q] # None PROVE q \in DOMAIN rows
  <2>1. CASE q = r
    BY <1>1, <1>40, <2>1
  <2>2. CASE q # r
    BY <1>1, <1>40, <2>2 DEF ChecksInv, NativeInv
  <2> QED BY <2>1, <2>2
<1>5. NativeInv'
  BY <1>4, <1>40 DEF NativeInv, Beyond
<1>6. ASSUME NEW q \in DOMAIN rows PROVE Observes(rows[q], results'[q])
  <2>0. q \in Rows
    BY DEF ChecksInv, RowsInv
  <2>1. CASE q = r
    BY <1>1, <2>1
  <2>2. CASE q # r
    BY <1>1, <2>0, <2>2 DEF ChecksInv, RowsInv
  <2> QED BY <2>1, <2>2
<1>7. RowsInv'
  BY <1>6 DEF ChecksInv, RowsInv, Observes
<1>8. ASSUME NEW q \in Rows, results'[q].native = "running" PROVE InForce(q)
  <2>1. CASE q = r
    BY <1>1, <1>8, <2>1 DEF ChecksInv, CurrentInv
  <2>2. CASE q # r
    BY <1>1, <1>8, <2>2 DEF ChecksInv, CurrentInv
  <2> QED BY <2>1, <2>2
<1>9. CurrentInv'
  BY <1>8 DEF CurrentInv, InForce, CheckIsCurrent, TransitionPending, subjectVars
<1>10. SeriesInv' /\ TransitionInv' /\ SubjectInv'
  BY SubjectStays DEF ChecksInv
<1>11. EvidenceInv' /\ AroundInv'
  BY DEF ChecksInv, EvidenceInv, EvidenceSound, AroundInv
<1> QED BY <1>3, <1>5, <1>7, <1>9, <1>10, <1>11 DEF ChecksInv

(* A row that keeps its claims and observations, whatever its phase. *)
LEMMA PhaseSaved ==
    ASSUME ChecksInv, NEW r \in DOMAIN rows, NEW x \in CheckRow, SaveRow(r, x),
           x.native = rows[r].native, x.observed = rows[r].observed, x.cleaned = rows[r].cleaned,
           x.submit = rows[r].submit, x.evidence = rows[r].evidence,
           UNCHANGED subjectVars, UNCHANGED <<checkers, results, submitted, checkEvidence, around>>
    PROVE  ChecksInv'
<1>1. Later(rows[r], x)
  BY DEF Later
<1>2. Observes(x, results[r])
  BY DEF ChecksInv, RowsInv, Observes
<1> QED BY <1>1, <1>2, RowStep

(* What is left alone by a step outside the invariant's tables. *)
LEMMA ChecksIdle ==
    ASSUME ChecksInv, UNCHANGED subjectVars,
           UNCHANGED <<rows, checkers, results, submitted, checkEvidence, around>>
    PROVE  ChecksInv'
<1>1. SeriesInv' /\ TransitionInv' /\ SubjectInv' /\ CurrentInv'
  BY SubjectStays, CurrentStays DEF ChecksInv
<1> QED BY <1>1 DEF ChecksInv, RowsInv, Observes, ChildrenInv, ChildFits, NativeInv, Beyond, EvidenceInv,
                    EvidenceSound, AroundInv

LEMMA LedgerSteps ==
    ASSUME ChecksInv, NEW r \in Rows,
           ClaimCheck(r) \/ PrepareCheckHost(r) \/ ClaimStart(r) \/ RecordCheckStarted(r)
    PROVE  ChecksInv'
<1>1. /\ r \in DOMAIN rows /\ UNCHANGED subjectVars
      /\ UNCHANGED <<checkers, results, submitted, checkEvidence, around>>
  BY DEF ClaimCheck, PrepareCheckHost, ClaimStart, RecordCheckStarted, FirstPending, HasRow, subjectVars
<1>2. PICK old \in CheckRow : old = rows[r]
  BY <1>1 DEF ChecksInv, RowsInv
<1>3. CASE UNCHANGED rows
  BY <1>1, <1>3, ChecksIdle
<1>4. ASSUME NEW ph \in CheckPhases, NEW cl \in BOOLEAN,
             SaveRow(r, [old EXCEPT !.phase = ph, !.claimed = cl])
      PROVE  ChecksInv'
  <2>1. PICK x : x = [old EXCEPT !.phase = ph, !.claimed = cl]
    OBVIOUS
  <2>2. x \in CheckRow /\ x.native = old.native /\ x.observed = old.observed /\ x.cleaned = old.cleaned
        /\ x.submit = old.submit /\ x.evidence = old.evidence
    BY <2>1 DEF CheckRow
  <2>3. SaveRow(r, x)
    BY <1>4, <2>1
  <2> QED BY <1>1, <1>2, <2>2, <2>3, PhaseSaved
<1>5. old.claimed \in BOOLEAN /\ \A ph : [old EXCEPT !.phase = ph] = [old EXCEPT !.phase = ph, !.claimed = old.claimed]
  BY DEF CheckRow
<1>6. {"claimed", "host_prepared", "host_start_claimed", "host_started"} \subseteq CheckPhases
  BY DEF CheckPhases
<1>7. CASE ClaimCheck(r)
  BY <1>2, <1>4, <1>6, <1>7 DEF ClaimCheck
<1>8. ASSUME NEW ph \in {"host_prepared", "host_start_claimed", "host_started"},
             SaveRow(r, [old EXCEPT !.phase = ph])
      PROVE  ChecksInv'
  <2>1. SaveRow(r, [old EXCEPT !.phase = ph, !.claimed = old.claimed])
    BY <1>5, <1>8
  <2> QED BY <1>4, <1>5, <1>6, <2>1
<1>9. CASE PrepareCheckHost(r)
  BY <1>2, <1>3, <1>8, <1>9 DEF PrepareCheckHost
<1>10. CASE ClaimStart(r)
  BY <1>2, <1>8, <1>10 DEF ClaimStart
<1>11. CASE RecordCheckStarted(r)
  BY <1>2, <1>8, <1>11 DEF RecordCheckStarted
<1> QED BY <1>7, <1>9, <1>10, <1>11

LEMMA ObservationStep ==
    ASSUME ChecksInv, NEW r \in Rows, SaveObservation(r)
    PROVE  ChecksInv'
<1>1. /\ r \in DOMAIN rows /\ UNCHANGED subjectVars /\ results[r].stop # None
      /\ UNCHANGED <<checkers, results, submitted, checkEvidence, around>>
  BY DEF SaveObservation, HasRow, Inspected, subjectVars
<1>2. PICK old \in CheckRow : old = rows[r]
  BY <1>1 DEF ChecksInv, RowsInv
<1>3. PICK stop \in Stops : stop = results[r].stop
  BY <1>1 DEF ChecksInv, ChildrenInv, ResultRow
<1>4. PICK x : x = [old EXCEPT !.observed = stop, !.phase = "observed"]
  OBVIOUS
<1>5. SaveRow(r, x)
  BY <1>2, <1>3, <1>4 DEF SaveObservation, Inspected
<1>6. x \in CheckRow /\ x.observed = stop /\ x.native = old.native /\ x.cleaned = old.cleaned
      /\ x.submit = old.submit /\ x.evidence = old.evidence
  BY <1>4 DEF CheckRow, CheckPhases
<1>7. Observes(old, results[r])
  BY <1>1, <1>2 DEF ChecksInv, RowsInv
<1>8. old.observed = "confirmed" => stop = "confirmed"
  BY <1>3, <1>7, ChecksAssumption DEF Observes, Stops
<1>9. Later(rows[r], x)
  BY <1>2, <1>6, <1>8 DEF Later
<1>10. Observes(x, results[r])
  BY <1>3, <1>6, <1>7, <1>8 DEF Observes
<1> QED BY <1>1, <1>5, <1>9, <1>10, RowStep

LEMMA LinkStep ==
    ASSUME ChecksInv, NEW r \in Rows, LinkEvidence(r)
    PROVE  ChecksInv'
<1>1. /\ r \in DOMAIN rows /\ UNCHANGED subjectVars
      /\ UNCHANGED <<checkers, results, submitted, checkEvidence, around>>
  BY DEF LinkEvidence, HasRow, subjectVars
<1>2. PICK old \in CheckRow : old = rows[r]
  BY <1>1 DEF ChecksInv, RowsInv
<1>3. PICK n \in DOMAIN checkEvidence :
         checkEvidence[n].row = r /\ SaveRow(r, [rows[r] EXCEPT !.evidence = checkEvidence[n].status, !.phase = "recorded"])
  BY DEF LinkEvidence
<1>4. PICK e : e = checkEvidence[n]
  OBVIOUS
<1>5. e.row = r /\ e.status \in {"judged", "unknown"} /\ (e.status = "judged" => old.observed = "confirmed")
  BY <1>2, <1>3, <1>4 DEF ChecksInv, EvidenceInv, EvidenceSound
<1>6. PICK x : x = [old EXCEPT !.evidence = e.status, !.phase = "recorded"]
  OBVIOUS
<1>7. SaveRow(r, x)
  BY <1>2, <1>3, <1>4, <1>6
<1>8. x \in CheckRow /\ x.observed = old.observed /\ x.native = old.native /\ x.cleaned = old.cleaned
      /\ x.submit = old.submit /\ x.evidence = e.status
  BY <1>5, <1>6 DEF CheckRow, CheckPhases
<1>9. Later(rows[r], x)
  BY <1>2, <1>8 DEF Later
<1>10. Observes(x, results[r])
  BY <1>1, <1>2, <1>5, <1>8 DEF ChecksInv, RowsInv, Observes
<1> QED BY <1>1, <1>7, <1>9, <1>10, RowStep

LEMMA CleanupStep ==
    ASSUME ChecksInv, NEW r \in Rows, RecordCleanup(r)
    PROVE  ChecksInv'
<1>1. /\ r \in DOMAIN rows /\ UNCHANGED subjectVars /\ around.cancel
      /\ UNCHANGED <<checkers, results, submitted, checkEvidence, around>>
      /\ rows[r].native => results[r].stop \in {"confirmed", "not_started"}
  BY DEF RecordCleanup, HasRow, subjectVars
<1>2. PICK old \in CheckRow : old = rows[r]
  BY <1>1 DEF ChecksInv, RowsInv
<1>3. PICK x : x = [old EXCEPT !.cleaned = TRUE]
  OBVIOUS
<1>4. SaveRow(r, x)
  BY <1>2, <1>3 DEF RecordCleanup
<1>5. x \in CheckRow /\ x.observed = old.observed /\ x.native = old.native
      /\ x.submit = old.submit /\ x.evidence = old.evidence
  BY <1>3 DEF CheckRow
<1>6. Later(rows[r], x)
  BY <1>2, <1>5 DEF Later
<1>7. Observes(x, results[r])
  BY <1>1, <1>2, <1>5 DEF ChecksInv, RowsInv, Observes
<1> QED BY <1>1, <1>4, <1>6, <1>7, RowStep

(* Cancelling marks every row that has not begun. *)
LEMMA CancelRowsStep ==
    ASSUME ChecksInv, CancelRows
    PROVE  ChecksInv'
<1>1. /\ UNCHANGED subjectVars /\ UNCHANGED <<checkers, results, submitted, checkEvidence, around>>
      /\ DOMAIN rows' = DOMAIN rows
  BY DEF CancelRows, subjectVars
<1>2. ASSUME NEW r \in DOMAIN rows
      PROVE  /\ rows'[r] \in CheckRow /\ rows'[r].observed = rows[r].observed /\ rows'[r].native = rows[r].native
             /\ rows'[r].cleaned = rows[r].cleaned /\ rows'[r].submit = rows[r].submit
             /\ rows'[r].evidence = rows[r].evidence
  <2>1. PICK old \in CheckRow : old = rows[r]
    BY DEF ChecksInv, RowsInv
  <2>2. rows'[r] = [old EXCEPT !.phase = "cancelled"] \/ rows'[r] = old
    BY <2>1 DEF CancelRows
  <2> QED BY <2>1, <2>2 DEF CheckRow, CheckPhases
<1>3. RowsGain
  BY <1>1, <1>2 DEF RowsGain, Later
<1>4. RowsInv'
  BY <1>1, <1>2 DEF ChecksInv, RowsInv, Observes
<1>5. EvidenceInv' /\ NativeInv' /\ SeriesInv' /\ TransitionInv' /\ SubjectInv' /\ CurrentInv'
  BY <1>1, <1>3, EvidenceStays, NativeStays, SubjectStays, CurrentStays DEF ChecksInv
<1>6. ChildrenInv' /\ AroundInv'
  BY <1>1 DEF ChecksInv, ChildrenInv, AroundInv
<1> QED BY <1>4, <1>5, <1>6 DEF ChecksInv

LEMMA AroundStep ==
    ASSUME ChecksInv, CancelChecks \/ SurroundingsChange
    PROVE  ChecksInv'
<1>1. /\ UNCHANGED subjectVars /\ UNCHANGED <<rows, checkers, results, submitted, checkEvidence>>
  BY DEF CancelChecks, SurroundingsChange, subjectVars
<1>2. AroundInv' /\ (around.cancel => around'.cancel)
  <2>1. PICK old \in [cancel : BOOLEAN, approved : BOOLEAN, qualified : 1 .. Len(Qualifications), late : BOOLEAN] :
           old = around
    BY DEF ChecksInv, AroundInv
  <2>2. CASE CancelChecks
    BY <2>1, <2>2 DEF CancelChecks, AroundInv
  <2>3. CASE SurroundingsChange
    <3>1. PICK len \in Nat \ {0} : len = Len(Qualifications)
      BY ChecksAssumption
    <3>2. CASE old.qualified < len /\ around' = [old EXCEPT !.qualified = old.qualified + 1]
      BY <2>1, <3>1, <3>2 DEF AroundInv
    <3>3. CASE around' = [old EXCEPT !.approved = FALSE] \/ around' = [old EXCEPT !.late = TRUE]
      BY <2>1, <3>1, <3>3 DEF AroundInv
    <3> QED BY <2>1, <2>3, <3>1, <3>2, <3>3 DEF SurroundingsChange
  <2> QED BY <2>2, <2>3
<1>3. RowsInv'
  BY <1>1, <1>2 DEF ChecksInv, RowsInv, Observes
<1>4. SeriesInv' /\ TransitionInv' /\ SubjectInv' /\ CurrentInv'
  BY <1>1, SubjectStays, CurrentStays DEF ChecksInv
<1>5. ChildrenInv' /\ NativeInv' /\ EvidenceInv'
  BY <1>1 DEF ChecksInv, ChildrenInv, ChildFits, NativeInv, Beyond, EvidenceInv, EvidenceSound
<1> QED BY <1>2, <1>3, <1>4, <1>5 DEF ChecksInv

-----------------------------------------------------------------------------
(* The steps of a child and of its process: one row of the runner's directory at most. *)
LEMMA ChildSteps ==
    ASSUME ChecksInv, NEW r \in Rows,
           StartCheckHost(r) \/ GuardCheck(r) \/ ClaimDirectory(r) \/ StartCheck(r)
    PROVE  ChecksInv'
<1>1. /\ UNCHANGED rows /\ UNCHANGED subjectVars /\ UNCHANGED <<submitted, checkEvidence, around>>
  BY DEF StartCheckHost, GuardCheck, ClaimDirectory, StartCheck, subjectVars
<1>2. PICK old \in ResultRow : old = results[r]
  BY DEF ChecksInv, ChildrenInv
<1>3. /\ ChildFits(checkers[r], old) /\ (r \in DOMAIN rows => Observes(rows[r], old))
      /\ Beyond(checkers[r], old) => r \in DOMAIN rows /\ rows[r].native
      /\ checkers[r] # None => r \in DOMAIN rows
  BY <1>2 DEF ChecksInv, ChildrenInv, RowsInv, NativeInv
<1>4. results = [results EXCEPT ![r] = old]
  BY <1>2 DEF ChecksInv, ChildrenInv
<1>5. CASE StartCheckHost(r)
  <2>1. /\ checkers' = [checkers EXCEPT ![r] = "registered"] /\ results' = results
        /\ r \in DOMAIN rows /\ ~rows[r].native
    BY <1>5 DEF StartCheckHost, CheckGuard, HasRow
  <2>2. "registered" \in CheckerStates \union {None} /\ results' = [results EXCEPT ![r] = old]
    BY <1>4, <2>1 DEF CheckerStates
  <2>3. old.native = None /\ old.stop = None
    BY <1>3, <2>1 DEF Beyond
  <2>4. ChildFits("registered", old) /\ ~Beyond("registered", old)
    BY <2>3, ChecksAssumption DEF ChildFits, Beyond, Stops
  <2>5. old.native # "running"
    BY <2>3, ChecksAssumption DEF CheckerStates
  <2> QED BY <1>1, <1>3, <2>1, <2>2, <2>4, <2>5, ResultMoves
<1>6. CASE GuardCheck(r)
  <2>1. checkers' = [checkers EXCEPT ![r] = "guarded"] /\ results' = results /\ checkers[r] = "registered"
    BY <1>6 DEF GuardCheck, CheckerGoes
  <2>2. "guarded" \in CheckerStates \union {None} /\ results' = [results EXCEPT ![r] = old]
    BY <1>4, <2>1 DEF CheckerStates
  <2>3. ChildFits("guarded", old) /\ old.native = None /\ old.stop = None
    BY <1>3, <2>1, ChecksAssumption DEF ChildFits, Stops
  <2>4. ~Beyond("guarded", old) /\ old.native # "running" /\ r \in DOMAIN rows
    BY <1>3, <2>1, <2>3, ChecksAssumption DEF Beyond, CheckerStates
  <2> QED BY <1>1, <1>3, <2>1, <2>2, <2>3, <2>4, ResultMoves
<1>7. CASE ClaimDirectory(r)
  <2>1. PICK new : new = [old EXCEPT !.claimed = TRUE]
    OBVIOUS
  <2>2. checkers' = [checkers EXCEPT ![r] = "bound"] /\ checkers[r] = "claimed" /\ results' = [results EXCEPT ![r] = new]
    BY <1>2, <1>7, <2>1 DEF ClaimDirectory, CheckerGoes
  <2>3. "bound" \in CheckerStates \union {None} /\ new \in ResultRow /\ new.native = old.native /\ new.stop = old.stop
    BY <2>1 DEF CheckerStates, ResultRow
  <2>4. ChildFits("bound", new) /\ new.native = None
    BY <1>3, <2>2, <2>3, ChecksAssumption DEF ChildFits, Stops
  <2>5. r \in DOMAIN rows /\ rows[r].native /\ Observes(rows[r], new) /\ new.native # "running"
    BY <1>3, <2>2, <2>3, <2>4, ChecksAssumption DEF Beyond, Observes, CheckerStates
  <2> QED BY <1>1, <2>2, <2>3, <2>4, <2>5, ResultMoves
<1>8. CASE StartCheck(r)
  <2>1. PICK new : new = [old EXCEPT !.native = "running"]
    OBVIOUS
  <2>2. /\ checkers' = [checkers EXCEPT ![r] = "running"] /\ checkers[r] = "bound"
        /\ results' = [results EXCEPT ![r] = new] /\ InForce(r)
    BY <1>2, <1>8, <2>1 DEF StartCheck, CheckerGoes, NativeGuard, CheckGuard, MayAdvance, InForce
  <2>3. "running" \in CheckerStates \union {None} /\ new \in ResultRow /\ new.native = "running" /\ new.stop = old.stop
    BY <2>1 DEF CheckerStates, ResultRow
  <2>4. ChildFits("running", new)
    BY <1>3, <2>2, <2>3, ChecksAssumption DEF ChildFits, Stops
  <2>5. r \in DOMAIN rows /\ rows[r].native /\ Observes(rows[r], new)
    BY <1>3, <2>2, <2>3, ChecksAssumption DEF Beyond, Observes
  <2> QED BY <1>1, <2>2, <2>3, <2>4, <2>5, ResultMoves
<1> QED BY <1>5, <1>6, <1>7, <1>8

LEMMA EndSteps ==
    ASSUME ChecksInv, NEW r \in Rows,
           CheckEnds(r) \/ PublishResult(r) \/ CheckerStops(r) \/ CancelNative(r) \/ CancelCheckHost(r)
    PROVE  ChecksInv'
<1>1. /\ UNCHANGED rows /\ UNCHANGED subjectVars /\ UNCHANGED <<submitted, checkEvidence, around>>
  BY DEF CheckEnds, PublishResult, CheckerStops, CancelNative, CancelCheckHost, subjectVars
<1>2. PICK old \in ResultRow : old = results[r]
  BY DEF ChecksInv, ChildrenInv
<1>20. PICK child \in CheckerStates \union {None} : child = checkers[r]
  BY DEF ChecksInv, ChildrenInv
<1>3. /\ ChildFits(child, old) /\ (r \in DOMAIN rows => Observes(rows[r], old))
      /\ Beyond(child, old) => r \in DOMAIN rows /\ rows[r].native
      /\ child # None => r \in DOMAIN rows
  BY <1>2, <1>20 DEF ChecksInv, ChildrenInv, RowsInv, NativeInv
<1>4. results = [results EXCEPT ![r] = old] /\ checkers = [checkers EXCEPT ![r] = child]
  BY <1>2, <1>20 DEF ChecksInv, ChildrenInv
<1>5. CASE CheckEnds(r)
  <2>1. PICK new : new = [old EXCEPT !.native = "ended"]
    OBVIOUS
  <2>2. results' = [results EXCEPT ![r] = new] /\ checkers' = checkers /\ old.native = "running"
    BY <1>2, <1>5, <2>1 DEF CheckEnds
  <2>3. new \in ResultRow /\ new.native = "ended" /\ new.stop = old.stop
    BY <2>1 DEF ResultRow
  <2>4. ChildFits(child, new)
    BY <1>3, <2>2, <2>3, ChecksAssumption DEF ChildFits, CheckerStates
  <2>5. r \in DOMAIN rows /\ rows[r].native /\ Observes(rows[r], new)
    BY <1>3, <2>2, <2>3, ChecksAssumption DEF Beyond, Observes, CheckerStates
  <2>6. checkers' = [checkers EXCEPT ![r] = child]
    BY <1>4, <2>2
  <2> QED BY <1>1, <2>2, <2>3, <2>4, <2>5, <2>6, ResultMoves
<1>6. CASE PublishResult(r)
  <2>1. PICK stop \in Stops :
           /\ results' = [results EXCEPT ![r].stop = stop] /\ checkers' = [checkers EXCEPT ![r] = "published"]
           /\ \/ child = "bound" /\ stop = "not_started"
              \/ child = "running" /\ stop \in {"confirmed", "unknown"} /\ (stop = "confirmed" => old.native = "ended")
    BY <1>2, <1>20, <1>6 DEF PublishResult, CheckerGoes, Stops
  <2>2. PICK new : new = [old EXCEPT !.stop = stop]
    OBVIOUS
  <2>3. results' = [results EXCEPT ![r] = new]
    BY <1>2, <2>1, <2>2
  <2>4. new \in ResultRow /\ new.native = old.native /\ new.stop = stop
    BY <2>2 DEF ResultRow
  <2>5. ChildFits("published", new) /\ "published" \in CheckerStates \union {None}
    BY <1>3, <2>1, <2>4, ChecksAssumption DEF ChildFits, CheckerStates
  <2>6. r \in DOMAIN rows /\ rows[r].native /\ old.stop = None
    BY <1>3, <2>1 DEF Beyond, ChildFits
  <2>7. Observes(rows[r], new)
    BY <1>3, <2>4, <2>6, ChecksAssumption DEF Observes, Stops
  <2> QED BY <1>1, <1>2, <2>1, <2>3, <2>4, <2>5, <2>6, <2>7, ResultMoves
<1>7. ASSUME checkers' = [checkers EXCEPT ![r] = "over"], results' = results, child # None
      PROVE  ChecksInv'
  <2>1. results' = [results EXCEPT ![r] = old] /\ "over" \in CheckerStates \union {None}
    BY <1>4, <1>7 DEF CheckerStates
  <2>2. ChildFits("over", old) /\ (Beyond("over", old) => r \in DOMAIN rows /\ rows[r].native)
    BY <1>3, ChecksAssumption DEF ChildFits, Beyond, CheckerStates
  <2> QED BY <1>1, <1>2, <1>3, <1>7, <2>1, <2>2, ResultMoves
<1>8. CASE CheckerStops(r)
  BY <1>7, <1>8, <1>20 DEF CheckerStops
<1>9. CASE CancelCheckHost(r)
  <2>1. CASE child = None
    <3>1. checkers' = checkers /\ results' = results
      BY <1>4, <1>9, <1>20, <2>1 DEF CancelCheckHost
    <3> QED BY <1>1, <3>1, ChecksIdle
  <2>2. CASE child # None
    BY <1>7, <1>9, <1>20, <2>2 DEF CancelCheckHost
  <2> QED BY <2>1, <2>2
<1>10. CASE CancelNative(r)
  <2>1. PICK new : new = [old EXCEPT !.cancelled = TRUE, !.native = IF old.native = None THEN None ELSE "ended"]
    OBVIOUS
  <2>2. results' = [results EXCEPT ![r] = new] /\ checkers' = checkers /\ r \in DOMAIN rows /\ rows[r].native
    BY <1>2, <1>10, <2>1 DEF CancelNative, HasRow, ChecksInv, ChildrenInv
  <2>3. new \in ResultRow /\ new.stop = old.stop /\ (new.native = IF old.native = None THEN None ELSE "ended")
    BY <2>1 DEF ResultRow
  <2>4. ChildFits(child, new)
    BY <1>3, <2>3, ChecksAssumption DEF ChildFits, CheckerStates
  <2>5. Observes(rows[r], new) /\ new.native # "running"
    BY <1>3, <2>2, <2>3, ChecksAssumption DEF Observes, CheckerStates
  <2>6. checkers' = [checkers EXCEPT ![r] = child]
    BY <1>4, <2>2
  <2> QED BY <1>1, <2>2, <2>3, <2>4, <2>5, <2>6, ResultMoves
<1> QED BY <1>5, <1>6, <1>8, <1>9, <1>10

(* A row is saved as its child moves. *)
LEMMA RowAndChild ==
    ASSUME ChecksInv, NEW r \in DOMAIN rows, NEW x, NEW c \in CheckerStates, SaveRow(r, x), Later(rows[r], x),
           Observes(x, results[r]), checkers' = [checkers EXCEPT ![r] = c], ChildFits(c, results[r]),
           Beyond(c, results[r]) => x.native, UNCHANGED subjectVars,
           UNCHANGED <<results, submitted, checkEvidence, around>>
    PROVE  ChecksInv'
<1>0. r \in Rows
  BY DEF ChecksInv, RowsInv
<1>1. RowsInv' /\ RowsGain /\ DOMAIN rows' = DOMAIN rows /\ rows'[r] = x
  BY RowSaved DEF ChecksInv
<1>2. EvidenceInv' /\ SeriesInv' /\ TransitionInv' /\ SubjectInv' /\ CurrentInv'
  BY <1>1, EvidenceStays, SubjectStays, CurrentStays DEF ChecksInv
<1>3. /\ checkers' \in [Rows -> CheckerStates \union {None}] /\ checkers'[r] = c
      /\ \A q \in Rows : q # r => checkers'[q] = checkers[q]
  BY <1>0 DEF ChecksInv, ChildrenInv
<1>4. ASSUME NEW q \in Rows PROVE ChildFits(checkers'[q], results[q])
  <2>1. CASE q = r
    BY <1>3, <2>1
  <2>2. CASE q # r
    BY <1>3, <2>2 DEF ChecksInv, ChildrenInv
  <2> QED BY <2>1, <2>2
<1>5. ChildrenInv'
  BY <1>3, <1>4 DEF ChecksInv, ChildrenInv, ChildFits
<1>6. ASSUME NEW q \in Rows
      PROVE  /\ checkers'[q] # None => q \in DOMAIN rows
             /\ Beyond(checkers'[q], results[q]) => q \in DOMAIN rows /\ rows'[q].native
  <2>1. CASE q = r
    BY <1>1, <1>3, <2>1
  <2>2. CASE q # r
    BY <1>1, <1>3, <2>2 DEF ChecksInv, NativeInv, RowsGain, Later
  <2> QED BY <2>1, <2>2
<1>7. NativeInv'
  BY <1>1, <1>6 DEF NativeInv, Beyond
<1>8. AroundInv'
  BY DEF ChecksInv, AroundInv
<1> QED BY <1>1, <1>2, <1>5, <1>7, <1>8 DEF ChecksInv

LEMMA NativeSteps ==
    ASSUME ChecksInv, NEW r \in Rows, ClaimNative(r) \/ CheckerFails(r)
    PROVE  ChecksInv'
<1>1. /\ UNCHANGED subjectVars /\ UNCHANGED <<results, submitted, checkEvidence, around>>
  BY DEF ClaimNative, CheckerFails, subjectVars
<1>2. checkers[r] \in {"guarded", "claimed", "bound", "published"}
  BY DEF ClaimNative, CheckerFails, CheckerGoes
<1>3. r \in DOMAIN rows /\ ChildFits(checkers[r], results[r])
      /\ (Beyond(checkers[r], results[r]) => rows[r].native)
  BY <1>2, ChecksAssumption DEF ChecksInv, NativeInv, ChildrenInv, CheckerStates
<1>4. PICK old \in CheckRow : old = rows[r]
  BY <1>3 DEF ChecksInv, RowsInv
<1>5. Observes(old, results[r])
  BY <1>3, <1>4 DEF ChecksInv, RowsInv
<1>6. CASE ClaimNative(r)
  <2>1. PICK x : x = [old EXCEPT !.native = TRUE, !.phase = "native_claimed"]
    OBVIOUS
  <2>2. SaveRow(r, x) /\ checkers[r] = "guarded" /\ checkers' = [checkers EXCEPT ![r] = "claimed"]
    BY <1>4, <1>6, <2>1 DEF ClaimNative, CheckerGoes
  <2>3. x \in CheckRow /\ x.native /\ x.observed = old.observed /\ x.cleaned = old.cleaned
        /\ x.submit = old.submit /\ x.evidence = old.evidence /\ ~old.native
    BY <1>4, <1>6, <2>1 DEF CheckRow, CheckPhases, ClaimNative
  <2>4. Later(rows[r], x)
    BY <1>4, <2>3 DEF Later
  <2>6. "claimed" \in CheckerStates /\ ChildFits("claimed", results[r])
    BY <1>3, <2>2, ChecksAssumption DEF CheckerStates, ChildFits, Stops
  <2>5. Observes(x, results[r])
    BY <1>5, <1>6, <2>3 DEF Observes, ClaimNative
  <2> QED BY <1>1, <1>3, <2>2, <2>3, <2>4, <2>5, <2>6, RowAndChild
<1>7. CASE CheckerFails(r)
  <2>1. PICK x : x = [old EXCEPT !.phase = "reconciliation_required"]
    OBVIOUS
  <2>2. SaveRow(r, x) /\ checkers[r] \in {"claimed", "bound", "published"} /\ checkers' = [checkers EXCEPT ![r] = "over"]
    BY <1>4, <1>7, <2>1 DEF CheckerFails
  <2>3. x \in CheckRow /\ x.native = old.native /\ x.observed = old.observed /\ x.cleaned = old.cleaned
        /\ x.submit = old.submit /\ x.evidence = old.evidence
    BY <2>1 DEF CheckRow, CheckPhases
  <2>4. Later(rows[r], x)
    BY <1>4, <2>3 DEF Later
  <2>5. Observes(x, results[r])
    BY <1>5, <2>3 DEF Observes
  <2>6. "over" \in CheckerStates /\ ChildFits("over", results[r])
    BY <1>3, <2>2, ChecksAssumption DEF CheckerStates, ChildFits
  <2>7. x.native
    BY <1>3, <1>4, <2>2, <2>3 DEF Beyond
  <2> QED BY <1>1, <1>3, <2>2, <2>4, <2>5, <2>6, <2>7, RowAndChild
<1> QED BY <1>6, <1>7

-----------------------------------------------------------------------------
(* The evidence: claimed once, sent by the claimer alone. *)
LEMMA EvidenceSteps ==
    ASSUME ChecksInv, NEW r \in Rows, ClaimEvidence(r) \/ SubmitEvidence(r) \/ SubmitterStops(r)
    PROVE  ChecksInv'
<1>1. UNCHANGED subjectVars /\ UNCHANGED <<checkers, results, around>>
  BY DEF ClaimEvidence, SubmitEvidence, SubmitterStops, subjectVars
<1>2. CurrentInv' /\ ChildrenInv' /\ AroundInv'
  BY <1>1, CurrentStays DEF ChecksInv, ChildrenInv, AroundInv
<1>3. CASE ClaimEvidence(r)
  <2>1. r \in DOMAIN rows /\ ~rows[r].submit /\ submitted' = submitted \union {r} /\ checkEvidence' = checkEvidence
    BY <1>3 DEF ClaimEvidence, HasRow
  <2>2. PICK old \in CheckRow : old = rows[r]
    BY <2>1 DEF ChecksInv, RowsInv
  <2>3. PICK x : x = [old EXCEPT !.submit = TRUE, !.phase = "evidence_submit_claimed"]
    OBVIOUS
  <2>4. SaveRow(r, x)
    BY <1>3, <2>2, <2>3 DEF ClaimEvidence
  <2>5. x \in CheckRow /\ x.native = old.native /\ x.observed = old.observed /\ x.cleaned = old.cleaned
        /\ x.submit /\ x.evidence = old.evidence
    BY <2>3 DEF CheckRow, CheckPhases
  <2>6. Later(rows[r], x)
    BY <2>2, <2>5 DEF Later
  <2>7. Observes(x, results[r])
    BY <2>1, <2>2, <2>5 DEF ChecksInv, RowsInv, Observes
  <2>8. RowsInv' /\ RowsGain /\ DOMAIN rows' = DOMAIN rows /\ rows'[r] = x
    BY <1>1, <2>1, <2>4, <2>6, <2>7, RowSaved DEF ChecksInv
  <2>9. NativeInv' /\ SeriesInv' /\ TransitionInv' /\ SubjectInv'
    BY <1>1, <2>8, NativeStays, SubjectStays DEF ChecksInv
  <2>10. ASSUME NEW n \in DOMAIN checkEvidence PROVE EvidenceSound(checkEvidence[n])'
    BY <2>1, <2>8, <2>10 DEF ChecksInv, EvidenceInv, EvidenceSound, RowsGain, Later
  <2>11. \A q \in submitted' : q \in DOMAIN rows' /\ rows'[q].submit
    BY <2>1, <2>5, <2>8 DEF ChecksInv, EvidenceInv, RowsGain, Later
  <2>12. EvidenceInv'
    BY <2>1, <2>10, <2>11 DEF ChecksInv, EvidenceInv
  <2> QED BY <1>2, <2>8, <2>9, <2>12 DEF ChecksInv
<1>4. ASSUME UNCHANGED rows, EvidenceInv' PROVE ChecksInv'
  <2>1. SeriesInv' /\ TransitionInv' /\ SubjectInv'
    BY <1>1, <1>4, SubjectStays DEF ChecksInv
  <2>2. RowsInv' /\ NativeInv'
    BY <1>1, <1>4 DEF ChecksInv, RowsInv, Observes, NativeInv, Beyond
  <2> QED BY <1>2, <1>4, <2>1, <2>2 DEF ChecksInv
<1>5. CASE SubmitterStops(r)
  <2>1. UNCHANGED <<rows, checkEvidence>> /\ submitted' = submitted \ {r}
    BY <1>5 DEF SubmitterStops
  <2>2. EvidenceInv'
    BY <2>1 DEF ChecksInv, EvidenceInv, EvidenceSound
  <2> QED BY <1>4, <2>1, <2>2
<1>6. CASE SubmitEvidence(r)
  <2>1. PICK status \in {"judged", "unknown"} :
           (rows[r].observed # "confirmed" => status = "unknown")
             /\ checkEvidence' = Append(checkEvidence, [row |-> r, status |-> status])
    BY <1>6 DEF SubmitEvidence
  <2>2. r \in submitted /\ submitted' = submitted \ {r} /\ UNCHANGED rows
    BY <1>6 DEF SubmitEvidence
  <2>3. PICK e : e = [row |-> r, status |-> status]
    OBVIOUS
  <2>4. /\ checkEvidence' \in Seq([row : Rows, status : {"judged", "unknown"}])
        /\ DOMAIN checkEvidence' = DOMAIN checkEvidence \union {Len(checkEvidence) + 1}
        /\ \A n \in DOMAIN checkEvidence : checkEvidence'[n] = checkEvidence[n]
        /\ checkEvidence'[Len(checkEvidence) + 1] = e
    BY <2>1, <2>3 DEF ChecksInv, EvidenceInv
  <2>5. e.row = r /\ e.status = status /\ r \in DOMAIN rows /\ rows[r].submit
    BY <2>2, <2>3 DEF ChecksInv, EvidenceInv
  <2>6. \A n \in DOMAIN checkEvidence : EvidenceSound(checkEvidence[n]) /\ checkEvidence[n].row # r
    BY <2>2 DEF ChecksInv, EvidenceInv, EvidenceSound
  <2>7. ASSUME NEW n \in DOMAIN checkEvidence' PROVE EvidenceSound(checkEvidence[n])'
    <3>1. CASE n \in DOMAIN checkEvidence
      BY <2>2, <2>4, <2>6, <3>1 DEF EvidenceSound
    <3>2. CASE checkEvidence'[n] = e
      BY <2>1, <2>2, <2>5, <3>2 DEF EvidenceSound
    <3> QED BY <2>4, <3>1, <3>2
  <2>8. \A m, n \in DOMAIN checkEvidence' : checkEvidence'[m].row = checkEvidence'[n].row => m = n
    BY <2>4, <2>5, <2>6 DEF ChecksInv, EvidenceInv
  <2>9. EvidenceInv'
    BY <2>2, <2>4, <2>7, <2>8 DEF ChecksInv, EvidenceInv
  <2> QED BY <1>4, <2>2, <2>9
<1> QED BY <1>3, <1>5, <1>6

-----------------------------------------------------------------------------
(* The subject and its transitions. *)

(* A quiescent cycle runs nothing. *)
LEMMA QuietSubject ==
    ASSUME ChecksInv, Quiescent, ~around.cancel
    PROVE  \A r \in Rows : results[r].native # "running"
<1> SUFFICES ASSUME NEW r \in Rows, results[r].native = "running" PROVE FALSE
  OBVIOUS
<1>1. r \in DOMAIN rows /\ rows[r].native /\ CheckIsCurrent(r)
  BY ChecksAssumption DEF ChecksInv, NativeInv, Beyond, CurrentInv, InForce, CheckerStates
<1>2. StopKnown(r)
  BY <1>1 DEF Quiescent, CurrentRows
<1>3. Observes(rows[r], results[r]) /\ ChildFits(checkers[r], results[r])
  BY <1>1 DEF ChecksInv, RowsInv, ChildrenInv
<1>4. results[r].stop \in {"confirmed", "not_started"}
  BY <1>2, <1>3, ChecksAssumption DEF StopKnown, Observes, Stops
<1> QED BY <1>3, <1>4, ChecksAssumption DEF ChildFits, CheckerStates

(* A step of the subject that leaves every table of the checks alone. *)
LEMMA SubjectMoves ==
    ASSUME ChecksInv, SeriesInv', TransitionInv', SubjectInv', CurrentInv',
           UNCHANGED <<rows, checkers, results, submitted, checkEvidence, around>>
    PROVE  ChecksInv'
<1>1. RowsInv' /\ ChildrenInv' /\ NativeInv' /\ AroundInv'
  BY DEF ChecksInv, RowsInv, Observes, ChildrenInv, ChildFits, NativeInv, Beyond, AroundInv
<1>2. EvidenceInv'
  BY DEF ChecksInv, EvidenceInv, EvidenceSound
<1> QED BY <1>1, <1>2 DEF ChecksInv

LEMMA StageSteps ==
    ASSUME ChecksInv, StageTransition \/ ReplaceTransition
    PROVE  ChecksInv'
<1>1. /\ UNCHANGED <<rows, checkers, results, submitted, checkEvidence, around>>
      /\ UNCHANGED <<subject, claimers, series>> /\ Compiles /\ Quiescent
      /\ transition' = NewTransition /\ transitions' = transitions + 1
  BY DEF StageTransition, ReplaceTransition
<1>2. subject # None /\ ~around.cancel /\ subject \in SubjectRow /\ subject.revision \in 1 .. MaxSubjects
  BY <1>1 DEF Compiles, Preparable, ChecksInv, SubjectInv
<1>3. subject.revision < MaxSubjects /\ Len(series) = subject.revision
  BY <1>2 DEF StageTransition, ReplaceTransition, ChecksInv, TransitionInv, TransitionPending
<1>4. claimers = {}
  BY DEF StageTransition, ReplaceTransition, ChecksInv, TransitionInv, TransitionPending
<1>5. Qualified \in Bindings
  BY DEF ChecksInv, AroundInv, Qualified, Bindings
<1>6. transitions \in Nat /\ subject.revision \in Nat
  BY <1>2 DEF ChecksInv, SeriesInv, SubjectRow
<1>7. PICK new \in TransitionRow :
         new = transition' /\ new.id = transitions + 1 /\ new.phase = "prepared" /\ new.expected = subject.revision
  BY <1>1, <1>5, <1>6 DEF NewTransition, TransitionRow
<1>8. transition' # None
  BY <1>7, ChecksAssumption
<1>9. \A n \in DOMAIN series : series[n] # transitions + 1
  BY <1>6 DEF ChecksInv, SeriesInv
<1>10. SeriesInv'
  BY <1>1, <1>6 DEF ChecksInv, SeriesInv
<1>11. TransitionInv'
  BY <1>1, <1>2, <1>3, <1>4, <1>6, <1>7, <1>8, <1>9 DEF TransitionInv, TransitionPending, Unmade, Made
<1>12. SubjectInv'
  BY <1>1, <1>2 DEF SubjectInv
<1>13. CurrentInv'
  BY <1>1, <1>2, QuietSubject DEF CurrentInv
<1> QED BY <1>1, <1>10, <1>11, <1>12, <1>13, SubjectMoves

LEMMA ClaimSteps ==
    ASSUME ChecksInv, ClaimRebind \/ MarkReady
    PROVE  ChecksInv'
<1>1. /\ UNCHANGED <<rows, checkers, results, submitted, checkEvidence, around>>
      /\ UNCHANGED <<subject, transitions, series>> /\ transition # None
  BY DEF ClaimRebind, MarkReady
<1>2. PICK old \in TransitionRow : old = transition
  BY <1>1 DEF ChecksInv, TransitionInv
<1>3. old.phase \in {"prepared", "rebind_claimed"}
  BY <1>2 DEF ClaimRebind, MarkReady
<1>4. PICK new : new = transition'
  OBVIOUS
<1>5. /\ new \in TransitionRow /\ new.id = old.id /\ new.expected = old.expected
      /\ new.phase = IF ClaimRebind THEN "rebind_claimed" ELSE "ready"
  BY <1>2, <1>4 DEF ClaimRebind, MarkReady, TransitionRow
<1>6. new # None
  BY <1>5, ChecksAssumption
<1>7. subject # None /\ TransitionPending /\ new.phase # "installed"
  BY <1>1, <1>2, <1>3, <1>5 DEF ChecksInv, TransitionInv, TransitionPending
<1>8. CurrentInv'
  BY <1>1, <1>7 DEF ChecksInv, CurrentInv, InForce
<1>9. SeriesInv' /\ SubjectInv'
  BY <1>1, <1>6, <1>7 DEF ChecksInv, SeriesInv, SubjectInv
<1>10. CASE ClaimRebind
  <2>1. /\ old.phase = "prepared" /\ claimers = {} /\ Len(series) = subject.revision /\ Unmade
        /\ claimers' = {old.id} /\ new.phase = "rebind_claimed"
    BY <1>2, <1>5, <1>10 DEF ClaimRebind, ChecksInv, TransitionInv
  <2>2. TransitionInv'
    BY <1>1, <1>2, <1>4, <1>5, <1>6, <1>7, <2>1 DEF ChecksInv, TransitionInv, TransitionPending, Unmade, Made
  <2> QED BY <1>1, <1>8, <1>9, <2>2, SubjectMoves
<1>11. CASE MarkReady
  <2>1. old.phase = "rebind_claimed" /\ ~Unmade /\ claimers' = claimers
    BY <1>2, <1>11 DEF MarkReady, Unmade
  <2>2. Len(series) = subject.revision + 1 /\ Made /\ claimers = {}
    BY <1>1, <1>2, <2>1 DEF ChecksInv, TransitionInv
  <2>3. new.phase = "ready"
    BY <1>2, <1>4, <1>11 DEF MarkReady, TransitionRow
  <2>4. TransitionInv'
    BY <1>1, <1>2, <1>4, <1>5, <1>6, <1>7, <2>1, <2>2, <2>3 DEF ChecksInv, TransitionInv, TransitionPending, Unmade, Made
  <2> QED BY <1>1, <1>8, <1>9, <2>4, SubjectMoves
<1> QED BY <1>10, <1>11

LEMMA RebindSteps ==
    ASSUME ChecksInv, NEW id, RebindReviewersOnce(id) \/ ClaimerStops(id)
    PROVE  ChecksInv'
<1>1. /\ UNCHANGED <<rows, checkers, results, submitted, checkEvidence, around>>
      /\ UNCHANGED <<subject, transition, transitions>>
      /\ id \in claimers /\ claimers' = claimers \ {id}
  BY DEF RebindReviewersOnce, ClaimerStops
<1>2. transition # None /\ transition.phase = "rebind_claimed" /\ claimers' = {} /\ id = transition.id
  BY <1>1 DEF ChecksInv, TransitionInv
<1>3. /\ subject # None /\ subject.revision \in Nat /\ transition.id \in 1 .. transitions /\ transitions \in Nat
      /\ transition.expected = subject.revision /\ subject.revision < MaxSubjects /\ transition \in TransitionRow
      /\ Len(series) = subject.revision /\ Unmade
  BY <1>1, <1>2, ChecksAssumption DEF ChecksInv, TransitionInv, SubjectInv, SeriesInv, TransitionPending
<1>4. CurrentInv' /\ SubjectInv'
  BY <1>1, <1>2 DEF ChecksInv, CurrentInv, InForce, CheckIsCurrent, TransitionPending, SubjectInv
<1>5. CASE ClaimerStops(id)
  <2>1. UNCHANGED series
    BY <1>5 DEF ClaimerStops
  <2>2. SeriesInv' /\ TransitionInv'
    BY <1>1, <1>2, <1>3, <2>1 DEF ChecksInv, SeriesInv, TransitionInv, TransitionPending, Unmade, Made
  <2> QED BY <1>1, <1>4, <2>2, SubjectMoves
<1>6. CASE RebindReviewersOnce(id)
  <2>1. series' = Append(series, transition.id)
    BY <1>2, <1>6 DEF RebindReviewersOnce
  <2>2. /\ series' \in Seq(Nat) /\ Len(series') = Len(series) + 1
        /\ DOMAIN series' = DOMAIN series \union {Len(series) + 1}
        /\ \A n \in DOMAIN series : series'[n] = series[n]
        /\ series'[Len(series) + 1] = transition.id
    BY <1>3, <2>1 DEF ChecksInv, SeriesInv
  <2>3. \A n \in DOMAIN series' : series'[n] <= transitions
    BY <1>3, <2>2 DEF ChecksInv, SeriesInv
  <2>4. \A m, n \in DOMAIN series' : series'[m] = series'[n] => m = n
    BY <1>3, <2>2 DEF ChecksInv, SeriesInv, Unmade
  <2>5. SeriesInv'
    BY <1>1, <1>3, <2>2, <2>3, <2>4 DEF SeriesInv
  <2>6. TransitionInv'
    BY <1>1, <1>2, <1>3, <2>2 DEF TransitionInv, TransitionPending, Unmade, Made
  <2> QED BY <1>1, <1>4, <2>5, <2>6, SubjectMoves
<1> QED BY <1>5, <1>6

(* A new cycle: fresh rows beside the ones that stay. *)
LEMMA CycleBegins ==
    ASSUME ChecksInv, NEW n \in 1 .. MaxSubjects,
           rows' = [r \in DOMAIN rows \union {n} \X (1 .. CheckCount) |-> IF HasRow(r) THEN rows[r] ELSE FreshRow],
           UNCHANGED <<checkers, results, submitted, checkEvidence, around>>,
           \A r \in Rows : results[r].native # "running",
           SeriesInv', TransitionInv', SubjectInv'
    PROVE  ChecksInv'
<1>1. {n} \X (1 .. CheckCount) \subseteq Rows
  BY DEF Rows
<1>2. PICK fresh \in CheckRow :
         /\ fresh = FreshRow /\ fresh.observed = None /\ fresh.evidence = None /\ fresh.cleaned = FALSE
  <2>1. FreshRow \in CheckRow
    BY DEF FreshRow, CheckRow, CheckPhases
  <2>2. FreshRow.observed = None /\ FreshRow.evidence = None /\ FreshRow.cleaned = FALSE
    BY DEF FreshRow
  <2> QED BY <2>1, <2>2
<1>3. /\ DOMAIN rows \subseteq DOMAIN rows' /\ DOMAIN rows' \subseteq Rows
      /\ \A r \in DOMAIN rows : rows'[r] = rows[r]
      /\ \A r \in DOMAIN rows' : r \in DOMAIN rows \/ rows'[r] = fresh
  BY <1>1, <1>2 DEF HasRow, ChecksInv, RowsInv
<1>4. None # "judged"
  BY ChecksAssumption
<1>5. ASSUME NEW r \in DOMAIN rows' PROVE rows'[r] \in CheckRow /\ Observes(rows[r], results[r])'
  <2>1. CASE r \in DOMAIN rows
    BY <1>3, <2>1 DEF ChecksInv, RowsInv, Observes
  <2>2. CASE rows'[r] = fresh
    BY <1>2, <1>4, <2>2 DEF Observes
  <2> QED BY <1>3, <2>1, <2>2
<1>6. RowsInv'
  BY <1>3, <1>5 DEF RowsInv
<1>7. RowsGain
  BY <1>3 DEF RowsGain, Later, ChecksInv, RowsInv
<1>8. EvidenceInv' /\ NativeInv'
  BY <1>7, EvidenceStays, NativeStays DEF ChecksInv
<1>9. ChildrenInv' /\ AroundInv' /\ CurrentInv'
  BY DEF ChecksInv, ChildrenInv, AroundInv, CurrentInv
<1> QED BY <1>6, <1>8, <1>9 DEF ChecksInv

LEMMA ValidationStarts ==
    ASSUME ChecksInv, StartValidation
    PROVE  ChecksInv'
<1>1. /\ UNCHANGED <<transition, transitions, claimers, series, checkers, results, submitted, checkEvidence, around>>
      /\ subject = None /\ subject' = [revision |-> 1, binding |-> None]
      /\ rows' = [r \in {1} \X (1 .. CheckCount) |-> FreshRow]
  BY DEF StartValidation
<1>2. DOMAIN rows = {} /\ transition = None /\ Len(series) = 1
  BY <1>1 DEF ChecksInv, SubjectInv
<1>3. rows' = [r \in DOMAIN rows \union {1} \X (1 .. CheckCount) |-> IF HasRow(r) THEN rows[r] ELSE FreshRow]
  BY <1>1, <1>2 DEF HasRow
<1>4. \A r \in Rows : results[r].native # "running"
  BY <1>1 DEF ChecksInv, CurrentInv, InForce
<1>5. subject' \in SubjectRow /\ subject'.revision = 1
  BY <1>1 DEF SubjectRow
<1>6. subject' # None
  BY <1>5, ChecksAssumption
<1>7. 1 \in 1 .. MaxSubjects
  BY ChecksAssumption
<1>8. SubjectInv' /\ SeriesInv'
  BY <1>1, <1>5, <1>6, <1>7 DEF ChecksInv, SubjectInv, SeriesInv
<1>9. TransitionInv'
  BY <1>1, <1>2, <1>5, <1>6 DEF ChecksInv, TransitionInv, TransitionPending
<1> QED BY <1>1, <1>3, <1>4, <1>7, <1>8, <1>9, CycleBegins

LEMMA SubjectInstalls ==
    ASSUME ChecksInv, InstallSubject
    PROVE  ChecksInv'
<1>1. /\ UNCHANGED <<transitions, claimers, series, checkers, results, submitted, checkEvidence, around>>
      /\ subject' = [revision |-> subject.revision + 1, binding |-> transition.semantic]
      /\ transition # None /\ transition.phase = "ready"
      /\ transition' = [transition EXCEPT !.phase = "installed"]
      /\ rows' = [r \in DOMAIN rows \union {subject.revision + 1} \X (1 .. CheckCount) |->
                    IF HasRow(r) THEN rows[r] ELSE FreshRow]
  BY DEF InstallSubject
<1>2. PICK old \in TransitionRow : old = transition
  BY <1>1 DEF ChecksInv, TransitionInv
<1>3. /\ TransitionPending /\ subject # None /\ subject.revision \in 1 .. MaxSubjects
      /\ subject.revision < MaxSubjects /\ Len(series) = subject.revision + 1 /\ claimers = {}
      /\ old.id \in 1 .. transitions
  BY <1>1, <1>2 DEF ChecksInv, TransitionInv, TransitionPending, SubjectInv
<1>4. PICK n \in 1 .. MaxSubjects : n = subject.revision + 1
  BY <1>3, ChecksAssumption
<1>5. \A r \in Rows : results[r].native # "running"
  BY <1>3 DEF ChecksInv, CurrentInv, InForce
<1>6. /\ transition' \in TransitionRow /\ transition'.id = old.id /\ transition'.phase = "installed"
  BY <1>1, <1>2 DEF TransitionRow
<1>7. subject' \in SubjectRow /\ subject'.revision = n
  BY <1>1, <1>2, <1>4 DEF SubjectRow, TransitionRow
<1>8. subject' # None /\ transition' # None
  BY <1>6, <1>7, ChecksAssumption
<1>9. SubjectInv' /\ SeriesInv'
  BY <1>1, <1>7, <1>8 DEF ChecksInv, SubjectInv, SeriesInv
<1>10. TransitionInv'
  BY <1>1, <1>3, <1>4, <1>6, <1>7, <1>8 DEF TransitionInv, TransitionPending
<1>11. rows' = [r \in DOMAIN rows \union {n} \X (1 .. CheckCount) |-> IF HasRow(r) THEN rows[r] ELSE FreshRow]
  BY <1>1, <1>4
<1> QED BY <1>1, <1>5, <1>9, <1>10, <1>11, CycleBegins

-----------------------------------------------------------------------------
LEMMA ChecksBegin == ChecksInit => ChecksInv
<1> SUFFICES ASSUME ChecksInit PROVE ChecksInv
  OBVIOUS
<1>1. PICK fresh \in ResultRow : /\ fresh.native = None /\ fresh.stop = None
                                  /\ results = [r \in Rows |-> fresh]
  <2>1. PICK fresh : fresh = [claimed |-> FALSE, cancelled |-> FALSE, native |-> None, stop |-> None]
    OBVIOUS
  <2> QED BY <2>1 DEF ChecksInit, ResultRow
<1>2. DOMAIN rows = {}
  BY DEF ChecksInit
<1>3. RowsInv
  BY <1>2 DEF RowsInv
<1>4. ChildrenInv
  BY <1>1, ChecksAssumption DEF ChecksInit, ChildrenInv, ChildFits, Stops
<1>5. NativeInv /\ CurrentInv
  BY <1>1, ChecksAssumption DEF ChecksInit, NativeInv, Beyond, CurrentInv, CheckerStates
<1>6. EvidenceInv /\ AroundInv
  BY ChecksAssumption DEF ChecksInit, EvidenceInv, AroundInv
<1>7. SeriesInv /\ TransitionInv /\ SubjectInv
  BY <1>2 DEF ChecksInit, SeriesInv, TransitionInv, TransitionPending, SubjectInv
<1> QED BY <1>3, <1>4, <1>5, <1>6, <1>7 DEF ChecksInv

LEMMA ChecksGoOn == ChecksInv /\ [ChecksNext]_checkVars => ChecksInv'
<1> SUFFICES ASSUME ChecksInv, [ChecksNext]_checkVars PROVE ChecksInv'
  OBVIOUS
<1>1. CASE UNCHANGED checkVars
  BY <1>1, ChecksIdle DEF checkVars, subjectVars
<1>2. CASE StartValidation \/ InstallSubject
  BY <1>2, ValidationStarts, SubjectInstalls
<1>3. CASE StageTransition \/ ReplaceTransition \/ ClaimRebind \/ MarkReady
  BY <1>3, StageSteps, ClaimSteps
<1>4. CASE CancelChecks \/ CancelRows \/ SurroundingsChange
  BY <1>4, CancelRowsStep, AroundStep
<1>5. CASE \E id \in 1 .. MaxTransitions : RebindReviewersOnce(id) \/ ClaimerStops(id)
  BY <1>5, RebindSteps
<1>6. CASE \E r \in Rows : ClaimCheck(r) \/ PrepareCheckHost(r) \/ ClaimStart(r) \/ RecordCheckStarted(r)
  BY <1>6, LedgerSteps
<1>7. CASE \E r \in Rows : StartCheckHost(r) \/ GuardCheck(r) \/ ClaimDirectory(r) \/ StartCheck(r)
  BY <1>7, ChildSteps
<1>8. CASE \E r \in Rows : CheckEnds(r) \/ PublishResult(r) \/ CheckerStops(r) \/ CancelNative(r) \/ CancelCheckHost(r)
  BY <1>8, EndSteps
<1>9. CASE \E r \in Rows : ClaimNative(r) \/ CheckerFails(r)
  BY <1>9, NativeSteps
<1>10. CASE \E r \in Rows : ClaimEvidence(r) \/ SubmitEvidence(r) \/ SubmitterStops(r)
  BY <1>10, EvidenceSteps
<1>11. CASE \E r \in Rows : SaveObservation(r) \/ LinkEvidence(r) \/ RecordCleanup(r)
  BY <1>11, ObservationStep, LinkStep, CleanupStep
<1> QED BY <1>1, <1>2, <1>3, <1>4, <1>5, <1>6, <1>7, <1>8, <1>9, <1>10, <1>11 DEF ChecksNext

(* What the invariant says of a state. *)
LEMMA ChecksAreSound ==
    ASSUME ChecksInv
    PROVE  /\ \A r \in DOMAIN rows : results[r].native = "running" => CheckIsCurrent(r) /\ ~TransitionPending
           /\ ResultsAreReal /\ SeriesIsAccounted
<1>1. ASSUME NEW r \in DOMAIN rows, results[r].native = "running" PROVE CheckIsCurrent(r) /\ ~TransitionPending
  BY <1>1 DEF ChecksInv, RowsInv, CurrentInv, InForce
<1>2. ASSUME NEW r \in DOMAIN rows, rows[r].evidence = "judged"
      PROVE  results[r].native = "ended" /\ results[r].stop = "confirmed"
  <2>1. r \in Rows /\ Observes(rows[r], results[r]) /\ ChildFits(checkers[r], results[r])
    BY DEF ChecksInv, RowsInv, ChildrenInv
  <2> QED BY <1>2, <2>1, ChecksAssumption DEF Observes, ChildFits, Stops
<1>3. ResultsAreReal
  BY <1>2 DEF ChecksInv, EvidenceInv, ResultsAreReal
<1>4. ASSUME subject # None
      PROVE  \/ SubjectStands(subject.revision)
             \/ /\ SubjectStands(subject.revision + 1) /\ transition.expected = subject.revision
                /\ transition.phase \in {"rebind_claimed", "ready"}
                /\ series[subject.revision + 1] = transition.id
  <2>1. CASE ~TransitionPending
    BY <1>4, <2>1 DEF ChecksInv, TransitionInv, SubjectStands
  <2>2. CASE TransitionPending
    <3>1. transition \in TransitionRow /\ transition # None /\ transition.phase # "installed"
      BY <2>2 DEF TransitionPending, ChecksInv, TransitionInv
    <3>2. transition.phase \in {"prepared", "rebind_claimed", "ready"}
      BY <3>1 DEF TransitionRow
    <3> QED BY <2>2, <3>1, <3>2 DEF ChecksInv, TransitionInv, SubjectStands, Made
  <2> QED BY <2>1, <2>2
<1>5. SeriesIsAccounted
  BY <1>4 DEF ChecksInv, SeriesInv, SeriesIsAccounted
<1> QED BY <1>1, <1>3, <1>5

(* Only StartCheck starts a process, and its guards hold then. *)
StartsSoundly ==
    \A r \in Rows : results[r].native # results'[r].native /\ results'[r].native = "running" =>
        /\ results[r].native = None /\ ~around.cancel /\ around.approved /\ ~around.late
        /\ BindingStands(subject.binding)

LEMMA StartsAreGuarded ==
    ASSUME ChecksInv, [ChecksNext]_checkVars
    PROVE  StartsSoundly
<1> SUFFICES ASSUME NEW r \in Rows, results[r].native # results'[r].native, results'[r].native = "running"
             PROVE  /\ results[r].native = None /\ ~around.cancel /\ around.approved /\ ~around.late
                    /\ BindingStands(subject.binding)
  BY DEF StartsSoundly
<1>1. results' # results /\ results \in [Rows -> ResultRow]
  BY DEF ChecksInv, ChildrenInv
<1>2. \E q \in Rows : ClaimDirectory(q) \/ StartCheck(q) \/ CheckEnds(q) \/ PublishResult(q) \/ CancelNative(q)
  BY <1>1 DEF ChecksNext, checkVars, StartValidation, InstallSubject, StageTransition, ReplaceTransition, ClaimRebind,
              MarkReady, CancelChecks, CancelRows, SurroundingsChange, RebindReviewersOnce, ClaimerStops, ClaimCheck,
              PrepareCheckHost, ClaimStart, StartCheckHost, RecordCheckStarted, GuardCheck, ClaimNative, CheckerFails,
              CheckerStops, SaveObservation, ClaimEvidence, SubmitEvidence, SubmitterStops, LinkEvidence,
              CancelCheckHost, RecordCleanup
<1>3. PICK q \in Rows : ClaimDirectory(q) \/ StartCheck(q) \/ CheckEnds(q) \/ PublishResult(q) \/ CancelNative(q)
  BY <1>2
<1>4. PICK old \in ResultRow : old = results[q]
  BY <1>1
<1>5. \A p \in Rows : p # q => results'[p] = results[p]
  BY <1>1, <1>3 DEF ClaimDirectory, StartCheck, CheckEnds, PublishResult, CancelNative
<1>6. q = r
  BY <1>5
<1>7. ~ClaimDirectory(q) /\ ~PublishResult(q)
  <2>1. ClaimDirectory(q) => results'[q].native = results[q].native
    BY <1>1, <1>4 DEF ClaimDirectory, ResultRow
  <2>2. PublishResult(q) => results'[q].native = results[q].native
    BY <1>1, <1>4 DEF PublishResult, ResultRow
  <2> QED BY <1>6, <2>1, <2>2
<1>8. ~CheckEnds(q) /\ ~CancelNative(q)
  <2>1. CheckEnds(q) => results'[q].native # "running"
    BY <1>1, <1>4 DEF CheckEnds, ResultRow
  <2>2. CancelNative(q) => results'[q].native \in {None, "ended"}
    BY <1>1, <1>4 DEF CancelNative, ResultRow
  <2> QED BY <1>6, <2>1, <2>2, ChecksAssumption DEF CheckerStates
<1>9. StartCheck(r)
  BY <1>3, <1>6, <1>7, <1>8
<1>10. results[r].native = None
  BY <1>9 DEF StartCheck, CheckerGoes, ChecksInv, ChildrenInv, ChildFits
<1> QED BY <1>9, <1>10 DEF StartCheck, NativeGuard, CheckGuard, MayAdvance, Preparable, ProcessCurrent

(***************************************************************************)
(* The checks of a candidate are the subject's in force: for any policy,   *)
(* any number of subjects and transitions and any course of the            *)
(* qualifications, nothing runs for an archived subject or during a        *)
(* transition, a process starts once and under every guard, and evidence   *)
(* is submitted once and judged only when the process was seen to end      *)
(* (candidate_checks.py, candidate_subjects.py, reviewer_binding.py).      *)
(***************************************************************************)
THEOREM ChecksStayCurrent == ChecksSpec => ChecksAreCurrent
<1>1. ChecksInv /\ [ChecksNext]_checkVars => StartsSoundly
  BY StartsAreGuarded
<1>2. ChecksInv => /\ \A r \in DOMAIN rows : results[r].native = "running" => CheckIsCurrent(r) /\ ~TransitionPending
                   /\ ResultsAreReal /\ SeriesIsAccounted
  BY ChecksAreSound
<1>3. ChecksSpec => []ChecksInv
  BY ChecksBegin, ChecksGoOn, PTL DEF ChecksSpec
<1>4. ChecksSpec => [](/\ \A r \in DOMAIN rows : results[r].native = "running" => CheckIsCurrent(r) /\ ~TransitionPending
                       /\ ResultsAreReal /\ SeriesIsAccounted)
  BY <1>2, <1>3, PTL
<1>5. ChecksSpec => [][StartsSoundly]_checkVars
  BY <1>1, <1>3, PTL DEF ChecksSpec
<1>6. [][StartsSoundly]_checkVars <=>
         [][\A r \in Rows : results[r].native # results'[r].native /\ results'[r].native = "running" =>
             /\ results[r].native = None /\ ~around.cancel /\ around.approved /\ ~around.late
             /\ BindingStands(subject.binding)]_checkVars
  BY PTL DEF StartsSoundly
<1> QED BY <1>4, <1>5, <1>6, PTL DEF ChecksAreCurrent

==============================================================================
