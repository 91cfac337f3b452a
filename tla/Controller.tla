----------------------------- MODULE Controller -----------------------------
(***************************************************************************)
(* The local protection path: SensorTask -> measurementQueue ->            *)
(* ControlTask -> protection.cpp (a ProtectionCore behind a mutex) ->      *)
(* actuator, with the tasks that read the state, send commands, or restart *)
(* the controller beside it, and setup(), which creates the tasks one by   *)
(* one while those it has created already run.                             *)
(*                                                                         *)
(* A step is what a task does between two accesses to something shared.    *)
(* The queue and semaphore primitives are FreeRTOS's; a lock attempt times *)
(* out only while another task holds the mutex.  Time is millis() from     *)
(* boot, up to MaxNow (wrapping is ProtectionMachine's subject).  The copy *)
(* of the latest sample for the displays is Reporting's subject.           *)
(***************************************************************************)
EXTENDS ProtectionCore, Actuator, Sequences

CONSTANTS
  Readings,            \* what the sensor may read
  Commands,            \* the commands that may be sent
  Readers,             \* Display-, Network- and CliTask, which take snapshots
  QueueLength,         \* MEASUREMENT_QUEUE_LENGTH
  CommandQueueLength,  \* COMMAND_QUEUE_LENGTH
  MaxNow               \* bound of the model's clock

ASSUME ControllerAssumption ==
  /\ Readings \subseteq [valid : BOOLEAN, voltage : Nat, power : Nat]
  /\ Commands \subseteq {"RESET", "ACK"}
  /\ QueueLength \in Nat \ {0}
  /\ CommandQueueLength \in Nat \ {0}
  /\ MaxNow \in 0 .. Half - 1
  /\ "control" \in Writers /\ Writers \subseteq {"control", "watchdog", "setup"}
  /\ Readers \subseteq {"display", "network", "cli"}

VARIABLES
  core,      \* the ProtectionCore object
  pending,   \* internalFaultPending
  holder,    \* who holds protectionMutex
  now,       \* millis()
  sensor,    \* SensorTask: the sample it is sending, or Nothing
  samples,   \* measurementQueue
  commands,  \* commandQueue
  control,   \* ControlTask: where it is, and its local variables
  stalled,   \* ControlTask hangs
  watchdog,  \* WatchdogTask: supervising, driving the safe output, or waiting
  setup,     \* setup(): creating tasks, in fatalStop(), stopped there, or complete
  created    \* how many tasks setup() has created

protectionVars == <<core, pending, holder>>
queueVars == <<samples, commands>>
controlVars == <<control, stalled>>
setupVars == <<setup, created>>
supervision == <<watchdog, setupVars>>
vars == <<protectionVars, now, sensor, queueVars, controlVars, supervision, actuatorVars>>

Nothing == [valid |-> FALSE, voltage |-> 0, power |-> 0, timestamp |-> -1]
Nobody == "nobody"

\* at: "receive" (waiting for a sample), "update" and "tick" (asking for the
\* lock), "updateLocked", "tickLocked" (holding it), "apply" (driving the
\* result), "drain" (taking commands), "reset", "resetLocked", "ack",
\* "ackLocked".  input: the sample.  result: the state to be applied.
ControlSteps ==
  {"receive", "update", "updateLocked", "tick", "tickLocked", "apply", "drain",
   "reset", "resetLocked", "ack", "ackLocked"}
Idle == [at |-> "receive", input |-> Nothing, result |-> "INIT"]

\* createTasks()
TaskOrder == <<"sensor", "control", "display", "network", "watchdog", "cli">>
Exists(task) == \E i \in 1 .. created : TaskOrder[i] = task

\* Where setup() stands at first: before its first task, unless its steps are
\* left out.
FirstSetup == IF "setup" \in Writers THEN "creating" ELSE "complete"
FirstCreated == IF "setup" \in Writers THEN 0 ELSE Len(TaskOrder)

Init ==
  /\ core = Begin(0) /\ pending = FALSE /\ holder = Nobody
  /\ now = 0 /\ sensor = Nothing /\ samples = <<>> /\ commands = <<>>
  /\ control = Idle /\ stalled = FALSE /\ watchdog = "supervise"
  /\ setup = FirstSetup /\ created = FirstCreated
  /\ ActuatorInit

Advance ==
  /\ now < MaxNow
  /\ now' = now + 1
  /\ UNCHANGED <<protectionVars, sensor, queueVars, controlVars, supervision, actuatorVars>>

-----------------------------------------------------------------------------
(***************************************************************************)
(* setup().  A mutex, queue or task that cannot be created, or a task      *)
(* watchdog that cannot be configured, leads to fatalStop(): the safe      *)
(* output, once, then nothing more, while the tasks created before run on. *)
(***************************************************************************)

CreateTask ==
  /\ setup = "creating"
  /\ created' = created + 1
  /\ setup' = IF created' = Len(TaskOrder) THEN "complete" ELSE "creating"
  /\ UNCHANGED <<protectionVars, now, sensor, queueVars, controlVars, watchdog, actuatorVars>>

SetupFails ==
  /\ setup = "creating"
  /\ setup' = "fatal"
  /\ UNCHANGED <<protectionVars, now, sensor, queueVars, controlVars, watchdog, created, actuatorVars>>

FatalStop ==
  /\ setup = "fatal"
  /\ \/ StartDrive("setup", "FAULT") /\ UNCHANGED setup
     \/ DriveStep("setup") /\ UNCHANGED setup
     \/ Return("setup") /\ setup' = "stopped"
  /\ UNCHANGED <<protectionVars, now, sensor, queueVars, controlVars, watchdog, created>>

-----------------------------------------------------------------------------
(***************************************************************************)
(* SensorTask.  The sample is stamped when it is read; the send waits for  *)
(* room and gives up after a while: then the newest sample is lost.        *)
(***************************************************************************)

Sense(reading) ==
  /\ Exists("sensor") /\ sensor = Nothing
  /\ sensor' = [valid |-> reading.valid, voltage |-> reading.voltage,
                power |-> reading.power, timestamp |-> now]
  /\ UNCHANGED <<protectionVars, now, queueVars, controlVars, supervision, actuatorVars>>

\* Faulty variant: the sample overtakes the queue.
SendSampleBugFront ==
  /\ sensor # Nothing
  /\ samples' = IF Len(samples) < QueueLength THEN <<sensor>> \o samples ELSE samples
  /\ sensor' = Nothing
  /\ UNCHANGED <<protectionVars, now, commands, controlVars, supervision, actuatorVars>>

SendSample ==
  /\ sensor # Nothing
  /\ samples' = IF Len(samples) < QueueLength THEN Append(samples, sensor) ELSE samples
  /\ sensor' = Nothing
  /\ UNCHANGED <<protectionVars, now, commands, controlVars, supervision, actuatorVars>>

-----------------------------------------------------------------------------
(***************************************************************************)
(* The other users of the mutex and of the command queue.                  *)
(***************************************************************************)

ReaderLocks(r) ==
  /\ Exists(r) /\ holder = Nobody
  /\ holder' = r
  /\ UNCHANGED <<core, pending, now, sensor, queueVars, controlVars, supervision, actuatorVars>>

ReaderUnlocks(r) ==
  /\ holder = r
  /\ holder' = Nobody
  /\ UNCHANGED <<core, pending, now, sensor, queueVars, controlVars, supervision, actuatorVars>>

\* Cli- and NetworkTask; a command that finds the queue full is dropped.
SendCommand(command) ==
  /\ Exists("network") \/ Exists("cli")
  /\ Len(commands) < CommandQueueLength
  /\ commands' = Append(commands, command)
  /\ UNCHANGED <<protectionVars, now, sensor, samples, controlVars, supervision, actuatorVars>>

-----------------------------------------------------------------------------
(***************************************************************************)
(* ControlTask.                                                            *)
(***************************************************************************)

Goto(step) == control' = [control EXCEPT !.at = step]

ReceiveSample ==
  /\ control.at = "receive" /\ samples # <<>>
  /\ control' = [control EXCEPT !.at = "update", !.input = Head(samples)]
  /\ samples' = Tail(samples)
  /\ UNCHANGED <<protectionVars, now, sensor, commands, supervision, actuatorVars>>

ReceiveTimeout ==
  /\ control.at = "receive" /\ samples = <<>>
  /\ Goto("tick")
  /\ UNCHANGED <<protectionVars, now, sensor, queueVars, supervision, actuatorVars>>

ControlLocks ==
  /\ control.at \in {"update", "tick", "reset", "ack"}
  /\ holder = Nobody
  /\ holder' = "control"
  /\ Goto(CASE control.at = "update" -> "updateLocked"
            [] control.at = "tick" -> "tickLocked"
            [] control.at = "reset" -> "resetLocked"
            [] control.at = "ack" -> "ackLocked")
  /\ UNCHANGED <<core, pending, now, sensor, queueVars, supervision, actuatorVars>>

\* Faulty variant: a failed lock leaves the outputs alone.
ControlLockTimeoutBug ==
  /\ control.at \in {"update", "tick", "reset", "ack"}
  /\ holder \in Readers
  /\ pending' = (pending \/ control.at \in {"update", "tick"})
  /\ control' = [Idle EXCEPT !.at = "drain"]
  /\ UNCHANGED <<core, holder, now, sensor, queueVars, supervision, actuatorVars>>

\* update() and tick() answer with lockFailureResult() and remember the failure;
\* a reset or an acknowledgement is just refused.
ControlLockTimeout ==
  /\ control.at \in {"update", "tick", "reset", "ack"}
  /\ holder \in Readers
  /\ IF control.at \in {"update", "tick"}
       THEN /\ pending' = TRUE
            /\ control' = [at |-> "apply", input |-> Nothing, result |-> "FAULT"]
       ELSE /\ Goto("drain")
            /\ UNCHANGED pending
  /\ UNCHANGED <<core, holder, now, sensor, queueVars, supervision, actuatorVars>>

\* Faulty variant: the failure is cleared but not raised.
WithPendingFaultBug(c) == c

\* applyPendingInternalFault()
WithPendingFault(c) == IF pending THEN RaiseInternalFault(c) ELSE c

\* Faulty variant: the outputs are driven only when the state has changed.
ControlJudgesBugOnChange ==
  /\ control.at \in {"updateLocked", "tickLocked"}
  /\ core' = IF control.at = "updateLocked"
               THEN Update(WithPendingFault(core), control.input, now)
               ELSE Tick(WithPendingFault(core), now)
  /\ pending' = FALSE
  /\ holder' = Nobody
  /\ control' = IF core'.state = core.state THEN [Idle EXCEPT !.at = "drain"]
                ELSE [at |-> "apply", input |-> Nothing, result |-> core'.state]
  /\ UNCHANGED <<now, sensor, queueVars, supervision, actuatorVars>>

\* The critical section of protectionUpdate() and protectionTick().
ControlJudges ==
  /\ control.at \in {"updateLocked", "tickLocked"}
  /\ core' = IF control.at = "updateLocked"
               THEN Update(WithPendingFault(core), control.input, now)
               ELSE Tick(WithPendingFault(core), now)
  /\ pending' = FALSE
  /\ holder' = Nobody
  /\ control' = [at |-> "apply", input |-> Nothing, result |-> core'.state]
  /\ UNCHANGED <<now, sensor, queueVars, supervision, actuatorVars>>

\* The outputs are driven on every result, and by an accepted reset.
ControlDrives ==
  /\ control.at = "apply"
  /\ \/ StartDrive("control", control.result) /\ UNCHANGED control
     \/ DriveStep("control") /\ UNCHANGED control
     \/ Return("control") /\ control' = [Idle EXCEPT !.at = "drain"]
  /\ UNCHANGED <<protectionVars, now, sensor, queueVars, supervision>>

TakeCommand ==
  /\ control.at = "drain" /\ commands # <<>>
  /\ Goto(IF Head(commands) = "RESET" THEN "reset" ELSE "ack")
  /\ commands' = Tail(commands)
  /\ UNCHANGED <<protectionVars, now, sensor, samples, supervision, actuatorVars>>

NoMoreCommands ==
  /\ control.at = "drain" /\ commands = <<>>
  /\ Goto("receive")
  /\ UNCHANGED <<protectionVars, now, sensor, queueVars, supervision, actuatorVars>>

\* Faulty variant: an accepted reset closes the relay at once.
ControlResetsBugClose ==
  /\ control.at = "resetLocked"
  /\ core' = RequestReset(WithPendingFault(core), now)
  /\ pending' = FALSE
  /\ holder' = Nobody
  /\ control' = IF ResetVerdict(WithPendingFault(core), now) = "ACCEPTED"
                  THEN [control EXCEPT !.at = "apply", !.result = "NORMAL"]
                  ELSE [control EXCEPT !.at = "drain"]
  /\ UNCHANGED <<now, sensor, queueVars, supervision, actuatorVars>>

\* An accepted reset drives INIT: relay OFF until a later good sample.
ControlResets ==
  /\ control.at = "resetLocked"
  /\ core' = RequestReset(WithPendingFault(core), now)
  /\ pending' = FALSE
  /\ holder' = Nobody
  /\ control' = IF ResetVerdict(WithPendingFault(core), now) = "ACCEPTED"
                  THEN [control EXCEPT !.at = "apply", !.result = "INIT"]
                  ELSE [control EXCEPT !.at = "drain"]
  /\ UNCHANGED <<now, sensor, queueVars, supervision, actuatorVars>>

\* Faulty variant: the lock is kept.
ControlAcknowledgesBugLock ==
  /\ control.at = "ackLocked"
  /\ core' = Acknowledge(core)
  /\ Goto("drain")
  /\ UNCHANGED <<holder, pending, now, sensor, queueVars, supervision, actuatorVars>>

ControlAcknowledges ==
  /\ control.at = "ackLocked"
  /\ core' = Acknowledge(core)
  /\ holder' = Nobody
  /\ Goto("drain")
  /\ UNCHANGED <<pending, now, sensor, queueVars, supervision, actuatorVars>>

Control ==
  /\ Exists("control") /\ ~stalled
  /\ \/ ReceiveSample \/ ReceiveTimeout \/ ControlLocks \/ ControlLockTimeout
     \/ ControlJudges \/ ControlDrives \/ TakeCommand \/ NoMoreCommands
     \/ ControlResets \/ ControlAcknowledges
  /\ UNCHANGED stalled

-----------------------------------------------------------------------------
(***************************************************************************)
(* WatchdogTask, once a heartbeat is stale (Watchdog.tla says when): the   *)
(* safe output, a delay in which the other tasks still run, the restart.   *)
(* The stale heartbeat may be ControlTask's, which then hangs somewhere in *)
(* its loop, or another task's.                                            *)
(***************************************************************************)

ControlStalls ==
  /\ "watchdog" \in Writers /\ Exists("control")
  /\ watchdog = "supervise" /\ ~stalled
  /\ stalled' = TRUE
  /\ UNCHANGED <<protectionVars, now, sensor, queueVars, control, supervision, actuatorVars>>

\* Faulty variant: the restart without the safe output.
WatchdogFailsBug ==
  /\ "watchdog" \in Writers /\ Exists("watchdog")
  /\ watchdog = "supervise"
  /\ watchdog' = "delay"
  /\ UNCHANGED <<protectionVars, now, sensor, queueVars, controlVars, setupVars, actuatorVars>>

WatchdogFails ==
  /\ "watchdog" \in Writers /\ Exists("watchdog")
  /\ watchdog = "supervise"
  /\ watchdog' = "drive"
  /\ UNCHANGED <<protectionVars, now, sensor, queueVars, controlVars, setupVars, actuatorVars>>

WatchdogDrives ==
  /\ watchdog = "drive"
  /\ \/ StartDrive("watchdog", "FAULT") /\ UNCHANGED watchdog
     \/ DriveStep("watchdog") /\ UNCHANGED watchdog
     \/ Return("watchdog") /\ watchdog' = "delay"
  /\ UNCHANGED <<protectionVars, now, sensor, queueVars, controlVars, setupVars>>

\* setup() up to the first task.
Reboot ==
  /\ core' = Begin(0) /\ pending' = FALSE /\ holder' = Nobody
  /\ now' = 0 /\ sensor' = Nothing /\ samples' = <<>> /\ commands' = <<>>
  /\ control' = Idle /\ stalled' = FALSE /\ watchdog' = "supervise"
  /\ setup' = FirstSetup /\ created' = FirstCreated
  /\ ActuatorRestart

\* esp_restart()
WatchdogRestarts == watchdog = "delay" /\ Reboot

\* The task watchdog of ESP-IDF, for a hung ControlTask before, or without,
\* WatchdogTask.
HardwareRestarts == stalled /\ ~Exists("watchdog") /\ Reboot

Next ==
  \/ Advance
  \/ CreateTask \/ SetupFails \/ FatalStop
  \/ \E reading \in Readings : Sense(reading)
  \/ SendSample
  \/ \E r \in Readers : ReaderLocks(r) \/ ReaderUnlocks(r)
  \/ \E command \in Commands : SendCommand(command)
  \/ Control
  \/ ControlStalls \/ WatchdogFails \/ WatchdogDrives \/ WatchdogRestarts
  \/ HardwareRestarts

Spec == Init /\ [][Next]_vars

\* ControlTask, unless it hangs, goes on (a lock attempt ends by getting the lock
\* or by its timeout), and commands do not arrive faster than it takes them; a
\* hung ControlTask is noticed, by WatchdogTask or, where there is none, by the
\* task watchdog, and the controller restarted.
Fairness ==
  /\ WF_vars(Control)
  /\ []<>(stalled \/ control.at = "receive")
  /\ WF_vars(stalled /\ WatchdogFails)
  /\ WF_vars(WatchdogDrives) /\ WF_vars(WatchdogRestarts)
  /\ WF_vars(HardwareRestarts)

FairSpec == Spec /\ Fairness

-----------------------------------------------------------------------------
(***************************************************************************)
(* Properties.                                                             *)
(***************************************************************************)

\* The variables hold what the code's types and queue lengths allow, and the
\* mutex is held exactly through the critical sections.
TypeOK ==
  /\ core \in Core /\ pending \in BOOLEAN
  /\ holder \in Readers \cup {"control", Nobody}
  /\ now \in 0 .. MaxNow
  /\ sensor \in Measurement \cup {Nothing}
  /\ samples \in Seq(Measurement) /\ Len(samples) <= QueueLength
  /\ commands \in Seq(Commands) /\ Len(commands) <= CommandQueueLength
  /\ control \in [at : ControlSteps, input : Measurement \cup {Nothing},
                 result : SystemState]
  /\ stalled \in BOOLEAN /\ watchdog \in {"supervise", "drive", "delay"}
  /\ setup \in {"creating", "fatal", "stopped", "complete"}
  /\ created \in 0 .. Len(TaskOrder)
  /\ ActuatorTypeOK
  /\ holder = "control" <=>
       control.at \in {"updateLocked", "tickLocked", "resetLocked", "ackLocked"}

\* Neither WatchdogTask nor fatalStop() has begun to write the outputs.
OnlyControlWrites == watchdog = "supervise" /\ setup \in {"creating", "complete"}

\* ControlTask is on its way to write the OFF level.
IsOpening ==
  /\ control.at = "apply" /\ ~RelayCommandedOn(control.result)
  /\ drive["control"].at \in {"idle", "level", "write"}

\* As long as ControlTask is the only writer, the relay is closed only while the
\* protection object is in an operating state and no lock failure is pending,
\* or ControlTask is already opening it.
RelayFollowsCore ==
  OnlyControlWrites /\ relay =>
    (core.state \in Energising /\ ~pending) \/ IsOpening

\* The samples reach the protection object in the order they were taken, and
\* none is from the future: what ProtectionMachine takes for granted.
SamplesInOrder ==
  LET Stamps(m) == IF m = Nothing THEN {} ELSE {m.timestamp}
      judged == {core.last.timestamp}
      taken == Stamps(control.input)
      queued == {samples[i].timestamp : i \in 1 .. Len(samples)}
      sensed == Stamps(sensor)
      Before(s, t) == \A a \in s, b \in t : a <= b
  IN  /\ \A i, j \in 1 .. Len(samples) :
            i < j => samples[i].timestamp <= samples[j].timestamp
      /\ Before(judged, taken \cup queued \cup sensed)
      /\ Before(taken, queued \cup sensed)
      /\ Before(queued, sensed)
      /\ Before(judged \cup taken \cup queued \cup sensed, {now})

\* The step that closes the relay carries out the verdict of a judged sample:
\* valid, powered, taken since the re-arm point, with no fault latched or pending.
ClosesOnVerdict ==
  OnlyControlWrites /\ ~relay /\ relay' =>
    /\ ~core.fault.active /\ ~pending
    /\ core.last.valid /\ core.last.voltage > MinOperatingVoltageV
    /\ ~core.awaitingFirstSample /\ core.rearmMs <= core.last.timestamp

RelayClosesOnVerdict == [][ClosesOnVerdict]_vars

\* A lock failure that update() or tick() has recorded as pending is forgotten only by
\* a restart, by latching a fault, or by a reset that finds fresh, valid, safe data;
\* then the relay is open.  The comment at protection.cpp:24-26 promises more than the
\* code does: that the failure of any call is recorded, and that the next call with
\* the lock latches it.  A reset, an acknowledgement or a snapshot without the lock is
\* only refused, and an acknowledgement with it leaves pending alone.
ConsumesPending ==
  pending /\ ~pending' =>
    \/ core'.fault.active
    \/ WatchdogRestarts \/ HardwareRestarts
    \/ /\ control.at = "resetLocked" /\ core'.state = "INIT"
       /\ IsFresh(core.last, now) /\ core.last.valid
       /\ OnlyControlWrites => ~relay

RecordedFailureIsNotLost == [][ConsumesPending]_vars

\* What is latched: a fault, or a lock failure that will be one.
Recorded ==
  IF core.fault.active THEN core.fault.activeFault
  ELSE IF pending THEN "PROTECTION_INTERNAL" ELSE "NONE"

\* As the pin shows it: while ControlTask is on its way to open the relay, the latch
\* has not got there yet.
Latched == IF relay /\ IsOpening THEN "NONE" ELSE Recorded

Pin == INSTANCE LatchedRelay WITH
  Causes <- FaultCode \ {"NONE"}, permit <- relay, latch <- Latched

\* As long as ControlTask is the only writer, the tasks, queues and locks between the
\* core and the pin keep the core's promise: a fault or lock failure that has
\* opened the relay keeps it open, under its first cause, until it is cleared.
PinIsLatchedRelay == Pin!Spec

\* protection.cpp says that a reset that raced a lock failure cannot erase the
\* PROTECTION_INTERNAL fault it stands for, and that the next call latches it.
ResetKeepsPending ==
  pending /\ control.at = "resetLocked" /\ control'.at # "resetLocked"
    /\ watchdog # "delay" => core'.fault.active

ResetCannotErasePendingFault == [][ResetKeepsPending]_vars

\* WatchdogTask leaves the relay open when it restarts the controller
\* (docs/architecture.md: safe output, then esp_restart()).
SafeOutputBeforeRestart == watchdog = "delay" => ~relay

\* It does when the task that hangs is ControlTask, wherever it hangs, once setup()
\* is through and writes the relay no more.
SafeOutputIfControlHangs ==
  stalled /\ watchdog = "delay" /\ setup = "complete" => ~relay

\* Every latched fault is followed by an open relay.
LatchedFaultOpensRelay == core.fault.active ~> ~relay

\* A fault that stays latched keeps the relay open in the end, also when
\* fatalStop() or WatchdogTask wrote the relay at the same time as ControlTask
\* and its drive was lost: the outputs are applied again on every result.
LatchedFaultKeepsRelayOpen == <>[]core.fault.active => <>[]~relay

-----------------------------------------------------------------------------
(***************************************************************************)
(* The inductive invariant, in named parts.                                *)
(***************************************************************************)

\* A task is inside drive() only while it calls the actuator.
Calls(w) ==
  \/ w = "control" /\ control.at = "apply"
  \/ w = "watchdog" /\ watchdog = "drive"
  \/ w = "setup" /\ setup = "fatal"

CallsMatch ==
  /\ \A w \in Writers : drive[w] # NotDriving => Calls(w)
  /\ watchdog # "supervise" => "watchdog" \in Writers
  /\ setup # "complete" => "setup" \in Writers
  /\ setup = "creating" => created < Len(TaskOrder)

\* What ControlTask judges is a sample.
InputIsSample == control.at \in {"update", "updateLocked"} => control.input \in Measurement

\* An operating state rests on a valid, powered sample, taken since the re-arm
\* point.
EnergisedOnGoodSample ==
  /\ core.rearmMs <= now
  /\ core.state \in Energising =>
       /\ core.last.valid /\ core.last.voltage > MinOperatingVoltageV
       /\ core.rearmMs <= core.last.timestamp

\* Nothing changes the protection object while its verdict is driven.
VerdictStands ==
  control.at = "apply" /\ RelayCommandedOn(control.result) =>
    core.state \in Energising /\ ~pending

\* Alone in drive(), ControlTask writes what it was asked to, and reads it back.
ControlDrivesItsResult ==
  OnlyControlWrites =>
    LET call == drive["control"]
        level == RelayPinDrivenOn(RelayCommandedOn(control.result))
    IN  /\ call.at = "level" => /\ call.on = RelayCommandedOn(control.result)
                                /\ commandedOn = call.on
        /\ call.at \in {"write", "check"} => call.level = level
        /\ call.at \in {"check", "done"} => relay = level
        /\ call.at # "retry"

\* WatchdogTask is alone in drive() when ControlTask hangs, and drives OFF.
WatchdogDrivesOff ==
  stalled /\ watchdog # "supervise" /\ setup \in {"creating", "complete"} =>
    LET call == drive["watchdog"]
    IN  /\ call.at = "level" => ~commandedOn /\ ~call.on
        /\ call.at \in {"write", "check", "retry"} => ~call.level
        /\ call.at \in {"check", "done"} \/ watchdog = "delay" => ~relay

IInv ==
  /\ TypeOK /\ CallsMatch /\ InputIsSample /\ SamplesInOrder
  /\ IsConsistent(core) /\ EnergisedOnGoodSample
  /\ VerdictStands /\ ControlDrivesItsResult /\ RelayFollowsCore
  /\ WatchdogDrivesOff
=============================================================================
