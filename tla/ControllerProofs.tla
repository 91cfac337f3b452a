-------------------------- MODULE ControllerProofs --------------------------
(***************************************************************************)
(* Proofs about Controller, for every choice of sensor readings, commands, *)
(* readers, writers, queue lengths and thresholds that its assumptions     *)
(* allow.                                                                  *)
(***************************************************************************)
EXTENDS Controller, CoreLemmas, SequenceTheorems

-----------------------------------------------------------------------------
(***************************************************************************)
(* Time, readings and outputs.                                             *)
(***************************************************************************)

\* The model's clock stays in the lower half of the range of millis().
LEMMA ClockType == \A t \in 0 .. MaxNow : t \in Millis /\ t < Half
BY ControllerAssumption, ConfigAssumption DEF Millis, Wrap

\* ControlTask is a writer, and a tag of its own is no reader.
LEMMA TaskNames ==
  /\ "control" \in Writers /\ "control" \notin Readers /\ Nobody \notin Readers
  /\ Nobody # "control"
BY ControllerAssumption DEF Nobody

\* The sample a Sense step takes.
LEMMA SenseType ==
  ASSUME NEW reading \in Readings, NEW t \in 0 .. MaxNow
  PROVE  LET m == [valid |-> reading.valid, voltage |-> reading.voltage,
                   power |-> reading.power, timestamp |-> t]
         IN  m \in Measurement /\ m # Nothing
<1>1. reading \in [valid : BOOLEAN, voltage : Nat, power : Nat]
  BY ControllerAssumption
<1>2. t \in Millis /\ t # -1
  BY ClockType
<1> QED
  BY <1>1, <1>2 DEF Measurement, Nothing

\* No sample is Nothing.
LEMMA NothingIsNoSample == Nothing \notin Measurement
BY ConfigAssumption DEF Nothing, Measurement, Millis, Wrap

\* Whatever a writer does in drive(), pin, flag and locals keep their types, and
\* the other writers are where they were.
LEMMA DriveStepType ==
  ASSUME ActuatorTypeOK, NEW w \in Writers, NEW state,
         StartDrive(w, state) \/ DriveStep(w) \/ Return(w)
  PROVE  ActuatorTypeOK' /\ \A v \in Writers \ {w} : drive'[v] = drive[v]
<1>1. /\ relay \in BOOLEAN /\ commandedOn \in BOOLEAN /\ drive \in [Writers -> Drive]
      /\ FollowState \in BOOLEAN
  BY ModeAssumption DEF ActuatorTypeOK
<1>2. CASE StartDrive(w, state)
  BY <1>1, <1>2 DEF StartDrive, RelayCommandedOn, ActuatorTypeOK, Drive, DriveSteps
<1>3. CASE ChooseLevel(w)
  <2>1. PICK seen : drive' = [drive EXCEPT ![w] =
                      [at |-> "write", on |-> FALSE, level |-> RelayPinDrivenOn(seen)]]
    BY <1>3 DEF ChooseLevel
  <2>2. RelayPinDrivenOn(seen) \in BOOLEAN
    BY DEF RelayPinDrivenOn
  <2> QED
    BY <1>1, <1>3, <2>1, <2>2 DEF ChooseLevel, ActuatorTypeOK, Drive, DriveSteps
<1>4. CASE WriteRelay(w)
  BY <1>1, <1>4 DEF WriteRelay, ActuatorTypeOK, Drive, DriveSteps
<1>5. CASE CheckRelay(w)
  BY <1>1, <1>5 DEF CheckRelay, ActuatorTypeOK, Drive, DriveSteps, NotDriving
<1>6. CASE RetryRelay(w)
  BY <1>1, <1>6 DEF RetryRelay, ActuatorTypeOK, Drive, DriveSteps, NotDriving
<1>7. CASE Return(w)
  BY <1>1, <1>7 DEF Return, ActuatorTypeOK, Drive, DriveSteps, NotDriving
<1> QED
  BY <1>2, <1>3, <1>4, <1>5, <1>6, <1>7 DEF DriveStep

\* What comes before the first step, after power-up or a restart.
LEMMA InitInvariant == Init => IInv
<1> SUFFICES ASSUME Init PROVE IInv
  OBVIOUS
<1>1. Begin(0) \in Core
  BY ClockType, ControllerAssumption, BeginType
<1>2. TypeOK
  <2>1. core \in Core
    BY <1>1 DEF Init
  <2>2. pending \in BOOLEAN /\ stalled \in BOOLEAN
    BY DEF Init
  <2>3. now \in 0 .. MaxNow
    BY ControllerAssumption DEF Init
  <2>4. holder = Nobody /\ control = Idle /\ sensor = Nothing
    BY DEF Init
  <2>5. samples \in Seq(Measurement) /\ Len(samples) <= QueueLength
    BY ControllerAssumption, EmptySeq DEF Init
  <2>6. commands \in Seq(Commands) /\ Len(commands) <= CommandQueueLength
    BY ControllerAssumption, EmptySeq DEF Init
  <2>7. Idle \in [at : ControlSteps, input : Measurement \cup {Nothing},
                  result : SystemState]
    BY DEF Idle, ControlSteps, SystemState
  <2>8. watchdog \in {"supervise", "drive", "delay"}
    BY DEF Init
  <2>9. setup \in {"creating", "fatal", "stopped", "complete"}
    BY DEF Init, FirstSetup
  <2>10. created \in 0 .. Len(TaskOrder)
    BY DEF Init, FirstCreated, TaskOrder
  <2>11. ActuatorTypeOK
    BY DEF Init, ActuatorInit, ActuatorTypeOK, Drive, DriveSteps, NotDriving
  <2> QED
    BY <2>1, <2>2, <2>3, <2>4, <2>5, <2>6, <2>7, <2>8, <2>9, <2>10, <2>11, TaskNames
    DEF TypeOK, Idle
<1>3. CallsMatch
  BY DEF Init, ActuatorInit, CallsMatch, FirstSetup, FirstCreated, TaskOrder
<1>4. InputIsSample
  BY DEF Init, Idle, InputIsSample
<1>5. SamplesInOrder
  BY ControllerAssumption
  DEF Init, Idle, SamplesInOrder, Begin, NoMeasurement
<1>6. IsConsistent(core) /\ EnergisedOnGoodSample
  BY DEF Init, IsConsistent, EnergisedOnGoodSample, Begin, NoFault, NoTimer, Energising
<1>7. VerdictStands /\ ControlDrivesItsResult /\ RelayFollowsCore
  BY TaskNames
  DEF Init, ActuatorInit, VerdictStands, ControlDrivesItsResult, RelayFollowsCore,
      Idle, NotDriving
<1>8. WatchdogDrivesOff
  BY DEF Init, WatchdogDrivesOff
<1> QED
  BY <1>2, <1>3, <1>4, <1>5, <1>6, <1>7, <1>8 DEF IInv

\* A restart leads to a state like the first one.
LEMMA RebootInvariant == Reboot => IInv'
<1>1. Reboot => Init'
  BY DEF Reboot, Init, ActuatorRestart, ActuatorInit
<1> QED
  BY <1>1, InitInvariant, PTL

-----------------------------------------------------------------------------
(***************************************************************************)
(* Types, the mutex, and who is inside drive().                            *)
(***************************************************************************)

USE DEF protectionVars, queueVars, controlVars, setupVars, supervision, actuatorVars

\* The fault that a failed lock left behind keeps the object well formed.
LEMMA PendingFaultType ==
  ASSUME NEW c \in Core
  PROVE  WithPendingFault(c) \in Core
BY OperationsType, ConfigAssumption DEF WithPendingFault, Millis, Wrap

\* The steps of setup(), SensorTask and the readers keep the types.
LEMMA OtherTasksType ==
  ASSUME TypeOK, CallsMatch,
         \/ Advance \/ CreateTask \/ SetupFails \/ FatalStop \/ SendSample
         \/ \E reading \in Readings : Sense(reading)
         \/ \E r \in Readers : ReaderLocks(r) \/ ReaderUnlocks(r)
         \/ \E command \in Commands : SendCommand(command)
         \/ ControlStalls \/ WatchdogFails \/ WatchdogDrives
  PROVE  TypeOK'
<1>1. CASE Advance
  BY <1>1, ControllerAssumption DEF Advance, TypeOK, ActuatorTypeOK
<1>2. CASE CreateTask
  <2>1. created' \in 0 .. Len(TaskOrder)
    BY <1>2 DEF CreateTask, TypeOK, CallsMatch, TaskOrder
  <2> QED
    BY <1>2, <2>1 DEF CreateTask, TypeOK, ActuatorTypeOK
<1>3. CASE SetupFails
  BY <1>3 DEF SetupFails, TypeOK, ActuatorTypeOK
<1>4. CASE FatalStop
  <2>1. ActuatorTypeOK'
    BY <1>4, DriveStepType DEF FatalStop, CallsMatch, TypeOK
  <2>2. setup' \in {"fatal", "stopped"}
    BY <1>4 DEF FatalStop
  <2> QED
    BY <1>4, <2>1, <2>2 DEF FatalStop, TypeOK
<1>5. CASE SendSample
  <2>1. sensor \in Measurement
    BY <1>5 DEF SendSample, TypeOK
  <2>2. samples' \in Seq(Measurement) /\ Len(samples') <= QueueLength
    BY <1>5, <2>1, ControllerAssumption, AppendProperties, LenProperties
    DEF SendSample, TypeOK
  <2> QED
    BY <1>5, <2>2 DEF SendSample, TypeOK, ActuatorTypeOK
<1>6. ASSUME NEW reading \in Readings, Sense(reading) PROVE TypeOK'
  <2>1. sensor' \in Measurement
    BY <1>6, SenseType DEF Sense, TypeOK
  <2> QED
    BY <1>6, <2>1 DEF Sense, TypeOK, ActuatorTypeOK
<1>7. ASSUME NEW r \in Readers, ReaderLocks(r) \/ ReaderUnlocks(r) PROVE TypeOK'
  BY <1>7, TaskNames DEF ReaderLocks, ReaderUnlocks, TypeOK, ActuatorTypeOK
<1>8. ASSUME NEW command \in Commands, SendCommand(command) PROVE TypeOK'
  <2>1. commands' \in Seq(Commands) /\ Len(commands') <= CommandQueueLength
    BY <1>8, ControllerAssumption, AppendProperties, LenProperties
    DEF SendCommand, TypeOK
  <2> QED
    BY <1>8, <2>1 DEF SendCommand, TypeOK, ActuatorTypeOK
<1>9. CASE ControlStalls
  BY <1>9 DEF ControlStalls, TypeOK, ActuatorTypeOK
<1>10. CASE WatchdogFails
  BY <1>10 DEF WatchdogFails, TypeOK, ActuatorTypeOK
<1>11. CASE WatchdogDrives
  <2>1. ActuatorTypeOK'
    BY <1>11, DriveStepType DEF WatchdogDrives, CallsMatch, TypeOK
  <2>2. watchdog' \in {"drive", "delay"}
    BY <1>11 DEF WatchdogDrives
  <2> QED
    BY <1>11, <2>1, <2>2 DEF WatchdogDrives, TypeOK
<1> QED
  BY <1>1, <1>2, <1>3, <1>4, <1>5, <1>6, <1>7, <1>8, <1>9, <1>10, <1>11

\* Each step of ControlTask keeps the types, and the mutex is its own exactly
\* through its critical sections.
LEMMA ControlType ==
  ASSUME TypeOK, InputIsSample, Control
  PROVE  TypeOK'
<1>1. /\ control \in [at : ControlSteps, input : Measurement \cup {Nothing},
                      result : SystemState]
      /\ core \in Core /\ now \in Millis /\ now \in 0 .. MaxNow
      /\ samples \in Seq(Measurement) /\ Len(samples) <= QueueLength
      /\ commands \in Seq(Commands) /\ Len(commands) <= CommandQueueLength
  BY ClockType DEF TypeOK
<1>2. ASSUME NEW c \in Core PROVE c.state \in SystemState
  BY DEF Core
<1>3. CASE ReceiveSample
  <2>1. /\ Head(samples) \in Measurement /\ samples' \in Seq(Measurement)
        /\ Len(samples') = Len(samples) - 1
    BY <1>1, <1>3, HeadTailProperties DEF ReceiveSample
  <2>2. Len(samples') <= QueueLength
    BY <1>1, <2>1, ControllerAssumption, LenProperties
  <2> QED
    BY <1>1, <1>3, <2>1, <2>2
    DEF ReceiveSample, Control, TypeOK, ActuatorTypeOK, ControlSteps
<1>4. CASE ReceiveTimeout
  BY <1>1, <1>4 DEF ReceiveTimeout, Control, Goto, TypeOK, ActuatorTypeOK, ControlSteps
<1>5. CASE ControlLocks
  BY <1>1, <1>5, TaskNames
  DEF ControlLocks, Control, Goto, TypeOK, ActuatorTypeOK, ControlSteps
<1>6. CASE ControlLockTimeout
  <2>1. pending' \in BOOLEAN
    BY <1>6 DEF ControlLockTimeout, TypeOK
  <2> QED
    BY <1>1, <1>6, <2>1, TaskNames
    DEF ControlLockTimeout, Control, Goto, TypeOK, ActuatorTypeOK, ControlSteps,
        SystemState
<1>7. CASE ControlJudges
  <2>1. core' \in Core
    BY <1>1, <1>7, PendingFaultType, OperationsType DEF ControlJudges, InputIsSample
  <2>2. core'.state \in SystemState
    BY <1>2, <2>1
  <2> QED
    BY <1>1, <1>7, <2>1, <2>2, TaskNames
    DEF ControlJudges, Control, TypeOK, ActuatorTypeOK, ControlSteps
<1>8. CASE ControlDrives
  <2>1. ActuatorTypeOK'
    BY <1>8, DriveStepType, TaskNames DEF ControlDrives, TypeOK
  <2>2. control' = control \/ control' = [Idle EXCEPT !.at = "drain"]
    BY <1>8 DEF ControlDrives
  <2>3. control'.at \notin {"updateLocked", "tickLocked", "resetLocked", "ackLocked"}
    BY <1>8, <2>2 DEF ControlDrives, Idle
  <2>4. control' \in [at : ControlSteps, input : Measurement \cup {Nothing},
                      result : SystemState]
    BY <1>1, <2>2 DEF Idle, ControlSteps, SystemState
  <2> QED
    BY <1>8, <2>1, <2>3, <2>4, TaskNames DEF ControlDrives, Control, TypeOK
<1>9. CASE TakeCommand
  <2>1. commands' \in Seq(Commands) /\ Len(commands') = Len(commands) - 1
    BY <1>1, <1>9, HeadTailProperties DEF TakeCommand
  <2>2. Len(commands') <= CommandQueueLength
    BY <1>1, <2>1, ControllerAssumption, LenProperties
  <2> QED
    BY <1>1, <1>9, <2>1, <2>2
    DEF TakeCommand, Control, Goto, TypeOK, ActuatorTypeOK, ControlSteps
<1>10. CASE NoMoreCommands
  BY <1>1, <1>10 DEF NoMoreCommands, Control, Goto, TypeOK, ActuatorTypeOK, ControlSteps
<1>11. CASE ControlResets
  <2>1. core' \in Core
    BY <1>1, <1>11, PendingFaultType, OperationsType DEF ControlResets
  <2> QED
    BY <1>1, <1>11, <2>1, TaskNames
    DEF ControlResets, Control, TypeOK, ActuatorTypeOK, ControlSteps, SystemState
<1>12. CASE ControlAcknowledges
  <2>1. core' \in Core
    BY <1>1, <1>12, OperationsType DEF ControlAcknowledges
  <2> QED
    BY <1>1, <1>12, <2>1, TaskNames
    DEF ControlAcknowledges, Control, Goto, TypeOK, ActuatorTypeOK, ControlSteps
<1> QED
  BY <1>3, <1>4, <1>5, <1>6, <1>7, <1>8, <1>9, <1>10, <1>11, <1>12 DEF Control

\* A task enters drive() from its call of the actuator only, and has left it when
\* that call is over.
LEMMA CallsMatchStep ==
  ASSUME TypeOK, CallsMatch, [Next]_vars
  PROVE  CallsMatch'
<1>1. /\ drive \in [Writers -> Drive] /\ ActuatorTypeOK /\ created \in Nat
  BY DEF TypeOK, ActuatorTypeOK, TaskOrder
<1>2. CASE FatalStop
  <2>1. "setup" \in Writers /\ setup = "fatal"
    BY <1>2 DEF FatalStop, CallsMatch
  <2>2. \A v \in Writers \ {"setup"} : drive'[v] = drive[v]
    BY <1>1, <1>2, <2>1, DriveStepType DEF FatalStop
  <2>3. setup' = "fatal" \/ (setup' = "stopped" /\ drive'["setup"] = NotDriving)
    BY <1>1, <1>2, <2>1 DEF FatalStop, Return
  <2> QED
    BY <1>2, <2>1, <2>2, <2>3 DEF FatalStop, CallsMatch, Calls
<1>3. CASE WatchdogDrives
  <2>1. "watchdog" \in Writers /\ watchdog = "drive"
    BY <1>3 DEF WatchdogDrives, CallsMatch
  <2>2. \A v \in Writers \ {"watchdog"} : drive'[v] = drive[v]
    BY <1>1, <1>3, <2>1, DriveStepType DEF WatchdogDrives
  <2>3. watchdog' = "drive" \/ (watchdog' = "delay" /\ drive'["watchdog"] = NotDriving)
    BY <1>1, <1>3, <2>1 DEF WatchdogDrives, Return
  <2> QED
    BY <1>3, <2>1, <2>2, <2>3 DEF WatchdogDrives, CallsMatch, Calls
<1>4. CASE Control
  <2>1. CASE ControlDrives
    <3>1. \A v \in Writers \ {"control"} : drive'[v] = drive[v]
      BY <1>1, <2>1, TaskNames, DriveStepType DEF ControlDrives
    <3>2. control' = control \/ drive'["control"] = NotDriving
      BY <1>1, <2>1, TaskNames DEF ControlDrives, Return
    <3> QED
      BY <2>1, <3>1, <3>2 DEF ControlDrives, CallsMatch, Calls
  <2>2. CASE ~ControlDrives
    <3>1. control.at # "apply"
      BY <1>4, <2>2
      DEF Control, ReceiveSample, ReceiveTimeout, ControlLocks, ControlLockTimeout,
          ControlJudges, TakeCommand, NoMoreCommands, ControlResets, ControlAcknowledges
    <3>2. drive' = drive /\ watchdog' = watchdog /\ setup' = setup /\ created' = created
      BY <1>4, <2>2
      DEF Control, ReceiveSample, ReceiveTimeout, ControlLocks, ControlLockTimeout,
          ControlJudges, TakeCommand, NoMoreCommands, ControlResets, ControlAcknowledges
    <3> QED
      BY <3>1, <3>2 DEF CallsMatch, Calls
  <2> QED
    BY <2>1, <2>2
<1>5. CASE CreateTask
  BY <1>1, <1>5 DEF CreateTask, CallsMatch, Calls, TaskOrder, TypeOK
<1>6. CASE SetupFails
  BY <1>6 DEF SetupFails, CallsMatch, Calls
<1>7. CASE WatchdogFails
  BY <1>7 DEF WatchdogFails, CallsMatch, Calls
<1>8. CASE WatchdogRestarts \/ HardwareRestarts
  BY <1>8, RebootInvariant DEF WatchdogRestarts, HardwareRestarts, IInv
<1>9. CASE \/ Advance \/ SendSample \/ \E reading \in Readings : Sense(reading)
           \/ \E r \in Readers : ReaderLocks(r) \/ ReaderUnlocks(r)
           \/ \E command \in Commands : SendCommand(command)
           \/ ControlStalls \/ UNCHANGED vars
  BY <1>9
  DEF Advance, SendSample, Sense, ReaderLocks, ReaderUnlocks, SendCommand,
      ControlStalls, vars, CallsMatch, Calls
<1> QED
  BY <1>2, <1>3, <1>4, <1>5, <1>6, <1>7, <1>8, <1>9 DEF Next

\* What ControlTask judges is a sample.
LEMMA InputIsSampleStep ==
  ASSUME TypeOK, InputIsSample, [Next]_vars
  PROVE  InputIsSample'
<1>1. /\ control \in [at : ControlSteps, input : Measurement \cup {Nothing},
                      result : SystemState]
      /\ samples \in Seq(Measurement)
  BY DEF TypeOK
<1>2. CASE ReceiveSample
  BY <1>1, <1>2, HeadTailProperties DEF ReceiveSample, InputIsSample
<1>3. CASE ControlLocks
  BY <1>1, <1>3 DEF ControlLocks, Goto, InputIsSample
<1>4. CASE Control /\ ~ReceiveSample /\ ~ControlLocks
  <2>1. control' = control \/ control'.at \notin {"update", "updateLocked"}
    <3>1. CASE ReceiveTimeout \/ TakeCommand \/ NoMoreCommands \/ ControlAcknowledges
      BY <1>1, <3>1
      DEF ReceiveTimeout, TakeCommand, NoMoreCommands, ControlAcknowledges, Goto
    <3>2. CASE ControlLockTimeout \/ ControlJudges
      BY <1>1, <3>2 DEF ControlLockTimeout, ControlJudges, Goto
    <3>3. CASE ControlDrives
      BY <3>3 DEF ControlDrives, Idle
    <3>4. CASE ControlResets
      BY <1>1, <3>4 DEF ControlResets
    <3> QED
      BY <1>4, <3>1, <3>2, <3>3, <3>4 DEF Control
  <2> QED
    BY <2>1 DEF InputIsSample
<1>5. CASE WatchdogRestarts \/ HardwareRestarts
  BY <1>5, RebootInvariant DEF WatchdogRestarts, HardwareRestarts, IInv
<1>6. CASE ~Control /\ ~WatchdogRestarts /\ ~HardwareRestarts
  <2>1. control' = control
    BY <1>6
    DEF Next, Advance, CreateTask, SetupFails, FatalStop, Sense, SendSample,
        ReaderLocks, ReaderUnlocks, SendCommand, ControlStalls, WatchdogFails,
        WatchdogDrives, vars
  <2> QED
    BY <2>1 DEF InputIsSample
<1> QED
  BY <1>2, <1>3, <1>4, <1>5, <1>6 DEF Control

\* Every step keeps the types.
LEMMA TypeStep ==
  ASSUME TypeOK, CallsMatch, InputIsSample, [Next]_vars
  PROVE  TypeOK'
<1>1. CASE Control
  BY <1>1, ControlType
<1>2. CASE WatchdogRestarts \/ HardwareRestarts
  BY <1>2, RebootInvariant DEF WatchdogRestarts, HardwareRestarts, IInv
<1>3. CASE UNCHANGED vars
  BY <1>3 DEF vars, TypeOK, ActuatorTypeOK
<1> QED
  BY <1>1, <1>2, <1>3, OtherTasksType DEF Next

-----------------------------------------------------------------------------
(***************************************************************************)
(* The protection object behind its mutex.                                 *)
(***************************************************************************)

\* Only the critical sections of ControlTask, and a restart, change the object.
LEMMA WhoChangesTheCore ==
  [Next]_vars =>
    \/ core' = core
    \/ ControlJudges \/ ControlResets \/ ControlAcknowledges
    \/ WatchdogRestarts \/ HardwareRestarts
BY DEF Next, Advance, CreateTask, SetupFails, FatalStop, Sense, SendSample, ReaderLocks,
       ReaderUnlocks, SendCommand, Control, ReceiveSample, ReceiveTimeout, ControlLocks,
       ControlLockTimeout, ControlDrives, TakeCommand, NoMoreCommands, ControlStalls,
       WatchdogFails, WatchdogDrives, vars

\* A pending lock failure is a latched fault when the object is used next; the
\* last sample and the re-arm point are as they were.
LEMMA PendingFaultResult ==
  ASSUME NEW c \in Core, IsConsistent(c)
  PROVE  LET p == WithPendingFault(c)
         IN  /\ p \in Core /\ IsConsistent(p)
             /\ p.last = c.last /\ p.rearmMs = c.rearmMs
             /\ pending => p.state = "FAULT" /\ p.fault.active
             /\ ~pending => p = c
<1>1. /\ c.fault.active <=> c.state = "FAULT"
      /\ c.fault.active <=> c.fault.activeFault # "NONE"
  BY DEF IsConsistent
<1>2. LET f == RaiseInternalFault(c)
      IN  /\ f \in Core /\ f.state = "FAULT" /\ f.fault.active
          /\ f.last = c.last /\ f.rearmMs = c.rearmMs
  BY <1>1, RaiseFaultType, RaiseFaultResult DEF RaiseInternalFault, FaultCode
<1>3. IsConsistent(RaiseInternalFault(c))
  BY OperationsConsistent, ConfigAssumption DEF Millis, Wrap
<1> QED
  BY <1>2, <1>3 DEF WithPendingFault

\* The fault record of the object stays consistent.
LEMMA ConsistentStep ==
  ASSUME TypeOK, InputIsSample, IsConsistent(core), [Next]_vars
  PROVE  IsConsistent(core')
<1>1. /\ core \in Core /\ now \in Millis
      /\ WithPendingFault(core) \in Core /\ IsConsistent(WithPendingFault(core))
  BY ClockType, PendingFaultResult DEF TypeOK
<1>2. CASE ControlJudges
  BY <1>1, <1>2, OperationsConsistent DEF ControlJudges, InputIsSample
<1>3. CASE ControlResets
  BY <1>1, <1>3, OperationsConsistent DEF ControlResets
<1>4. CASE ControlAcknowledges
  BY <1>1, <1>4, OperationsConsistent DEF ControlAcknowledges
<1>5. CASE WatchdogRestarts \/ HardwareRestarts
  BY <1>5, RebootInvariant DEF WatchdogRestarts, HardwareRestarts, IInv
<1> QED
  BY <1>1, <1>2, <1>3, <1>4, <1>5, WhoChangesTheCore

-----------------------------------------------------------------------------
(***************************************************************************)
(* The order of the samples.                                               *)
(***************************************************************************)

\* What a step of the object does to its last sample and its re-arm point.
LEMMA CriticalSectionResult ==
  ASSUME TypeOK, InputIsSample, IsConsistent(core),
         ControlJudges \/ ControlResets \/ ControlAcknowledges
  PROVE  /\ core'.last = core.last
            \/ (control.at = "updateLocked" /\ core'.last = control.input)
         /\ core'.rearmMs = core.rearmMs \/ core'.rearmMs = now
<1> DEFINE p == WithPendingFault(core)
<1>1. /\ core \in Core /\ now \in Millis
      /\ p \in Core /\ p.last = core.last /\ p.rearmMs = core.rearmMs
      /\ p.fault.active <=> p.state = "FAULT"
      /\ p.fault.active <=> p.fault.activeFault # "NONE"
  BY ClockType, PendingFaultResult DEF TypeOK, IsConsistent
<1> HIDE DEF p
<1>2. CASE ControlJudges /\ control.at = "updateLocked"
  <2>1. core' = Update(p, control.input, now) /\ control.input \in Measurement
    BY <1>2 DEF ControlJudges, InputIsSample, p
  <2> QED
    BY <1>1, <1>2, <2>1, UpdateResult
<1>3. CASE ControlJudges /\ control.at # "updateLocked"
  <2>1. core' = Tick(p, now)
    BY <1>3 DEF ControlJudges, p
  <2> QED
    BY <1>1, <2>1, TickResult
<1>4. CASE ControlResets
  <2>1. core' = RequestReset(p, now)
    BY <1>4 DEF ControlResets, p
  <2> QED
    BY <1>1, <2>1, ResetOutcome
<1>5. CASE ControlAcknowledges
  BY <1>1, <1>5 DEF ControlAcknowledges, Acknowledge, Core
<1> QED
  BY <1>2, <1>3, <1>4, <1>5

\* What ControlTask does to the sample it has taken and to the queue, apart from
\* taking one: it keeps it or drops it.
LEMMA ControlKeepsOrder ==
  ASSUME TypeOK, Control, ~ReceiveSample
  PROVE  /\ control'.input \in {control.input, Nothing}
         /\ samples' = samples /\ sensor' = sensor /\ now' = now
<1>1. control \in [at : ControlSteps, input : Measurement \cup {Nothing},
                   result : SystemState]
  BY DEF TypeOK
<1>2. samples' = samples /\ sensor' = sensor /\ now' = now
  BY DEF Control, ReceiveTimeout, ControlLocks, ControlLockTimeout, ControlJudges,
         ControlDrives, TakeCommand, NoMoreCommands, ControlResets, ControlAcknowledges
<1>3. CASE \/ ReceiveTimeout \/ ControlLocks \/ TakeCommand \/ NoMoreCommands
           \/ ControlAcknowledges
  BY <1>1, <1>2, <1>3
  DEF ReceiveTimeout, ControlLocks, TakeCommand, NoMoreCommands, ControlAcknowledges, Goto
<1>4. CASE ControlLockTimeout \/ ControlJudges
  BY <1>1, <1>2, <1>4 DEF ControlLockTimeout, ControlJudges, Goto
<1>5. CASE ControlDrives
  BY <1>2, <1>5 DEF ControlDrives, Idle
<1>6. CASE ControlResets
  BY <1>1, <1>2, <1>6 DEF ControlResets
<1> QED
  BY <1>3, <1>4, <1>5, <1>6 DEF Control

\* SamplesInOrder, spelled out stage by stage.
InOrder(last, input, queue, newest, t) ==
  /\ last.timestamp <= t
  /\ \A i, j \in 1 .. Len(queue) : i < j => queue[i].timestamp <= queue[j].timestamp
  /\ \A i \in 1 .. Len(queue) :
       last.timestamp <= queue[i].timestamp /\ queue[i].timestamp <= t
  /\ input # Nothing =>
       /\ last.timestamp <= input.timestamp /\ input.timestamp <= t
       /\ \A i \in 1 .. Len(queue) : input.timestamp <= queue[i].timestamp
  /\ newest # Nothing =>
       /\ last.timestamp <= newest.timestamp /\ newest.timestamp <= t
       /\ \A i \in 1 .. Len(queue) : queue[i].timestamp <= newest.timestamp
  /\ input # Nothing /\ newest # Nothing => input.timestamp <= newest.timestamp

\* It says the same, before a step and after.
LEMMA InOrderIsSamplesInOrder ==
  /\ SamplesInOrder <=> InOrder(core.last, control.input, samples, sensor, now)
  /\ SamplesInOrder' <=> InOrder(core'.last, control'.input, samples', sensor', now')
BY DEF SamplesInOrder, InOrder

\* Time goes on, and nothing that is in order gets out of it.
LEMMA InOrderLater ==
  ASSUME NEW last, NEW input, NEW queue, NEW newest, NEW t \in Nat, NEW u \in Nat, t <= u,
         last.timestamp \in Nat,
         input # Nothing => input.timestamp \in Nat,
         newest # Nothing => newest.timestamp \in Nat,
         \A i \in 1 .. Len(queue) : queue[i].timestamp \in Nat,
         InOrder(last, input, queue, newest, t)
  PROVE  InOrder(last, input, queue, newest, u)
<1>1. \A n \in Nat : n <= t => n <= u
  OBVIOUS
<1> QED
  BY <1>1, Zenon DEF InOrder

\* The samples stay in order, from the sensor through the queue to the object.
LEMMA SamplesInOrderStep ==
  ASSUME TypeOK, InputIsSample, IsConsistent(core), SamplesInOrder, [Next]_vars
  PROVE  SamplesInOrder'
<1>1. /\ core \in Core /\ now \in 0 .. MaxNow /\ samples \in Seq(Measurement)
      /\ sensor \in Measurement \cup {Nothing}
      /\ control.input \in Measurement \cup {Nothing}
      /\ MaxNow \in Nat
  BY ControllerAssumption DEF TypeOK
<1>2. /\ Len(samples) \in Nat
      /\ \A i \in 1 .. Len(samples) : samples[i] \in Measurement
  BY <1>1, LenProperties, ElementOfSeq
<1>3. /\ core.last.timestamp \in Nat
      /\ control.input # Nothing => control.input.timestamp \in Nat
      /\ sensor # Nothing => sensor.timestamp \in Nat
      /\ \A i \in 1 .. Len(samples) : samples[i].timestamp \in Nat
  <2>1. \A m \in Measurement : m.timestamp \in Nat
    BY DEF Measurement, Millis
  <2> QED
    BY <1>1, <1>2, <2>1 DEF Core
<1>4. InOrder(core.last, control.input, samples, sensor, now)
  BY InOrderIsSamplesInOrder
<1> SUFFICES InOrder(core'.last, control'.input, samples', sensor', now')
  BY InOrderIsSamplesInOrder
<1>5. CASE Advance
  <2>1. now \in Nat /\ now' \in Nat /\ now <= now'
    BY <1>1, <1>5 DEF Advance
  <2>2. InOrder(core.last, control.input, samples, sensor, now')
    BY <1>3, <1>4, <2>1, InOrderLater
  <2> QED
    BY <1>5, <2>2 DEF Advance
<1>6. ASSUME NEW reading \in Readings, Sense(reading)
      PROVE  InOrder(core'.last, control'.input, samples', sensor', now')
  <2>1. sensor = Nothing /\ sensor'.timestamp = now /\ sensor' # Nothing
    BY <1>1, <1>6, SenseType DEF Sense
  <2> QED
    BY <1>1, <1>2, <1>3, <1>4, <1>6, <2>1 DEF Sense, InOrder
<1>7. CASE SendSample
  <2>1. sensor \in Measurement /\ sensor' = Nothing
    BY <1>1, <1>7 DEF SendSample
  <2>2. CASE samples' = samples
    BY <1>1, <1>2, <1>3, <1>4, <1>7, <2>1, <2>2 DEF SendSample, InOrder
  <2>3. CASE samples' = Append(samples, sensor)
    <3>1. /\ Len(samples') = Len(samples) + 1
          /\ \A i \in 1 .. Len(samples) : samples'[i] = samples[i]
          /\ samples'[Len(samples) + 1] = sensor
      BY <1>1, <2>1, <2>3, AppendProperties
    <3> QED
      BY <1>1, <1>2, <1>3, <1>4, <1>7, <2>1, <3>1 DEF SendSample, InOrder
  <2> QED
    BY <1>7, <2>2, <2>3 DEF SendSample
<1>8. CASE ReceiveSample
  <2>1. /\ samples # <<>> /\ Len(samples) \in Nat \ {0} /\ samples[1] \in Measurement
        /\ control'.input = samples[1]
        /\ Len(samples') = Len(samples) - 1
        /\ \A i \in 1 .. Len(samples') : samples'[i] = samples[i + 1]
    BY <1>1, <1>8, HeadTailProperties, EmptySeq DEF ReceiveSample, TypeOK
  <2>2. core' = core /\ sensor' = sensor /\ now' = now
    BY <1>8 DEF ReceiveSample
  <2>3. 1 \in 1 .. Len(samples) /\ samples[1].timestamp \in Nat
    BY <1>3, <2>1
  <2>4. \A i \in 1 .. Len(samples') :
          /\ i \in Nat /\ i + 1 \in 1 .. Len(samples) /\ 1 < i + 1
          /\ samples'[i].timestamp = samples[i + 1].timestamp
    BY <2>1
  <2>5. /\ core.last.timestamp <= now
        /\ \A i, j \in 1 .. Len(samples) :
             i < j => samples[i].timestamp <= samples[j].timestamp
        /\ \A i \in 1 .. Len(samples) :
             core.last.timestamp <= samples[i].timestamp /\ samples[i].timestamp <= now
        /\ sensor # Nothing =>
             /\ core.last.timestamp <= sensor.timestamp /\ sensor.timestamp <= now
             /\ \A i \in 1 .. Len(samples) : samples[i].timestamp <= sensor.timestamp
    BY <1>4 DEF InOrder
  <2>6. \A i, j \in 1 .. Len(samples') :
          i < j => samples'[i].timestamp <= samples'[j].timestamp
    <3>1. \A i, j \in 1 .. Len(samples') : i < j => i + 1 < j + 1
      BY <2>4
    <3> QED
      BY <2>4, <2>5, <3>1
  <2>7. /\ core'.last.timestamp <= now'
        /\ \A i \in 1 .. Len(samples') :
             core'.last.timestamp <= samples'[i].timestamp /\ samples'[i].timestamp <= now'
    BY <2>2, <2>4, <2>5
  <2>8. /\ core'.last.timestamp <= control'.input.timestamp
        /\ control'.input.timestamp <= now'
        /\ \A i \in 1 .. Len(samples') : control'.input.timestamp <= samples'[i].timestamp
    BY <2>1, <2>2, <2>3, <2>4, <2>5
  <2>9. sensor' # Nothing =>
          /\ core'.last.timestamp <= sensor'.timestamp /\ sensor'.timestamp <= now'
          /\ \A i \in 1 .. Len(samples') : samples'[i].timestamp <= sensor'.timestamp
          /\ control'.input.timestamp <= sensor'.timestamp
    BY <2>1, <2>2, <2>3, <2>4, <2>5
  <2> QED
    BY <2>6, <2>7, <2>8, <2>9 DEF InOrder
<1>9. CASE Control /\ ~ReceiveSample
  <2>1. /\ control'.input \in {control.input, Nothing}
        /\ samples' = samples /\ sensor' = sensor /\ now' = now
    BY <1>9, ControlKeepsOrder
  <2>2. CASE core' = core
    BY <1>1, <1>2, <1>3, <1>4, <2>1, <2>2 DEF InOrder
  <2>3. CASE ControlResets \/ ControlAcknowledges
    <3>1. core'.last = core.last
      BY <2>3, CriticalSectionResult DEF ControlResets, ControlAcknowledges
    <3> QED
      BY <1>1, <1>2, <1>3, <1>4, <2>1, <3>1 DEF InOrder
  <2>4. CASE ControlJudges
    <3>1. /\ \/ core'.last = core.last
             \/ core'.last = control.input /\ control.input # Nothing
          /\ control'.input = Nothing
      BY <2>4, CriticalSectionResult, NothingIsNoSample DEF ControlJudges, InputIsSample
    <3> QED
      BY <1>1, <1>2, <1>3, <1>4, <2>1, <3>1 DEF InOrder
  <2> QED
    BY <1>9, <2>2, <2>3, <2>4 DEF Control, ReceiveTimeout, ControlLocks, ControlLockTimeout,
          ControlDrives, TakeCommand, NoMoreCommands
<1>10. CASE WatchdogRestarts \/ HardwareRestarts
  BY <1>10, RebootInvariant, InOrderIsSamplesInOrder DEF WatchdogRestarts, HardwareRestarts, IInv
<1>11. CASE \/ CreateTask \/ SetupFails \/ FatalStop
            \/ \E r \in Readers : ReaderLocks(r) \/ ReaderUnlocks(r)
            \/ \E command \in Commands : SendCommand(command)
            \/ ControlStalls \/ WatchdogFails \/ WatchdogDrives \/ UNCHANGED vars
  <2>1. UNCHANGED <<core, control, samples, sensor, now>>
    BY <1>11
    DEF CreateTask, SetupFails, FatalStop, ReaderLocks, ReaderUnlocks, SendCommand,
        ControlStalls, WatchdogFails, WatchdogDrives, vars
  <2> QED
    BY <1>4, <2>1
<1> QED
  BY <1>5, <1>6, <1>7, <1>8, <1>9, <1>10, <1>11 DEF Next

-----------------------------------------------------------------------------
(***************************************************************************)
(* The verdict, and the outputs that carry it out.                         *)
(***************************************************************************)

\* An operating state rests on a good sample, also after the next step: a sample
\* that was not ignored is not older than the re-arm point, and a later one is
\* not older than the one before.
LEMMA EnergisedOnGoodSampleStep ==
  ASSUME TypeOK, InputIsSample, SamplesInOrder, IsConsistent(core),
         EnergisedOnGoodSample, [Next]_vars
  PROVE  EnergisedOnGoodSample'
<1> DEFINE p == WithPendingFault(core)
           m == control.input
<1>1. /\ core \in Core /\ now \in Millis /\ now \in 0 .. MaxNow /\ now < Half
      /\ core.rearmMs \in Nat /\ core.rearmMs <= now
      /\ p \in Core /\ IsConsistent(p) /\ p.last = core.last /\ p.rearmMs = core.rearmMs
      /\ pending => p.state = "FAULT"
      /\ ~pending => p = core
  BY ClockType, PendingFaultResult DEF TypeOK, Core, Millis, EnergisedOnGoodSample
<1>2. /\ p.fault.active <=> p.state = "FAULT"
      /\ p.fault.active <=> p.fault.activeFault # "NONE"
      /\ p.state = "INIT" => p.awaitingFirstSample
  BY <1>1 DEF IsConsistent
<1> HIDE DEF p
<1>3. CASE ControlJudges /\ control.at = "updateLocked"
  <2>1. core' = Update(p, m, now) /\ m \in Measurement /\ now' = now
    BY <1>3 DEF ControlJudges, InputIsSample, p
  <2>2. core'.last = m /\ core'.rearmMs = core.rearmMs
    BY <1>1, <1>2, <2>1, UpdateResult
  <2>3. /\ m.timestamp \in 0 .. Half - 1 /\ core.last.timestamp \in Nat
        /\ core.last.timestamp <= m.timestamp
    <3>1. m # Nothing /\ m.timestamp \in Nat /\ core.last.timestamp \in Nat
      BY <1>1, <2>1, NothingIsNoSample DEF Core, Measurement, Millis
    <3>2. core.last.timestamp <= m.timestamp /\ m.timestamp <= now
      BY <3>1, InOrderIsSamplesInOrder DEF InOrder
    <3> QED
      BY <1>1, <3>1, <3>2, ConfigAssumption
  <2>4. ASSUME core'.state \in Energising
        PROVE  m.valid /\ m.voltage > MinOperatingVoltageV /\ core.rearmMs <= m.timestamp
    <3>1. /\ m.valid /\ m.voltage > MinOperatingVoltageV
          /\ p.state \in Energising \/ (p.state = "INIT" /\ ~Ignored(p, m))
      BY <1>1, <2>1, <2>4, UpdateEnergises
    <3>2. CASE p.state \in Energising
      <4>1. core.state \in Energising
        BY <1>1, <3>2 DEF Energising
      <4>2. core.rearmMs <= core.last.timestamp
        BY <4>1 DEF EnergisedOnGoodSample
      <4> QED
        BY <1>1, <2>3, <3>1, <4>2
    <3>3. CASE p.state = "INIT" /\ ~Ignored(p, m)
      <4>1. ~SignedBefore(m.timestamp, core.rearmMs)
        BY <1>1, <1>2, <3>3 DEF Ignored
      <4>2. core.rearmMs \in 0 .. Half - 1
        BY <1>1, ConfigAssumption
      <4>3. ~(m.timestamp < core.rearmMs)
        BY <2>3, <4>1, <4>2, SignedBeforeIsLess
      <4> QED
        BY <1>1, <2>3, <3>1, <4>3
    <3> QED
      BY <3>1, <3>2, <3>3
  <2> QED
    BY <1>1, <2>1, <2>2, <2>4 DEF EnergisedOnGoodSample
<1>4. CASE ControlJudges /\ control.at # "updateLocked"
  <2>1. core' = Tick(p, now) /\ now' = now
    BY <1>4 DEF ControlJudges, p
  <2>2. core' = p \/ (core'.state = "FAULT" /\ core'.rearmMs = core.rearmMs)
    BY <1>1, <1>2, <2>1, TickResult
  <2> QED
    BY <1>1, <2>1, <2>2 DEF EnergisedOnGoodSample, Energising
<1>5. CASE ControlResets
  <2>1. core' = RequestReset(p, now) /\ now' = now
    BY <1>5 DEF ControlResets, p
  <2>2. core' = p \/ (core'.state = "INIT" /\ core'.rearmMs = now)
    BY <1>1, <2>1, ResetOutcome
  <2> QED
    BY <1>1, <2>1, <2>2 DEF EnergisedOnGoodSample, Energising
<1>6. CASE ControlAcknowledges
  BY <1>1, <1>6 DEF ControlAcknowledges, Acknowledge, EnergisedOnGoodSample, Core
<1>7. CASE WatchdogRestarts \/ HardwareRestarts
  BY <1>7, RebootInvariant DEF WatchdogRestarts, HardwareRestarts, IInv
<1>8. CASE core' = core /\ ~WatchdogRestarts /\ ~HardwareRestarts
  <2>1. now' = now \/ now' = now + 1
    BY <1>8
    DEF Next, Advance, CreateTask, SetupFails, FatalStop, Sense, SendSample, ReaderLocks,
        ReaderUnlocks, SendCommand, Control, ReceiveSample, ReceiveTimeout, ControlLocks,
        ControlLockTimeout, ControlJudges, ControlDrives, TakeCommand, NoMoreCommands,
        ControlResets, ControlAcknowledges, ControlStalls, WatchdogFails, WatchdogDrives,
        vars
  <2> QED
    BY <1>1, <1>8, <2>1 DEF EnergisedOnGoodSample
<1> QED
  BY <1>3, <1>4, <1>5, <1>6, <1>7, <1>8, WhoChangesTheCore

\* Steps of the tasks that use neither the object nor the outputs.
LEMMA BystandersStep ==
  ASSUME \/ Advance \/ CreateTask \/ SetupFails \/ SendSample
         \/ \E reading \in Readings : Sense(reading)
         \/ \E r \in Readers : ReaderLocks(r) \/ ReaderUnlocks(r)
         \/ \E command \in Commands : SendCommand(command)
         \/ ControlStalls \/ WatchdogFails \/ UNCHANGED vars
  PROVE  /\ UNCHANGED <<core, pending, control, actuatorVars>>
         /\ OnlyControlWrites' => OnlyControlWrites
BY DEF Advance, CreateTask, SetupFails, SendSample, Sense, ReaderLocks, ReaderUnlocks,
       SendCommand, ControlStalls, WatchdogFails, vars, OnlyControlWrites

\* A step of ControlTask outside drive() starts where it does not apply a result,
\* and writes no output.
LEMMA ControlOutsideDrive ==
  ASSUME Control, ~ControlDrives, CallsMatch
  PROVE  /\ control.at # "apply" /\ drive["control"] = NotDriving
         /\ UNCHANGED <<actuatorVars, watchdog, setup, stalled>>
<1>1. control.at # "apply" /\ UNCHANGED <<actuatorVars, watchdog, setup, stalled>>
  BY DEF Control, ReceiveSample, ReceiveTimeout, ControlLocks, ControlLockTimeout,
         ControlJudges, TakeCommand, NoMoreCommands, ControlResets, ControlAcknowledges
<1> QED
  BY <1>1, TaskNames DEF CallsMatch, Calls

\* What a step of ControlTask outside drive() leaves to be applied: nothing, an
\* opening, or the state the object has just taken.
LEMMA ControlResult ==
  ASSUME TypeOK, CallsMatch, Control, ~ControlDrives
  PROVE  \/ control'.at # "apply"
         \/ control'.at = "apply" /\ control'.result \in {"INIT", "FAULT"}
         \/ control'.at = "apply" /\ control'.result = core'.state /\ ~pending'
<1>1. control \in [at : ControlSteps, input : Measurement \cup {Nothing},
                   result : SystemState]
  BY DEF TypeOK
<1>2. CASE \/ ReceiveSample \/ ReceiveTimeout \/ ControlLocks \/ TakeCommand
           \/ NoMoreCommands \/ ControlAcknowledges
  BY <1>1, <1>2
  DEF ReceiveSample, ReceiveTimeout, ControlLocks, TakeCommand, NoMoreCommands,
      ControlAcknowledges, Goto
<1>3. CASE ControlLockTimeout
  BY <1>1, <1>3 DEF ControlLockTimeout, Goto
<1>4. CASE ControlJudges
  BY <1>4 DEF ControlJudges
<1>5. CASE ControlResets
  BY <1>1, <1>5 DEF ControlResets
<1> QED
  BY <1>2, <1>3, <1>4, <1>5 DEF Control

\* Nothing changes the protection object while its verdict is driven.
LEMMA VerdictStandsStep ==
  ASSUME TypeOK, CallsMatch, VerdictStands, [Next]_vars
  PROVE  VerdictStands'
<1>1. CASE Control /\ ~ControlDrives
  BY <1>1, ControlResult DEF VerdictStands, RelayCommandedOn, Energising
<1>2. CASE ControlDrives
  <2>1. UNCHANGED <<core, pending>> /\ (control' = control \/ control'.at = "drain")
    BY <1>2 DEF ControlDrives, Idle
  <2> QED
    BY <2>1 DEF VerdictStands
<1>3. CASE FatalStop \/ WatchdogDrives
  BY <1>3 DEF FatalStop, WatchdogDrives, VerdictStands
<1>4. CASE WatchdogRestarts \/ HardwareRestarts
  BY <1>4, RebootInvariant DEF WatchdogRestarts, HardwareRestarts, IInv
<1>5. CASE \/ Advance \/ CreateTask \/ SetupFails \/ SendSample
           \/ \E reading \in Readings : Sense(reading)
           \/ \E r \in Readers : ReaderLocks(r) \/ ReaderUnlocks(r)
           \/ \E command \in Commands : SendCommand(command)
           \/ ControlStalls \/ WatchdogFails \/ UNCHANGED vars
  BY <1>5, BystandersStep DEF VerdictStands
<1> QED
  BY <1>1, <1>2, <1>3, <1>4, <1>5 DEF Next

\* As long as ControlTask writes alone, a step in drive() is its own, or a restart.
LEMMA AloneInDrive ==
  ASSUME FatalStop \/ WatchdogDrives
  PROVE  ~OnlyControlWrites /\ ~OnlyControlWrites'
BY DEF FatalStop, WatchdogDrives, OnlyControlWrites

\* Alone in drive(), ControlTask writes what it was asked to, and reads it back.
LEMMA ControlDrivesItsResultStep ==
  ASSUME TypeOK, CallsMatch, ControlDrivesItsResult, [Next]_vars
  PROVE  ControlDrivesItsResult'
<1>1. /\ "control" \in Writers /\ relay \in BOOLEAN /\ commandedOn \in BOOLEAN
      /\ drive \in [Writers -> Drive] /\ RelayCommandedOn(control.result) \in BOOLEAN
  BY TaskNames DEF TypeOK, ActuatorTypeOK, RelayCommandedOn
<1>2. CASE Control /\ ~ControlDrives
  BY <1>2, ControlOutsideDrive DEF ControlDrivesItsResult, NotDriving
<1>3. CASE ControlDrives /\ OnlyControlWrites
  <2> DEFINE call == drive["control"]
             on == RelayCommandedOn(control.result)
  <2>1. CASE StartDrive("control", control.result)
    BY <1>1, <1>3, <2>1 DEF ControlDrives, StartDrive, ControlDrivesItsResult, Drive, Return
  <2>2. CASE ChooseLevel("control")
    <3>1. PICK seen \in {commandedOn, call.on} :
            drive' = [drive EXCEPT !["control"] =
                        [at |-> "write", on |-> FALSE, level |-> RelayPinDrivenOn(seen)]]
      BY <2>2 DEF ChooseLevel
    <3>2. call.at = "level" /\ call.on = on /\ commandedOn = on
      BY <1>3, <2>2 DEF ControlDrivesItsResult, ChooseLevel
    <3>3. seen = on
      BY <3>1, <3>2
    <3>4. control' = control
      BY <1>3, <2>2 DEF ControlDrives, ChooseLevel, StartDrive, DriveStep, Return
    <3> QED
      BY <1>1, <1>3, <3>1, <3>3, <3>4 DEF ControlDrivesItsResult
  <2>3. CASE WriteRelay("control")
    BY <1>1, <1>3, <2>3 DEF ControlDrives, WriteRelay, Return, ControlDrivesItsResult, Drive
  <2>4. CASE CheckRelay("control")
    <3>1. call.at = "check" /\ relay = call.level
      BY <1>3, <2>4 DEF ControlDrivesItsResult, CheckRelay
    <3> QED
      BY <1>1, <1>3, <2>4, <3>1
      DEF ControlDrives, CheckRelay, Return, ControlDrivesItsResult, Drive, NotDriving
  <2>5. CASE RetryRelay("control")
    BY <1>3, <2>5 DEF RetryRelay, ControlDrivesItsResult
  <2>6. CASE Return("control")
    BY <1>1, <1>3, <2>6 DEF Return, ControlDrivesItsResult, NotDriving
  <2> QED
    BY <1>3, <2>1, <2>2, <2>3, <2>4, <2>5, <2>6 DEF ControlDrives, DriveStep
<1>4. CASE ControlDrives /\ ~OnlyControlWrites
  BY <1>4 DEF ControlDrives, OnlyControlWrites, ControlDrivesItsResult
<1>5. CASE FatalStop \/ WatchdogDrives
  BY <1>5, AloneInDrive DEF ControlDrivesItsResult
<1>6. CASE WatchdogRestarts \/ HardwareRestarts
  BY <1>6, RebootInvariant DEF WatchdogRestarts, HardwareRestarts, IInv
<1>7. CASE \/ Advance \/ CreateTask \/ SetupFails \/ SendSample
           \/ \E reading \in Readings : Sense(reading)
           \/ \E r \in Readers : ReaderLocks(r) \/ ReaderUnlocks(r)
           \/ \E command \in Commands : SendCommand(command)
           \/ ControlStalls \/ WatchdogFails \/ UNCHANGED vars
  BY <1>7, BystandersStep DEF ControlDrivesItsResult
<1> QED
  BY <1>2, <1>3, <1>4, <1>5, <1>6, <1>7 DEF Next

\* What the critical sections do to an operating state without a pending lock
\* failure: only a judgement can end it.
LEMMA OperatingStateStands ==
  ASSUME TypeOK, IsConsistent(core), core.state \in Energising, ~pending,
         ControlResets \/ ControlAcknowledges
  PROVE  core' = core /\ ~pending'
<1>1. core \in Core /\ now \in Millis /\ ~core.fault.active
  BY ClockType DEF TypeOK, IsConsistent, Energising
<1>2. WithPendingFault(core) = core
  BY DEF WithPendingFault
<1>3. CASE ControlResets
  BY <1>1, <1>2, <1>3, ResetOutcome DEF ControlResets
<1>4. CASE ControlAcknowledges
  BY <1>1, <1>4 DEF ControlAcknowledges, Acknowledge
<1> QED
  BY <1>3, <1>4

\* The relay follows the protection object, also after the next step.
LEMMA RelayFollowsCoreStep ==
  ASSUME TypeOK, CallsMatch, IsConsistent(core), VerdictStands,
         ControlDrivesItsResult, RelayFollowsCore, [Next]_vars
  PROVE  RelayFollowsCore'
<1> SUFFICES ASSUME OnlyControlWrites', relay'
             PROVE  (core'.state \in Energising /\ ~pending') \/ IsOpening'
  BY DEF RelayFollowsCore
<1>1. /\ "control" \in Writers /\ relay \in BOOLEAN
      /\ drive \in [Writers -> Drive]
      /\ control \in [at : ControlSteps, input : Measurement \cup {Nothing},
                      result : SystemState]
  BY TaskNames DEF TypeOK, ActuatorTypeOK
<1>2. CASE Control /\ ~ControlDrives
  <2>1. /\ control.at # "apply" /\ drive["control"] = NotDriving
        /\ UNCHANGED <<actuatorVars, watchdog, setup, stalled>>
    BY <1>2, ControlOutsideDrive
  <2>2. drive["control"].at = "idle" /\ drive' = drive /\ OnlyControlWrites
    BY <2>1 DEF NotDriving, OnlyControlWrites
  <2>3. relay
    BY <2>1
  <2>4. core.state \in Energising /\ ~pending
    BY <2>1, <2>2, <2>3 DEF RelayFollowsCore, IsOpening
  <2>5. CASE control'.at = "apply"
    <3>1. \/ control'.result \in {"INIT", "FAULT"}
          \/ control'.result = core'.state /\ ~pending'
      BY <1>2, <2>5, ControlResult
    <3> QED
      BY <2>2, <2>5, <3>1 DEF IsOpening, RelayCommandedOn, Energising
  <2>6. CASE control'.at # "apply"
    <3>1. CASE ControlResets \/ ControlAcknowledges
      BY <2>4, <3>1, OperatingStateStands
    <3>2. CASE ControlLockTimeout
      BY <1>1, <2>4, <2>6, <3>2 DEF ControlLockTimeout
    <3>3. CASE \/ ReceiveSample \/ ReceiveTimeout \/ ControlLocks \/ TakeCommand
               \/ NoMoreCommands
      BY <2>4, <3>3
      DEF ReceiveSample, ReceiveTimeout, ControlLocks, TakeCommand, NoMoreCommands
    <3>4. ControlJudges => control'.at = "apply"
      BY DEF ControlJudges
    <3> QED
      BY <1>2, <2>6, <3>1, <3>2, <3>3, <3>4 DEF Control
  <2> QED
    BY <2>5, <2>6
<1>3. CASE ControlDrives
  <2>1. /\ control.at = "apply" /\ OnlyControlWrites
        /\ core' = core /\ pending' = pending
    BY <1>3 DEF ControlDrives, OnlyControlWrites
  <2>2. CASE RelayCommandedOn(control.result)
    BY <2>1, <2>2 DEF VerdictStands
  <2>3. CASE ~RelayCommandedOn(control.result)
    <3>1. drive["control"].at # "retry"
      BY <2>1 DEF ControlDrivesItsResult
    <3>2. ~WriteRelay("control")
      BY <2>1, <2>3 DEF WriteRelay, ControlDrivesItsResult, RelayPinDrivenOn
    <3>3. relay' = relay
      BY <1>3, <3>1, <3>2
      DEF ControlDrives, StartDrive, DriveStep, ChooseLevel, CheckRelay, RetryRelay, Return
    <3>4. drive["control"].at \in {"idle", "level", "write"} \/
          (core.state \in Energising /\ ~pending)
      BY <2>1, <3>3 DEF RelayFollowsCore, IsOpening
    <3>5. CASE drive["control"].at \in {"idle", "level", "write"}
      <4>1. ~CheckRelay("control") /\ ~RetryRelay("control") /\ ~Return("control")
        BY <3>5 DEF CheckRelay, RetryRelay, Return
      <4>2. control' = control
        BY <1>3, <4>1 DEF ControlDrives
      <4>3. CASE StartDrive("control", control.result)
        BY <1>1, <2>1, <2>3, <4>2, <4>3 DEF StartDrive, IsOpening
      <4>4. CASE ChooseLevel("control")
        BY <1>1, <2>1, <2>3, <4>2, <4>4 DEF ChooseLevel, IsOpening
      <4> QED
        BY <1>3, <3>2, <4>1, <4>3, <4>4 DEF ControlDrives, DriveStep
    <3> QED
      BY <2>1, <3>4, <3>5
  <2> QED
    BY <2>2, <2>3
<1>4. CASE FatalStop \/ WatchdogDrives
  BY <1>4, AloneInDrive
<1>5. CASE WatchdogRestarts \/ HardwareRestarts
  BY <1>5, RebootInvariant DEF WatchdogRestarts, HardwareRestarts, IInv, RelayFollowsCore
<1>6. CASE \/ Advance \/ CreateTask \/ SetupFails \/ SendSample
           \/ \E reading \in Readings : Sense(reading)
           \/ \E r \in Readers : ReaderLocks(r) \/ ReaderUnlocks(r)
           \/ \E command \in Commands : SendCommand(command)
           \/ ControlStalls \/ WatchdogFails \/ UNCHANGED vars
  BY <1>6, BystandersStep DEF RelayFollowsCore, IsOpening
<1> QED
  BY <1>2, <1>3, <1>4, <1>5, <1>6 DEF Next

\* While ControlTask hangs and setup() writes nothing, WatchdogTask's call drives
\* OFF, also after the next step.
LEMMA WatchdogDrivesOffStep ==
  ASSUME TypeOK, CallsMatch, WatchdogDrivesOff, [Next]_vars
  PROVE  WatchdogDrivesOff'
<1>1. relay \in BOOLEAN /\ drive \in [Writers -> Drive]
  BY DEF TypeOK, ActuatorTypeOK
<1>2. CASE Control
  BY <1>2 DEF Control, WatchdogDrivesOff
<1>3. CASE ControlStalls
  BY <1>3 DEF ControlStalls, WatchdogDrivesOff
<1>4. CASE WatchdogFails
  <2>1. drive'["watchdog"].at = "idle" /\ watchdog' = "drive"
    BY <1>4 DEF WatchdogFails, CallsMatch, Calls, NotDriving
  <2> QED
    BY <2>1 DEF WatchdogDrivesOff
<1>5. CASE WatchdogDrives
  <2> SUFFICES ASSUME stalled, setup \in {"creating", "complete"}
               PROVE  WatchdogDrivesOff'
    BY <1>5 DEF WatchdogDrives, WatchdogDrivesOff
  <2> DEFINE call == drive["watchdog"]
  <2>1. /\ watchdog = "drive" /\ "watchdog" \in Writers
        /\ stalled' = stalled /\ setup' = setup
    BY <1>5 DEF WatchdogDrives, CallsMatch
  <2>2. /\ call.at = "level" => ~commandedOn /\ ~call.on
        /\ call.at \in {"write", "check", "retry"} => ~call.level
        /\ call.at \in {"check", "done"} => ~relay
    BY <2>1 DEF WatchdogDrivesOff
  <2>3. CASE StartDrive("watchdog", "FAULT")
    <3>1. watchdog' = "drive"
      BY <1>5, <2>1, <2>3 DEF WatchdogDrives, StartDrive, Return, DriveStep
    <3> QED
      BY <1>1, <2>1, <2>3, <3>1 DEF StartDrive, RelayCommandedOn, WatchdogDrivesOff
  <2>4. CASE DriveStep("watchdog")
    <3>1. watchdog' = "drive"
      BY <1>5, <2>1, <2>4
      DEF WatchdogDrives, Return, DriveStep, ChooseLevel, WriteRelay, CheckRelay, RetryRelay
    <3>2. CASE ChooseLevel("watchdog")
      <4>1. PICK seen \in {commandedOn, call.on} :
              drive' = [drive EXCEPT !["watchdog"] =
                          [at |-> "write", on |-> FALSE, level |-> RelayPinDrivenOn(seen)]]
        BY <3>2 DEF ChooseLevel
      <4>2. ~RelayPinDrivenOn(seen)
        BY <2>2, <3>2, <4>1 DEF ChooseLevel, RelayPinDrivenOn
      <4>3. drive'["watchdog"].at = "write" /\ ~drive'["watchdog"].level
        BY <1>1, <2>1, <4>1, <4>2
      <4> QED
        BY <3>1, <4>3 DEF WatchdogDrivesOff
    <3>3. CASE WriteRelay("watchdog")
      BY <1>1, <2>1, <2>2, <3>1, <3>3 DEF WriteRelay, WatchdogDrivesOff, Drive
    <3>4. CASE CheckRelay("watchdog")
      BY <1>1, <2>1, <2>2, <3>1, <3>4 DEF CheckRelay, WatchdogDrivesOff, Drive, NotDriving
    <3>5. CASE RetryRelay("watchdog")
      BY <1>1, <2>1, <2>2, <3>1, <3>5 DEF RetryRelay, WatchdogDrivesOff, Drive, NotDriving
    <3> QED
      BY <2>4, <3>2, <3>3, <3>4, <3>5 DEF DriveStep
  <2>5. CASE Return("watchdog")
    BY <1>1, <2>1, <2>2, <2>5 DEF Return, WatchdogDrivesOff, NotDriving
  <2> QED
    BY <1>5, <2>3, <2>4, <2>5 DEF WatchdogDrives
<1>6. CASE FatalStop
  BY <1>6 DEF FatalStop, WatchdogDrivesOff
<1>7. CASE WatchdogRestarts \/ HardwareRestarts
  BY <1>7, RebootInvariant DEF WatchdogRestarts, HardwareRestarts, IInv
<1>8. CASE \/ Advance \/ CreateTask \/ SetupFails \/ SendSample
           \/ \E reading \in Readings : Sense(reading)
           \/ \E r \in Readers : ReaderLocks(r) \/ ReaderUnlocks(r)
           \/ \E command \in Commands : SendCommand(command)
           \/ UNCHANGED vars
  BY <1>8
  DEF Advance, CreateTask, SetupFails, SendSample, Sense, ReaderLocks, ReaderUnlocks,
      SendCommand, vars, WatchdogDrivesOff
<1> QED
  BY <1>2, <1>3, <1>4, <1>5, <1>6, <1>7, <1>8 DEF Next

-----------------------------------------------------------------------------
(***************************************************************************)
(* The theorems.                                                           *)
(***************************************************************************)

\* Every step keeps the inductive invariant.
LEMMA InvariantStep == IInv /\ [Next]_vars => IInv'
<1> SUFFICES ASSUME IInv, [Next]_vars PROVE IInv'
  OBVIOUS
<1>1. TypeOK' /\ CallsMatch' /\ InputIsSample'
  BY TypeStep, CallsMatchStep, InputIsSampleStep DEF IInv
<1>2. SamplesInOrder' /\ IsConsistent(core') /\ EnergisedOnGoodSample'
  BY SamplesInOrderStep, ConsistentStep, EnergisedOnGoodSampleStep DEF IInv
<1>3. VerdictStands' /\ ControlDrivesItsResult' /\ RelayFollowsCore'
  BY VerdictStandsStep, ControlDrivesItsResultStep, RelayFollowsCoreStep DEF IInv
<1>4. WatchdogDrivesOff'
  BY WatchdogDrivesOffStep DEF IInv
<1> QED
  BY <1>1, <1>2, <1>3, <1>4 DEF IInv

\* The inductive invariant of the local protection path holds in every state the
\* tasks, setup() and the restarts can lead to.
THEOREM Invariance == Spec => []IInv
BY InitInvariant, InvariantStep, PTL DEF Spec

\* Every variable keeps to its type and its queue length, and protectionMutex is
\* ControlTask's exactly through its critical sections.
THEOREM TypeCorrect == Spec => []TypeOK
<1>1. IInv => TypeOK
  BY DEF IInv
<1> QED
  BY <1>1, Invariance, PTL

\* measurementQueue hands the samples to the protection object in the order in
\* which they were taken, and none comes from the future.
THEOREM SamplesStayInOrder == Spec => []SamplesInOrder
<1>1. IInv => SamplesInOrder
  BY DEF IInv
<1> QED
  BY <1>1, Invariance, PTL

\* Until WatchdogTask or fatalStop() writes the outputs, a closed relay means an
\* operating state without a pending lock failure, or an opening under way.
THEOREM RelayFollows == Spec => []RelayFollowsCore
<1>1. IInv => RelayFollowsCore
  BY DEF IInv
<1> QED
  BY <1>1, Invariance, PTL

\* Wherever ControlTask hangs, in drive() too, the relay is open when WatchdogTask
\* comes to restart the controller, if setup() is through.
THEOREM SafeOutputOnHang == Spec => []SafeOutputIfControlHangs
<1>1. IInv => SafeOutputIfControlHangs
  BY DEF IInv, WatchdogDrivesOff, SafeOutputIfControlHangs
<1> QED
  BY <1>1, Invariance, PTL

\* A step that closes the relay is ControlTask's write of a verdict that stands.
LEMMA ClosesOnVerdictStep == IInv /\ [Next]_vars => [ClosesOnVerdict]_vars
<1> SUFFICES ASSUME IInv, Next, OnlyControlWrites, ~relay, relay'
             PROVE  /\ ~core.fault.active /\ ~pending
                    /\ core.last.valid /\ core.last.voltage > MinOperatingVoltageV
                    /\ ~core.awaitingFirstSample /\ core.rearmMs <= core.last.timestamp
  BY DEF ClosesOnVerdict
<1>1. core \in Core /\ pending \in BOOLEAN
  BY DEF IInv, TypeOK
<1>2. ControlDrives
  <2>1. ~(Control /\ ~ControlDrives)
    BY ControlOutsideDrive DEF IInv
  <2>2. ~FatalStop /\ ~WatchdogDrives
    BY AloneInDrive
  <2>3. ~WatchdogRestarts /\ ~HardwareRestarts
    BY DEF WatchdogRestarts, HardwareRestarts, Reboot, ActuatorRestart
  <2> QED
    BY <2>1, <2>2, <2>3, BystandersStep DEF Next
<1>3. WriteRelay("control")
  <2>1. ~RetryRelay("control")
    BY DEF IInv, ControlDrivesItsResult, RetryRelay
  <2> QED
    BY <1>2, <2>1
    DEF ControlDrives, StartDrive, DriveStep, ChooseLevel, CheckRelay, Return
<1>4. control.at = "apply" /\ RelayCommandedOn(control.result)
  <2>1. drive["control"].at = "write" /\ drive["control"].level
    BY <1>3 DEF WriteRelay
  <2> QED
    BY <1>2, <2>1 DEF IInv, ControlDrivesItsResult, ControlDrives, RelayPinDrivenOn
<1>5. core.state \in Energising /\ ~pending
  BY <1>4 DEF IInv, VerdictStands
<1>6. ~core.fault.active /\ ~core.awaitingFirstSample
  BY <1>5 DEF IInv, IsConsistent, Energising
<1> QED
  BY <1>5, <1>6 DEF IInv, EnergisedOnGoodSample

\* While ControlTask is the only writer, the relay is closed only by a valid,
\* powered sample taken since the re-arm point, with no fault latched or pending.
THEOREM RelayClosesOnly == Spec => RelayClosesOnVerdict
BY Invariance, ClosesOnVerdictStep, PTL DEF Spec, RelayClosesOnVerdict

\* Only the next use of the object and a restart take a pending lock failure back.
LEMMA ConsumesPendingStep == IInv /\ [Next]_vars => [ConsumesPending]_vars
<1> SUFFICES ASSUME IInv, Next, pending, ~pending' PROVE ConsumesPending
  BY DEF ConsumesPending
<1> DEFINE p == WithPendingFault(core)
<1>1. /\ core \in Core /\ now \in Millis
      /\ p \in Core /\ IsConsistent(p) /\ p.last = core.last
      /\ p.state = "FAULT" /\ p.fault.active
  BY ClockType, PendingFaultResult DEF IInv, TypeOK
<1>2. /\ p.fault.active <=> p.state = "FAULT"
      /\ p.fault.active <=> p.fault.activeFault # "NONE"
  BY <1>1 DEF IsConsistent
<1> HIDE DEF p
<1>3. ControlJudges \/ ControlResets \/ WatchdogRestarts \/ HardwareRestarts
  BY DEF Next, Advance, CreateTask, SetupFails, FatalStop, Sense, SendSample,
         ReaderLocks, ReaderUnlocks, SendCommand, Control, ReceiveSample, ReceiveTimeout,
         ControlLocks, ControlLockTimeout, ControlDrives, TakeCommand, NoMoreCommands,
         ControlAcknowledges, ControlStalls, WatchdogFails, WatchdogDrives
<1>4. CASE ControlJudges
  <2>1. CASE control.at = "updateLocked"
    <3>1. core' = Update(p, control.input, now) /\ control.input \in Measurement
      BY <1>4, <2>1 DEF ControlJudges, IInv, InputIsSample, p
    <3>2. core'.fault = p.fault
      BY <1>1, <1>2, <3>1, UpdateResult
    <3> QED
      BY <1>1, <3>2 DEF ConsumesPending
  <2>2. CASE control.at # "updateLocked"
    <3>1. core' = Tick(p, now)
      BY <1>4, <2>2 DEF ControlJudges, p
    <3>2. core' = p
      BY <1>1, <1>2, <3>1, TickResult
    <3> QED
      BY <1>1, <3>2 DEF ConsumesPending
  <2> QED
    BY <2>1, <2>2
<1>5. CASE ControlResets
  <2>1. core' = RequestReset(p, now) /\ control.at = "resetLocked"
    BY <1>5 DEF ControlResets, p
  <2>2. OnlyControlWrites => ~relay
    BY <2>1 DEF IInv, RelayFollowsCore, IsOpening
  <2>3. \/ core' = p
        \/ core'.state = "INIT" /\ p.last.valid /\ IsFresh(p.last, now)
    BY <1>1, <2>1, ResetOutcome
  <2> QED
    BY <1>1, <2>1, <2>2, <2>3 DEF ConsumesPending
<1> QED
  BY <1>3, <1>4, <1>5 DEF ConsumesPending

\* What update() or tick() recorded when it failed to get the lock is remembered until
\* a fault is latched for it, a restart, or a reset that finds fresh, valid data behind
\* an open relay.
THEOREM RecordedFailureIsKept == Spec => RecordedFailureIsNotLost
BY Invariance, ConsumesPendingStep, PTL DEF Spec, RecordedFailureIsNotLost
-----------------------------------------------------------------------------
(***************************************************************************)
(* The pin implements LatchedRelay.                                        *)
(***************************************************************************)

\* A critical section keeps what is latched, latches a first cause, or clears it.
LEMMA RecordedStep ==
  ASSUME IInv, [Next]_vars, ControlJudges \/ ControlResets \/ ControlAcknowledges
  PROVE  /\ Recorded \in FaultCode /\ Recorded' \in FaultCode
         /\ Recorded' = Recorded \/ Recorded = "NONE" \/ Recorded' = "NONE"
<1> DEFINE p == WithPendingFault(core)
<1>1. core \in Core /\ now \in Millis
  BY ClockType DEF IInv, TypeOK
<1>2. core' \in Core
  BY TypeStep DEF IInv, TypeOK
<1>3. Recorded \in FaultCode /\ Recorded' \in FaultCode
  BY <1>1, <1>2 DEF Recorded, Core, FaultManager, FaultCode
<1>4. core.fault.active <=> core.fault.activeFault # "NONE"
  BY DEF IInv, IsConsistent
<1>5. core'.fault.active <=> core'.fault.activeFault # "NONE"
  BY ConsistentStep DEF IInv, IsConsistent
<1>6. p \in Core /\ IsConsistent(p)
  BY <1>1, PendingFaultResult DEF IInv
<1>7. p.fault.active <=> p.state = "FAULT"
  BY <1>6 DEF IsConsistent
<1>8. p.fault.active <=> p.fault.activeFault # "NONE"
  BY <1>6 DEF IsConsistent
<1>9. p.fault.activeFault = Recorded
  <2>1. CASE pending
    <3>1. p = RaiseFault(core, "PROTECTION_INTERNAL")
      BY <2>1 DEF WithPendingFault, RaiseInternalFault
    <3> QED
      BY <1>1, <1>4, <2>1, <3>1, RaiseFaultResult DEF Recorded, FaultCode
  <2>2. CASE ~pending
    BY <1>4, <2>2 DEF WithPendingFault, Recorded
  <2> QED
    BY <2>1, <2>2
<1> HIDE DEF p
<1>10. CASE ControlJudges
  <2>1. Recorded' = core'.fault.activeFault
    BY <1>5, <1>10 DEF ControlJudges, Recorded
  <2>2. CASE control.at = "updateLocked"
    <3>1. core' = Update(p, control.input, now) /\ control.input \in Measurement
      BY <1>10, <2>2 DEF ControlJudges, IInv, InputIsSample, p
    <3>2. core'.fault = p.fault \/ p.state # "FAULT"
      BY <1>1, <1>6, <1>7, <1>8, <3>1, UpdateResult
    <3> QED
      BY <1>3, <1>7, <1>8, <1>9, <2>1, <3>2
  <2>3. CASE control.at # "updateLocked"
    <3>1. core' = Tick(p, now)
      BY <1>10, <2>3 DEF ControlJudges, p
    <3>2. core' = p \/ p.state # "FAULT"
      BY <1>1, <1>6, <1>7, <1>8, <3>1, TickResult
    <3> QED
      BY <1>3, <1>7, <1>8, <1>9, <2>1, <3>2
  <2> QED
    BY <2>2, <2>3
<1>11. CASE ControlResets
  <2>1. Recorded' = core'.fault.activeFault
    BY <1>5, <1>11 DEF ControlResets, Recorded
  <2>2. core' = RequestReset(p, now)
    BY <1>11 DEF ControlResets, p
  <2>3. core' = p \/ core'.fault.activeFault = "NONE"
    BY <1>1, <1>6, <2>2, ResetOutcome
  <2> QED
    BY <1>3, <1>9, <2>1, <2>3
<1>12. CASE ControlAcknowledges
  <2>1. core' = Acknowledge(core) /\ pending' = pending
    BY <1>12 DEF ControlAcknowledges
  <2>2. /\ core'.fault.active = core.fault.active
        /\ core'.fault.activeFault = core.fault.activeFault
    BY <1>1, <2>1 DEF Acknowledge, Core, FaultManager
  <2> QED
    BY <1>3, <2>1, <2>2 DEF Recorded
<1> QED
  BY <1>10, <1>11, <1>12

\* A closed relay that is not being opened hides no latch, before a step and after.
LEMMA LatchedAtPin ==
  ASSUME IInv, [Next]_vars, OnlyControlWrites, OnlyControlWrites'
  PROVE  /\ Latched = IF relay THEN "NONE" ELSE Recorded
         /\ Latched' = IF relay' THEN "NONE" ELSE Recorded'
<1>1. relay /\ ~IsOpening => Recorded = "NONE"
  <2> SUFFICES ASSUME relay, ~IsOpening PROVE Recorded = "NONE"
    OBVIOUS
  <2>1. core.state \in Energising /\ ~pending
    BY DEF IInv, RelayFollowsCore
  <2> QED
    BY <2>1 DEF IInv, IsConsistent, Energising, Recorded
<1>2. relay' /\ ~IsOpening' => Recorded' = "NONE"
  <2> SUFFICES ASSUME relay', ~IsOpening' PROVE Recorded' = "NONE"
    OBVIOUS
  <2>1. RelayFollowsCore' /\ IsConsistent(core')
    BY InvariantStep DEF IInv
  <2>2. core'.state \in Energising /\ ~pending'
    BY <2>1 DEF RelayFollowsCore
  <2> QED
    BY <2>1, <2>2 DEF IsConsistent, Energising, Recorded
<1> QED
  BY <1>1, <1>2 DEF Latched

\* While ControlTask is the only writer, every step is one of LatchedRelay, or none
\* that pin and latch show.
LEMMA PinStep ==
  ASSUME IInv, [Next]_vars, OnlyControlWrites, OnlyControlWrites'
  PROVE  Pin!Next \/ UNCHANGED <<relay, Latched>>
<1>1. relay \in BOOLEAN /\ relay' \in BOOLEAN
  BY TypeStep DEF IInv, TypeOK, ActuatorTypeOK
<1>2. /\ Latched = IF relay THEN "NONE" ELSE Recorded
      /\ Latched' = IF relay' THEN "NONE" ELSE Recorded'
  BY LatchedAtPin
<1>3. Recorded' \in FaultCode
  <2>1. core' \in Core
    BY TypeStep DEF IInv, TypeOK
  <2> QED
    BY <2>1 DEF Recorded, Core, FaultManager, FaultCode
<1>4. CASE ControlJudges \/ ControlResets \/ ControlAcknowledges
  <2>1. relay' = relay
    BY <1>4 DEF ControlJudges, ControlResets, ControlAcknowledges
  <2>2. CASE relay
    BY <1>2, <2>1, <2>2
  <2>3. CASE ~relay
    <3>1. Latched = Recorded /\ Latched' = Recorded' /\ relay' = FALSE
      BY <1>1, <1>2, <2>1, <2>3
    <3>2. Recorded' = Recorded \/ Recorded = "NONE" \/ Recorded' = "NONE"
      BY <1>4, RecordedStep
    <3>3. CASE Recorded' = Recorded
      BY <2>1, <3>1, <3>3
    <3>4. CASE Recorded = "NONE" /\ Recorded' # "NONE"
      <4>1. Pin!Trip(Recorded')
        BY <3>1, <3>4 DEF Pin!Trip
      <4> QED
        BY <1>3, <3>4, <4>1 DEF Pin!Next
    <3>5. CASE Recorded # "NONE" /\ Recorded' = "NONE"
      BY <2>3, <3>1, <3>5 DEF Pin!Next, Pin!Clear
    <3> QED
      BY <3>2, <3>3, <3>4, <3>5
  <2> QED
    BY <2>2, <2>3
<1>5. CASE ControlDrives
  <2>1. Recorded' = Recorded /\ control.at = "apply"
    BY <1>5 DEF ControlDrives, Recorded
  <2>2. CASE relay' = relay
    BY <1>2, <2>1, <2>2
  <2>3. CASE ~relay /\ relay'
    <3>1. ~core.fault.active /\ ~pending
      BY <2>3, ClosesOnVerdictStep DEF ClosesOnVerdict, vars, actuatorVars
    <3>2. Latched = "NONE" /\ Latched' = "NONE"
      BY <1>2, <2>3, <3>1 DEF Recorded
    <3> QED
      BY <1>1, <2>3, <3>2 DEF Pin!Next, Pin!Allow
  <2>4. CASE relay /\ ~relay'
    <3>1. Latched = "NONE" /\ Latched' = Recorded' /\ relay' = FALSE
      BY <1>1, <1>2, <2>4
    <3>2. CASE Recorded' = "NONE"
      BY <3>1, <3>2 DEF Pin!Next, Pin!Inhibit
    <3>3. CASE Recorded' # "NONE"
      <4>1. Pin!Trip(Recorded')
        BY <3>1 DEF Pin!Trip
      <4> QED
        BY <1>3, <3>3, <4>1 DEF Pin!Next
    <3> QED
      BY <3>2, <3>3
  <2> QED
    BY <1>1, <2>2, <2>3, <2>4
<1>6. CASE ControlLockTimeout
  <2>1. relay' = relay /\ core' = core /\ control.at # "apply"
    BY <1>6 DEF ControlLockTimeout
  <2>2. Recorded' = Recorded \/ Recorded = "NONE"
    BY <1>6, <2>1 DEF ControlLockTimeout, Recorded, IInv, TypeOK
  <2>3. CASE relay \/ Recorded' = Recorded
    BY <1>2, <2>1, <2>3
  <2>4. CASE ~relay /\ Recorded' # Recorded
    <3>1. Latched = "NONE" /\ Latched' = Recorded' /\ relay' = FALSE
      BY <1>1, <1>2, <2>1, <2>2, <2>4
    <3>2. Pin!Trip(Recorded')
      BY <3>1 DEF Pin!Trip
    <3> QED
      BY <1>3, <2>2, <2>4, <3>2 DEF Pin!Next
  <2> QED
    BY <2>3, <2>4
<1>7. CASE WatchdogRestarts \/ HardwareRestarts
  <2>1. /\ core' = Begin(0) /\ pending' = FALSE /\ relay' = FALSE
    BY <1>7 DEF WatchdogRestarts, HardwareRestarts, Reboot, ActuatorRestart
  <2>2. Latched' = "NONE"
    BY <1>2, <2>1 DEF Recorded, Begin, NoFault
  <2>3. CASE Latched = "NONE"
    BY <2>1, <2>2, <2>3 DEF Pin!Next, Pin!Inhibit
  <2>4. CASE Latched # "NONE"
    <3>1. ~relay
      BY <1>2, <2>4
    <3> QED
      BY <2>1, <2>2, <2>4, <3>1 DEF Pin!Next, Pin!Clear
  <2> QED
    BY <2>3, <2>4
<1>8. CASE \/ ReceiveSample \/ ReceiveTimeout \/ ControlLocks \/ TakeCommand
           \/ NoMoreCommands
  <2>1. UNCHANGED <<relay, core, pending>>
    BY <1>8 DEF ReceiveSample, ReceiveTimeout, ControlLocks, TakeCommand, NoMoreCommands
  <2> QED
    BY <1>2, <2>1 DEF Recorded
<1>9. ~FatalStop /\ ~WatchdogDrives
  BY AloneInDrive
<1>10. CASE \/ Advance \/ CreateTask \/ SetupFails \/ SendSample
            \/ \E reading \in Readings : Sense(reading)
            \/ \E r \in Readers : ReaderLocks(r) \/ ReaderUnlocks(r)
            \/ \E command \in Commands : SendCommand(command)
            \/ ControlStalls \/ WatchdogFails \/ UNCHANGED vars
  <2>1. UNCHANGED <<relay, core, pending>>
    BY <1>10, BystandersStep DEF actuatorVars
  <2> QED
    BY <1>2, <2>1 DEF Recorded
<1> QED
  BY <1>4, <1>5, <1>6, <1>7, <1>8, <1>9, <1>10 DEF Next, Control

\* Where WatchdogTask only supervises and setup() is through, sensor, queues, locks,
\* commands and drive() together implement the abstract latched relay: at the pin,
\* a fault is kept with its first cause, and clearing it never closes the relay.
THEOREM PinRefinement ==
  ASSUME Writers = {"control"}
  PROVE  Spec => PinIsLatchedRelay
<1>1. Init => Pin!Init
  BY DEF Init, ActuatorInit, Pin!Init, Latched, Recorded, Begin, NoFault
<1>2. IInv => OnlyControlWrites
  <2>1. "watchdog" \notin Writers /\ "setup" \notin Writers
    OBVIOUS
  <2> QED
    BY <2>1 DEF IInv, CallsMatch, OnlyControlWrites
<1>3. IInv /\ IInv' /\ [Next]_vars => [Pin!Next]_<<relay, Latched>>
  <2>1. IInv' => OnlyControlWrites'
    BY <1>2, PTL
  <2> QED
    BY <1>2, <2>1, PinStep
<1> QED
  BY <1>1, <1>3, Invariance, PTL DEF Spec, PinIsLatchedRelay, Pin!Spec
=============================================================================
