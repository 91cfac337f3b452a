-------------------------- MODULE ProtectionMachine --------------------------
(***************************************************************************)
(* One ProtectionCore object over time: its operations are called in any   *)
(* order, at any moment the control loop allows, while millis() runs and   *)
(* wraps.  The samples come from the measurement queue: in the order they  *)
(* were taken, possibly late.                                              *)
(*                                                                         *)
(* There is no absolute clock.  Beside millis(), which wraps, the model    *)
(* keeps the real ages the properties speak of, each counted up to AgeCap. *)
(***************************************************************************)
EXTENDS ProtectionCore

CONSTANTS
  Readings,          \* what a sample may report
  MaxCallGap,        \* tick() or update() at least this often (control loop: 100 ms)
  MaxSampleDelay,    \* from taking a sample to update() (queue of 5, one a second)
  MaxSilence,        \* the sensor is heard within this, or the watchdog restarts
  AgeCap             \* ages are counted up to here

\* The bounds are far below the range of millis(), and ages are counted far
\* enough to tell whether half of that range has passed.
ASSUME TimingAssumption ==
  /\ Readings \subseteq [valid : BOOLEAN, voltage : Nat, power : Nat]
  /\ MaxCallGap \in Nat \ {0}
  /\ MaxSampleDelay \in Nat
  /\ MaxSilence \in Nat
  /\ AgeCap \in Nat
  /\ MaxSampleDelay < Half
  /\ Half <= AgeCap
  /\ MaxSilence <= AgeCap
  /\ FaultConfirmMs + 2 * MaxMeasurementAgeMs + MaxCallGap <= AgeCap
  /\ AgeCap < Wrap

VARIABLES
  core,    \* the ProtectionCore object
  millis,  \* millis()
  age      \* real ages, none of them known to the code

vars == <<core, millis, age>>

NoRun == -1

(***************************************************************************)
(* sample: since core.last was taken (since boot if there is none).        *)
(* heard:  since a sample taken after the last re-arm was delivered.       *)
(* rearm:  since boot or the last accepted reset.                          *)
(* over:   since the first of the uninterrupted overload samples delivered *)
(*         last was taken, or NoRun.                                       *)
(* call:   since the last tick() or update().                              *)
(***************************************************************************)
Ages ==
  [sample : 0 .. MaxSilence, heard : 0 .. AgeCap, rearm : 0 .. AgeCap,
   over : NoRun .. AgeCap, call : 0 .. MaxCallGap]

NewAges == [sample |-> 0, heard |-> 0, rearm |-> 0, over |-> NoRun, call |-> 0]

Older(a) == IF a < AgeCap THEN a + 1 ELSE a

\* millis() one tick later.
Later(now) == IF now = Wrap - 1 THEN 0 ELSE now + 1

Init == core = Begin(0) /\ millis = 0 /\ age = NewAges

-----------------------------------------------------------------------------
(***************************************************************************)
(* The environment: time passes, and a restart runs setup() again.         *)
(***************************************************************************)

Advance ==
  /\ age.call < MaxCallGap
  /\ age.sample < MaxSilence
  /\ millis' = Later(millis)
  /\ age' = [sample |-> age.sample + 1, heard |-> Older(age.heard),
             rearm |-> Older(age.rearm), call |-> age.call + 1,
             over |-> IF age.over = NoRun THEN NoRun ELSE Older(age.over)]
  /\ UNCHANGED core

Restart == core' = Begin(0) /\ millis' = 0 /\ age' = NewAges

-----------------------------------------------------------------------------
(***************************************************************************)
(* The operations.                                                         *)
(***************************************************************************)

\* delay: the time the sample spent in the queue.
UpdateSample(reading, delay) ==
  LET m == [valid |-> reading.valid, voltage |-> reading.voltage,
            power |-> reading.power, timestamp |-> Elapsed(millis, delay)]
  IN  /\ delay <= age.sample
      /\ core' = Update(core, m, millis)
      /\ age' = [age EXCEPT
                   !.sample = delay,
                   !.heard = IF delay <= age.rearm THEN 0 ELSE age.heard,
                   !.over = IF ~IsOverload(m) THEN NoRun
                            ELSE IF age.over = NoRun THEN delay ELSE age.over,
                   !.call = 0]
      /\ UNCHANGED millis

TickStep ==
  /\ core' = Tick(core, millis)
  /\ age' = [age EXCEPT !.call = 0]
  /\ UNCHANGED millis

ResetStep ==
  /\ core' = RequestReset(core, millis)
  /\ age' = IF ResetVerdict(core, millis) = "ACCEPTED"
              THEN [age EXCEPT !.rearm = 0, !.heard = 0]
              ELSE age
  /\ UNCHANGED millis

AcknowledgeStep == core' = Acknowledge(core) /\ UNCHANGED <<millis, age>>

InternalFaultStep == core' = RaiseInternalFault(core) /\ UNCHANGED <<millis, age>>

Next ==
  \/ Advance
  \/ Restart
  \/ \E reading \in Readings, delay \in 0 .. MaxSampleDelay :
       UpdateSample(reading, delay)
  \/ TickStep
  \/ ResetStep
  \/ AcknowledgeStep
  \/ InternalFaultStep

Spec == Init /\ [][Next]_vars

-----------------------------------------------------------------------------
(***************************************************************************)
(* Properties.                                                             *)
(***************************************************************************)

\* The fields hold what the C++ types and the bounds allow.
TypeOK == core \in Core /\ millis \in Millis /\ age \in Ages

\* The four places that say "there is a fault" agree, an acknowledged fault is
\* an active one, the gate is passed exactly by the energised states, and the
\* confirmation timer only runs in WARNING.
FaultConsistent == IsConsistent(core)

\* A measured overload cannot keep the relay closed: from the moment the first
\* overload sample was taken the relay stays closed for less than the
\* confirmation time plus the ages the freshness checks let through.
OverloadIsBounded ==
  core.state \in Energising =>
    age.over < FaultConfirmMs + 2 * MaxMeasurementAgeMs + MaxCallGap

\* The relay is closed only on data that is still recent, was valid, showed
\* mains, and was taken after the last boot or reset.
EnergisedDataIsRecent ==
  core.state \in Energising =>
    /\ core.haveMeasurement /\ core.last.valid
    /\ core.last.voltage > MinOperatingVoltageV
    /\ age.heard <= MaxMeasurementAgeMs + MaxCallGap
    /\ age.sample <= 2 * MaxMeasurementAgeMs + MaxCallGap
    /\ age.sample <= age.rearm

\* The step that closes the relay is the delivery of a sample that is fresh,
\* valid, powered, not an overload and taken at or after the re-arm point.
EnergisesOnGoodSample ==
  core.state \notin Energising /\ core'.state \in Energising =>
    /\ core.state = "INIT"
    /\ core'.last.valid
    /\ core'.last.voltage > MinOperatingVoltageV
    /\ core'.last.power <= FaultPowerW
    /\ age'.sample <= MaxMeasurementAgeMs
    /\ age'.sample <= age.rearm

EnergiseOnlyOnGoodSample == [][EnergisesOnGoodSample]_vars

\* A latched fault keeps its cause and is counted once; only a restart, or a
\* reset judged on a live, valid, safe sample, ends it, and then the relay is
\* open and gated.
KeepsLatch ==
  core.fault.active =>
    \/ core' = Begin(0)
    \/ /\ core'.state = "FAULT"
       /\ core'.fault.activeFault = core.fault.activeFault
       /\ core'.fault.totalFaults = core.fault.totalFaults
    \/ /\ core'.state = "INIT" /\ core'.awaitingFirstSample
       /\ age.sample <= MaxMeasurementAgeMs
       /\ core.last.valid /\ core.last.power <= FaultPowerW

FaultIsLatched == [][KeepsLatch]_vars

\* SENSOR_STALE is raised only when the sensor was really silent or its sample
\* really old.  It is so as long as less than half the range of millis() has
\* passed since the re-arm point; see AlwaysStaleIsGenuine.
StaleIsGenuine ==
  core.state # "FAULT" /\ core'.fault.activeFault = "SENSOR_STALE" =>
    age.heard > MaxMeasurementAgeMs \/ age'.sample > MaxMeasurementAgeMs

StaleFaultIsGenuine == [][age.rearm < Half => StaleIsGenuine]_vars

\* The same without the bound on the time since the re-arm point: timing that
\* is correct across the wrap of millis(), as docs/fault-management.md says.
AlwaysStaleIsGenuine == [][StaleIsGenuine]_vars

\* The code's stamps, as far as they are exact, against the real ages.
StampsExact ==
  /\ Elapsed(millis, core.last.timestamp) = age.sample
  /\ age.rearm < AgeCap => Elapsed(millis, core.rearmMs) = age.rearm
  /\ core.state # "FAULT" /\ age.rearm < Half /\ age.heard < AgeCap =>
       Elapsed(millis, core.lastSampleMs) = age.heard

\* What every energised state owes to the last sample and to the last tick.
EnergisedStrong ==
  core.state \in Energising =>
    /\ core.haveMeasurement /\ core.last.valid
    /\ core.last.voltage > MinOperatingVoltageV
    /\ Elapsed(millis, core.lastSampleMs) = age.heard
    /\ age.heard <= MaxMeasurementAgeMs + age.call
    /\ age.sample <= age.heard + MaxMeasurementAgeMs
    /\ age.sample <= age.rearm
    /\ age.over = NoRun <=> core.timerStart = NoTimer
    /\ core.timerStart # NoTimer =>
         /\ age.over <= Elapsed(millis, core.timerStart) + MaxMeasurementAgeMs
         /\ age.heard <= Elapsed(millis, core.timerStart)
         /\ Elapsed(millis, core.timerStart) < FaultConfirmMs + age.heard

\* The inductive invariant: it implies OverloadIsBounded and
\* EnergisedDataIsRecent, and every step keeps it.
IInv == TypeOK /\ FaultConsistent /\ StampsExact /\ EnergisedStrong

Relay == INSTANCE LatchedRelay WITH
  Causes <- FaultCode \ {"NONE"},
  permit <- core.state \in Energising,
  latch <- core.fault.activeFault

\* Every run of the object is a run of the promised latched relay.
RefinesLatchedRelay == Relay!Spec
=============================================================================
