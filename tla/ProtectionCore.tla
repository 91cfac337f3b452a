--------------------------- MODULE ProtectionCore ---------------------------
(***************************************************************************)
(* The protection state machine of lib/energy_core/src/protection_core.cpp *)
(* as functions from the state of one ProtectionCore object to its next    *)
(* state.  The C++ class is single threaded; what calls it, when and under *)
(* which lock is the subject of the modules that use these functions.      *)
(*                                                                         *)
(* Time is millis(), an unsigned counter that wraps.  Power and voltage    *)
(* are natural numbers: only their order relative to the thresholds is     *)
(* ever looked at.  Fields that are only reported (activeSince,            *)
(* lastFaultTime, lastFault, lastReset) are left out.                      *)
(***************************************************************************)
EXTENDS Integers

CONSTANTS
  Half,                  \* half the range of millis(): 2^31 on the ESP32
  CountWrap,             \* range of the fault counter: 2^32 on the ESP32
  WarningPowerW,         \* power > this: WARNING
  FaultPowerW,           \* power > this: confirmation timer
  MinOperatingVoltageV,  \* voltage <= this: no mains
  FaultConfirmMs,        \* how long an overload must persist
  MaxMeasurementAgeMs    \* older samples are not trusted

ASSUME ConfigAssumption ==
  /\ Half \in Nat \ {0}
  /\ CountWrap \in Nat \ {0}
  /\ WarningPowerW \in Nat
  /\ FaultPowerW \in Nat
  /\ MinOperatingVoltageV \in Nat
  /\ FaultConfirmMs \in Nat \ {0}
  /\ MaxMeasurementAgeMs \in Nat
  /\ WarningPowerW <= FaultPowerW

-----------------------------------------------------------------------------
(***************************************************************************)
(* Unsigned 32-bit time.                                                   *)
(***************************************************************************)

Wrap == 2 * Half
Millis == 0 .. Wrap - 1

\* static_cast<uint32_t>(now - then): exact as long as less than Wrap passed.
Elapsed(now, then) == IF then <= now THEN now - then ELSE (now - then) + Wrap

\* static_cast<int32_t>(t - ref) < 0: the top half of the range is negative.
SignedBefore(t, ref) == Elapsed(t, ref) >= Half

-----------------------------------------------------------------------------
(***************************************************************************)
(* Data types.                                                             *)
(***************************************************************************)

SystemState == {"INIT", "NORMAL", "WARNING", "FAULT"}
FaultCode ==
  {"NONE", "SENSOR_INVALID", "OVERPOWER", "SENSOR_STALE", "PROTECTION_INTERNAL"}
\* The fields of a sample that the protection reads.
Measurement ==
  [valid : BOOLEAN, voltage : Nat, power : Nat, timestamp : Millis]

FaultManager ==
  [activeFault : FaultCode, totalFaults : 0 .. CountWrap - 1,
   active : BOOLEAN, acknowledged : BOOLEAN]

\* timerStart_ is only read while timerActive_: NoTimer stands for the flag.
NoTimer == -1

Core ==
  [state : SystemState, fault : FaultManager,
   timerStart : Millis \cup {NoTimer},
   haveMeasurement : BOOLEAN, last : Measurement, lastSampleMs : Millis,
   awaitingFirstSample : BOOLEAN, rearmMs : Millis]

NoMeasurement == [valid |-> FALSE, voltage |-> 0, power |-> 0, timestamp |-> 0]
NoFault ==
  [activeFault |-> "NONE", totalFaults |-> 0, active |-> FALSE,
   acknowledged |-> FALSE]

-----------------------------------------------------------------------------
(***************************************************************************)
(* The operations of the class.                                            *)
(***************************************************************************)

Begin(now) ==
  [state |-> "INIT", fault |-> NoFault,
   timerStart |-> NoTimer,
   haveMeasurement |-> FALSE, last |-> NoMeasurement, lastSampleMs |-> now,
   awaitingFirstSample |-> TRUE, rearmMs |-> now]

(* Faulty variants, named ...Bug..., stand before the definition they vary. *)

\* The later cause wins.
LatchBugOverwrite(fault, cause) ==
  [activeFault |-> cause, totalFaults |-> (fault.totalFaults + 1) % CountWrap,
   active |-> TRUE, acknowledged |-> FALSE]

\* The first cause is kept: a latched fault is never overwritten or counted twice.
Latch(fault, cause) ==
  IF fault.active THEN fault
  ELSE [activeFault |-> cause, totalFaults |-> (fault.totalFaults + 1) % CountWrap,
        active |-> TRUE, acknowledged |-> FALSE]

\* The confirmation timer survives the fault.
RaiseFaultBugTimer(c, cause) ==
  [c EXCEPT !.fault = Latch(c.fault, cause), !.state = "FAULT"]

RaiseFault(c, cause) ==
  [c EXCEPT !.fault = Latch(c.fault, cause), !.timerStart = NoTimer,
            !.state = "FAULT"]

IsFresh(m, now) == Elapsed(now, m.timestamp) <= MaxMeasurementAgeMs

\* No mains is not a fault, but the first sample after it is gated again.
NoMains(c) ==
  [c EXCEPT !.timerStart = NoTimer, !.state = "INIT", !.awaitingFirstSample = TRUE]

\* Every overload sample restarts the confirmation.
OverpowerBugRestart(c, now) ==
  IF c.awaitingFirstSample
    THEN [RaiseFault(c, "OVERPOWER") EXCEPT !.awaitingFirstSample = FALSE]
    ELSE [c EXCEPT !.timerStart = now, !.state = "WARNING"]

\* The timer holds the end of the confirmation, in more bits than millis() has.
OverpowerBugDeadline(c, now) ==
  LET end == IF c.timerStart = NoTimer THEN now + FaultConfirmMs ELSE c.timerStart
  IN  IF c.awaitingFirstSample
        THEN [RaiseFault(c, "OVERPOWER") EXCEPT !.awaitingFirstSample = FALSE]
      ELSE IF now >= end
        THEN RaiseFault(c, "OVERPOWER")
      ELSE [c EXCEPT !.timerStart = end, !.state = "WARNING"]

\* Overload: latched at once behind the gate, else after the confirmation time.
Overpower(c, now) ==
  LET start == IF c.timerStart = NoTimer THEN now ELSE c.timerStart
      timed == [c EXCEPT !.timerStart = start]
  IN  IF c.awaitingFirstSample
        THEN [RaiseFault(c, "OVERPOWER") EXCEPT !.awaitingFirstSample = FALSE]
      ELSE IF Elapsed(now, start) >= FaultConfirmMs
        THEN RaiseFault(timed, "OVERPOWER")
      ELSE [timed EXCEPT !.state = "WARNING"]

Operating(c, power) ==
  [c EXCEPT !.timerStart = NoTimer, !.awaitingFirstSample = FALSE,
            !.state = IF power > WarningPowerW THEN "WARNING" ELSE "NORMAL"]

Evaluate(c, m, now) ==
  IF ~IsFresh(m, now) THEN RaiseFault(c, "SENSOR_STALE")
  ELSE IF ~m.valid THEN RaiseFault(c, "SENSOR_INVALID")
  ELSE IF m.voltage <= MinOperatingVoltageV THEN NoMains(c)
  ELSE IF m.power > FaultPowerW THEN Overpower(c, now)
  ELSE Operating(c, m.power)

\* Every sample counts, whenever it was taken.
IgnoredBugNever(c, m) == FALSE

\* Samples from before the re-arm point describe the world before the reset.
Ignored(c, m) == c.awaitingFirstSample /\ SignedBefore(m.timestamp, c.rearmMs)

Update(c, m, now) ==
  LET seen  == [c EXCEPT !.last = m, !.haveMeasurement = TRUE]
      heard == [seen EXCEPT !.lastSampleMs = now]
  IN  IF c.state = "FAULT" THEN heard
      ELSE IF Ignored(c, m) THEN seen
      ELSE Evaluate(heard, m, now)

\* Silence is only noticed in NORMAL.
TickBugNormalOnly(c, now) ==
  IF c.state = "NORMAL" /\ Elapsed(now, c.lastSampleMs) > MaxMeasurementAgeMs
    THEN RaiseFault(c, "SENSOR_STALE")
    ELSE c

Tick(c, now) ==
  IF c.state # "FAULT" /\ Elapsed(now, c.lastSampleMs) > MaxMeasurementAgeMs
    THEN RaiseFault(c, "SENSOR_STALE")
    ELSE c

\* The interlock forgets the age of the sample.
ResetVerdictBugStale(c, now) ==
  IF ~c.fault.active THEN "REJECTED_NO_ACTIVE_FAULT"
  ELSE IF ~c.haveMeasurement THEN "REJECTED_NO_MEASUREMENT"
  ELSE IF ~c.last.valid THEN "REJECTED_INVALID_MEASUREMENT"
  ELSE IF c.last.power > FaultPowerW THEN "REJECTED_UNSAFE_CONDITION"
  ELSE "ACCEPTED"

\* The interlock, in the order of its checks.
ResetVerdict(c, now) ==
  IF ~c.fault.active THEN "REJECTED_NO_ACTIVE_FAULT"
  ELSE IF ~c.haveMeasurement THEN "REJECTED_NO_MEASUREMENT"
  ELSE IF ~IsFresh(c.last, now) THEN "REJECTED_STALE_MEASUREMENT"
  ELSE IF ~c.last.valid THEN "REJECTED_INVALID_MEASUREMENT"
  ELSE IF c.last.power > FaultPowerW THEN "REJECTED_UNSAFE_CONDITION"
  ELSE "ACCEPTED"

\* The silence clock is not restarted.
RearmBugSilence(c, now) ==
  [c EXCEPT !.fault = [@ EXCEPT !.activeFault = "NONE", !.active = FALSE,
                                !.acknowledged = FALSE],
            !.timerStart = NoTimer, !.state = "INIT",
            !.awaitingFirstSample = TRUE, !.rearmMs = now]

Rearm(c, now) ==
  [c EXCEPT !.fault = [@ EXCEPT !.activeFault = "NONE", !.active = FALSE,
                                !.acknowledged = FALSE],
            !.timerStart = NoTimer, !.state = "INIT",
            !.awaitingFirstSample = TRUE, !.rearmMs = now, !.lastSampleMs = now]

RequestReset(c, now) ==
  IF ResetVerdict(c, now) = "ACCEPTED" THEN Rearm(c, now) ELSE c

\* An operator has seen the fault: a flag, never a release.
Acknowledge(c) ==
  IF c.fault.active THEN [c EXCEPT !.fault.acknowledged = TRUE] ELSE c

RaiseInternalFault(c) == RaiseFault(c, "PROTECTION_INTERNAL")

\* An overload is a live, powered reading above the fault threshold.
IsOverload(m) ==
  m.valid /\ m.voltage > MinOperatingVoltageV /\ m.power > FaultPowerW

\* The four places that say "there is a fault" agree, an acknowledged fault is
\* an active one, the gate is passed exactly by the energised states, and the
\* confirmation timer only runs in WARNING.
IsConsistent(c) ==
  /\ c.fault.active <=> c.state = "FAULT"
  /\ c.fault.active <=> c.fault.activeFault # "NONE"
  /\ c.fault.acknowledged => c.fault.active
  /\ c.state = "INIT" <=> (c.awaitingFirstSample /\ ~c.fault.active)
  /\ c.timerStart # NoTimer => c.state = "WARNING"

\* States that actuator_policy.cpp maps to a closed relay.
Energising == {"NORMAL", "WARNING"}
=============================================================================
