---------------------------- MODULE Measurements ----------------------------
(***************************************************************************)
(* measurement_core.cpp: what becomes of a raw reading of the meter, and   *)
(* the samples of a simulation build.                                      *)
(*                                                                         *)
(* Floats are integers in units that make voltage times current a power:   *)
(* V, 10 mA, 10 mW, kWh, and percent for the power factor.  NaN stands for *)
(* every value that is not finite.                                         *)
(***************************************************************************)
EXTENDS Integers

CONSTANTS
  NaN,
  Limit,            \* the largest plausible value of each field
  RatioPercent,     \* powerOverApparentRatio
  Margin,           \* powerOverApparentMarginW
  Segment           \* a third of the simulated profile: 5000 ms

Fields == {"voltage", "current", "power", "energy", "powerFactor"}
Statuses == {"NOT_INITIALIZED", "OK", "SENSOR_ERROR", "OUT_OF_RANGE", "INCONSISTENT"}
Sources == {"PZEM", "SIMULATION"}

ASSUME LimitsAssumption ==
  /\ Limit \in [Fields -> Nat] /\ RatioPercent \in Nat /\ Margin \in Nat
  /\ Segment \in Nat \ {0}

\* The limits leave room for the simulated profile, as those of
\* defaultMeasurementLimits() do.
ASSUME ProfileAssumption ==
  /\ NaN \notin Int
  /\ 230 <= Limit.voltage /\ 260 <= Limit.current
  /\ 60000 <= Limit.power /\ 100 <= Limit.powerFactor
  /\ 1 <= RatioPercent \/ 200 <= Margin

Zeros == [voltage |-> 0, current |-> 0, power |-> 0, energy |-> 0, powerFactor |-> 0]

\* makeInvalidMeasurement()
MakeInvalid(source, status, now) ==
  [value |-> Zeros, apparentPower |-> 0,
   valid |-> FALSE, status |-> status, source |-> source, timestamp |-> now]

\* Measurement{}
NoSample == MakeInvalid("PZEM", "NOT_INITIALIZED", 0)

\* Faulty variant: what is only displayed is not looked at.
IsFiniteBug(raw) == \A f \in {"voltage", "current", "power"} : raw[f] # NaN

IsFinite(raw) == \A f \in Fields : raw[f] # NaN

\* Faulty variant: the limits are excluded.
IsInRangeBug(raw) ==
  \A f \in Fields : raw[f] # NaN => 0 <= raw[f] /\ raw[f] < Limit[f]

\* A comparison with NaN is false, whichever it is.
IsInRange(raw) ==
  \A f \in Fields : raw[f] # NaN => 0 <= raw[f] /\ raw[f] <= Limit[f]

\* Active power does not exceed V * I by more than the tolerance.
IsConsistent(raw) ==
  100 * raw.power <= (100 + RatioPercent) * raw.voltage * raw.current + 100 * Margin

\* buildMeasurement()
BuildMeasurement(raw, source, now) ==
  IF ~IsFinite(raw) THEN MakeInvalid(source, "SENSOR_ERROR", now)
  ELSE IF ~IsInRange(raw) THEN MakeInvalid(source, "OUT_OF_RANGE", now)
  ELSE IF ~IsConsistent(raw) THEN MakeInvalid(source, "INCONSISTENT", now)
  ELSE [value |-> raw, apparentPower |-> raw.voltage * raw.current,
        valid |-> TRUE, status |-> "OK", source |-> source, timestamp |-> now]

\* simulationSample(): 40 W, 500 W and 600 W in turn, at 230 V.
SimulationSample(now) ==
  LET phase == (now % (3 * Segment)) \div Segment
      current == <<20, 217, 260>>[phase + 1]
      power == <<4000, 50000, 60000>>[phase + 1]
      ratio == (100 * power) \div (230 * current)
  IN  BuildMeasurement(
        [voltage |-> 230, current |-> current, power |-> power, energy |-> 0,
         powerFactor |-> IF ratio > 100 THEN 100 ELSE ratio],
        "SIMULATION", now)
=============================================================================
