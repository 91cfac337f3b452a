-------------------------- MODULE ReportingProofs --------------------------
(***************************************************************************)
(* Proofs about Reporting, for every set of loads, limits, periods, bounds *)
(* on ages and rounds, and range of millis() that its assumptions allow.   *)
(***************************************************************************)
EXTENDS Reporting, BasicLemmas

USE DEF data, ghosts, counts

-----------------------------------------------------------------------------
(***************************************************************************)
(* Samples.                                                                *)
(***************************************************************************)

\* The product of two values does not exceed the product of their limits.
LEMMA ProductBound ==
  ASSUME NEW a \in Nat, NEW b \in Nat, NEW A \in Nat, NEW B \in Nat, a <= A, b <= B
  PROVE  a * b \in Nat /\ a * b <= A * B
<1>1. a * b \in Nat /\ (A - a) * b >= 0 /\ A * (B - b) >= 0
  BY SMT
<1>2. A * B = a * b + (A - a) * b + A * (B - b)
  BY SMT
<1>3. a * b \in Int /\ A * B \in Int /\ (A - a) * b \in Int /\ A * (B - b) \in Int
  BY SMT
<1> QED
  BY <1>1, <1>2, <1>3

LEMMA LimitType ==
  /\ \A f \in Fields : Limit[f] \in Nat
  /\ Limit.voltage \in Nat /\ Limit.current \in Nat
  /\ Limit.voltage * Limit.current \in Nat
<1>1. \A f \in Fields : Limit[f] \in Nat
  BY LimitsAssumption
<1>2. Limit.voltage \in Nat /\ Limit.current \in Nat
  BY <1>1 DEF Fields
<1> QED
  BY <1>1, <1>2, ProductBound

\* An invalid measurement carries no value.
LEMMA InvalidSample ==
  ASSUME NEW from \in Sources, NEW status \in Statuses, NEW now \in Millis
  PROVE  /\ MakeInvalid(from, status, now) \in Sample
         /\ MakeInvalid(from, status, now).timestamp = now
         /\ ~MakeInvalid(from, status, now).valid
         /\ MakeInvalid(from, status, now).status = status
         /\ IsWithinLimits(MakeInvalid(from, status, now))
<1>1. Zeros \in [Fields -> Int] /\ \A f \in Fields : Zeros[f] = 0
  BY DEF Zeros, Fields
<1> QED
  BY <1>1, LimitType DEF MakeInvalid, Sample, IsWithinLimits

LEMMA NoSampleType ==
  /\ NoSample \in Sample /\ ~NoSample.valid /\ NoSample.status # "OK"
  /\ IsWithinLimits(NoSample)
BY InvalidSample, ZeroIsMillis DEF NoSample, Sources, Statuses

\* What becomes of any raw reading: a sample stamped now, valid exactly when its
\* status is OK, and never beyond the limits.
LEMMA BuiltSample ==
  ASSUME NEW raw \in [Fields -> Int \cup {NaN}], NEW from \in Sources, NEW now \in Millis
  PROVE  LET built == BuildMeasurement(raw, from, now)
         IN  /\ built \in Sample /\ built.timestamp = now
             /\ built.valid <=> built.status = "OK"
             /\ IsWithinLimits(built)
<1>1. CASE IsFinite(raw) /\ IsInRange(raw) /\ IsConsistent(raw)
  <2>1. raw \in [Fields -> Int] /\ \A f \in Fields : raw[f] \in Nat /\ raw[f] <= Limit[f]
    BY <1>1 DEF IsFinite, IsInRange
  <2>2. /\ raw.voltage \in Nat /\ raw.voltage <= Limit.voltage
        /\ raw.current \in Nat /\ raw.current <= Limit.current
    BY <2>1 DEF Fields
  <2>3. /\ raw.voltage * raw.current \in Nat
        /\ raw.voltage * raw.current <= Limit.voltage * Limit.current
    BY <2>2, LimitType, ProductBound
  <2>4. BuildMeasurement(raw, from, now) =
          [value |-> raw, apparentPower |-> raw.voltage * raw.current,
           valid |-> TRUE, status |-> "OK", source |-> from, timestamp |-> now]
    BY <1>1 DEF BuildMeasurement
  <2> QED
    BY <2>1, <2>3, <2>4 DEF Sample, Statuses, IsWithinLimits
<1>2. CASE ~(IsFinite(raw) /\ IsInRange(raw) /\ IsConsistent(raw))
  <2>1. PICK status \in {"SENSOR_ERROR", "OUT_OF_RANGE", "INCONSISTENT"} :
          BuildMeasurement(raw, from, now) = MakeInvalid(from, status, now)
    BY <1>2 DEF BuildMeasurement
  <2> QED
    BY <2>1, InvalidSample DEF Statuses
<1> QED
  BY <1>1, <1>2

\* The simulated profile is at one of its three points.
LEMMA PhaseType ==
  ASSUME NEW now \in Nat
  PROVE  (now % (3 * Segment)) \div Segment \in 0 .. 2
<1>1. Segment \in Nat \ {0}
  BY LimitsAssumption
<1> DEFINE rest == now % (3 * Segment)
<1>2. rest \in 0 .. 3 * Segment - 1
  BY <1>1
<1> HIDE DEF rest
<1> DEFINE phase == rest \div Segment
<1>3. phase \in Int /\ Segment * phase <= rest /\ rest < Segment * (phase + 1)
  BY <1>1, <1>2
<1> HIDE DEF phase
<1>4. phase >= 0
  <2>1. SUFFICES ASSUME phase + 1 <= 0 PROVE FALSE
    BY <1>3
  <2>2. Segment * (phase + 1) <= 0
    BY <1>1, <1>3, <2>1
  <2> QED
    BY <1>1, <1>2, <1>3, <2>2
<1>5. phase <= 2
  <2>1. SUFFICES ASSUME phase >= 3 PROVE FALSE
    BY <1>3
  <2>2. Segment * phase >= 3 * Segment
    BY <1>1, <1>3, <2>1
  <2> QED
    BY <1>1, <1>2, <1>3, <2>2
<1> QED
  BY <1>3, <1>4, <1>5 DEF phase, rest

\* A simulated sample is built like one of the meter.
LEMMA SimulatedSample ==
  ASSUME NEW now \in Millis
  PROVE  \E raw \in [Fields -> Int] :
           /\ SimulationSample(now) = BuildMeasurement(raw, "SIMULATION", now)
           /\ raw.voltage = 230
           /\ \/ raw.current = 20 /\ raw.power = 4000
              \/ raw.current = 217 /\ raw.power = 50000
              \/ raw.current = 260 /\ raw.power = 60000
           /\ raw.energy = 0 /\ raw.powerFactor \in 0 .. 100
<1> DEFINE phase == (now % (3 * Segment)) \div Segment
<1>1. phase \in 0 .. 2
  BY PhaseType, ClockAssumption DEF Millis
<1> DEFINE current == <<20, 217, 260>>[phase + 1]
           power == <<4000, 50000, 60000>>[phase + 1]
<1>2. \/ current = 20 /\ power = 4000
      \/ current = 217 /\ power = 50000
      \/ current = 260 /\ power = 60000
  <2> HIDE DEF phase
  <2>1. phase = 0 \/ phase = 1 \/ phase = 2
    BY <1>1
  <2> QED
    BY <2>1
<1> DEFINE ratio == (100 * power) \div (230 * current)
           raw == [voltage |-> 230, current |-> current, power |-> power, energy |-> 0,
                   powerFactor |-> IF ratio > 100 THEN 100 ELSE ratio]
<1>3. SimulationSample(now) = BuildMeasurement(raw, "SIMULATION", now)
  BY DEF SimulationSample
<1> HIDE DEF current, power
<1>4. ratio \in Nat
  BY <1>2
<1>5. raw.powerFactor \in 0 .. 100
  <2> HIDE DEF ratio
  <2> QED
    BY <1>4
<1> HIDE DEF ratio
<1>6. raw \in [Fields -> Int]
  BY <1>2, <1>4 DEF Fields
<1>7. raw.voltage = 230 /\ raw.current = current /\ raw.power = power /\ raw.energy = 0
  OBVIOUS
<1> HIDE DEF raw
<1> QED
  BY <1>2, <1>3, <1>5, <1>6, <1>7

-----------------------------------------------------------------------------
(***************************************************************************)
(* The inductive invariant.                                                *)
(***************************************************************************)

SensorType == [at : {"read", "store", "stored"}, sample : Sample]
ReaderType == [Readers -> [at : {"idle", "copy", "copied", "report"}, copy : Sample]]

\* The tasks, and the mutex that is free, are told apart.
LEMMA TasksDiffer ==
  /\ "network" \in Readers /\ "sensor" \notin Readers /\ Nobody \notin Readers
  /\ Nobody # "sensor" /\ "latest" \notin Readers
  /\ "sensor" \in Copied /\ "latest" \in Copied /\ Readers \subseteq Copied
BY ReportingAssumption DEF Nobody, Copied

LEMMA BoundsType ==
  /\ MaxAge \in Nat /\ MaxAge < Wrap /\ Wrap \in Nat \ {0}
  /\ TelemetryPeriod \in Nat \ {0} /\ MaxRound \in Nat
  /\ TelemetryPeriod + 3 * MaxRound <= Wrap /\ MaxLost \in Nat
BY ReportingAssumption, ClockAssumption DEF Millis

CountsType ==
  quiet \in 0 .. QuietCap /\ lost \in 0 .. MaxLost /\ gap \in 0 .. TelemetryPeriod

USE DEF CountsType

\* Each report lost in a row adds a period and a round to the delay.
LEMMA DelayType ==
  ASSUME NEW n \in Nat
  PROVE  Delay(n) \in Nat /\ Delay(n + 1) = Delay(n) + TelemetryPeriod + MaxRound
<1> DEFINE step == TelemetryPeriod + MaxRound
<1>1. step \in Nat
  BY BoundsType
<1> HIDE DEF step
<1>2. n * step \in Nat /\ (n + 1) * step = n * step + step
  BY <1>1, SMT
<1>3. Delay(n) = n * step /\ Delay(n + 1) = (n + 1) * step
  BY DEF Delay, step
<1> QED
  BY <1>2, <1>3, BoundsType DEF step

LEMMA CapType == QuietCap \in Nat
<1>1. MaxLost + 1 \in Nat
  BY BoundsType
<1>2. Delay(MaxLost + 1) \in Nat
  BY <1>1, DelayType
<1> QED
  BY <1>2, BoundsType DEF QuietCap, LongestQuiet

LEMMA InitInvariant == Init => IInv
<1> SUFFICES ASSUME Init PROVE IInv
  OBVIOUS
<1>1. /\ sensor = Waiting /\ latest = NoSample /\ whole = NoSample
      /\ reader = [r \in Readers |-> IdleReader] /\ holder = Nobody
      /\ network = [now |-> 0, lastTelemetry |-> 0]
      /\ millis = 0 /\ quiet = 0 /\ lost = 0 /\ gap = 0
  BY DEF Init
<1>2. sensor \in SensorType /\ sensor.at = "read" /\ sensor.sample = NoSample
  BY <1>1, NoSampleType DEF Waiting, SensorType
<1>3. /\ reader \in ReaderType
      /\ \A r \in Readers : reader[r].at = "idle" /\ reader[r].copy = NoSample
  BY <1>1, NoSampleType DEF IdleReader, ReaderType
<1>4. age \in [Copied -> 0 .. MaxAge] /\ CountsType
  BY <1>1, BoundsType, CapType DEF Init
<1>5. TypeOK
  <2>1. ~sensor.sample.valid /\ sensor.sample.status # "OK"
    BY <1>2, NoSampleType
  <2>2. network \in [now : Millis, lastTelemetry : Millis] /\ millis \in Millis
    BY <1>1, ZeroIsMillis
  <2>3. source \in Sources /\ {latest, whole} \subseteq Sample /\ steady \subseteq Loads
    BY NoSampleType DEF Init
  <2>4. sensor.sample.valid <=> sensor.sample.status = "OK"
    BY <2>1
  <2> QED
    BY <1>1, <1>2, <1>3, <1>4, <2>2, <2>3, <2>4
       DEF TypeOK, SensorType, ReaderType
<1>6. MutexIsHeld /\ StoreIsHalfway /\ CopyIsHalfway
  BY <1>1, <1>2, <1>3, TasksDiffer DEF MutexIsHeld, StoreIsHalfway, CopyIsHalfway
<1>7. StampsAreReal
  BY <1>1, <1>2, <1>3, NoSampleType DEF StampsAreReal, AgeIsReal
<1>8. RoundIsShort /\ TimerRuns /\ GapIsReal
  <2>1. Elapsed(millis, network.now) = 0
    BY <1>1, ElapsedNow, ZeroIsMillis
  <2>2. Elapsed(millis, network.lastTelemetry) = 0
    BY <1>1, ElapsedNow, ZeroIsMillis
  <2> QED
    BY <1>1, <1>3, <2>1, <2>2, TasksDiffer, BoundsType
       DEF RoundIsShort, TimerRuns, GapIsReal
<1>9. SamplesAreWithinLimits
  BY <1>1, <1>2, <1>3, NoSampleType DEF SamplesAreWithinLimits
<1> QED
  BY <1>5, <1>6, <1>7, <1>8, <1>9 DEF IInv

\* The conjuncts that speak of NetworkTask's timer, and of time, survive a step that
\* leaves these alone.
LEMMA TimerKeeps ==
  ASSUME RoundIsShort, TimerRuns, GapIsReal, UNCHANGED <<millis, network, counts>>,
         reader'["network"].at = "idle" <=> reader["network"].at = "idle"
  PROVE  RoundIsShort' /\ TimerRuns' /\ GapIsReal'
BY DEF RoundIsShort, TimerRuns, GapIsReal

\* Time passes: all that is held gets older, its stamps by the same.
LEMMA AdvanceStep ==
  ASSUME IInv, Advance
  PROVE  IInv'
<1>1. /\ TypeOK /\ MutexIsHeld /\ StoreIsHalfway /\ CopyIsHalfway /\ StampsAreReal
      /\ RoundIsShort /\ TimerRuns /\ GapIsReal /\ SamplesAreWithinLimits
  BY DEF IInv
<1>2. UNCHANGED <<source, sensor, data, reader, network, steady, lost>>
  BY DEF Advance
<1>3. /\ source' = source /\ sensor' = sensor /\ latest' = latest /\ whole' = whole
      /\ holder' = holder /\ reader' = reader /\ network' = network /\ steady' = steady
      /\ lost' = lost
  BY <1>2
<1>4. /\ millis \in Millis /\ sensor \in SensorType /\ latest \in Sample
      /\ reader \in ReaderType /\ network \in [now : Millis, lastTelemetry : Millis]
      /\ age \in [Copied -> 0 .. MaxAge] /\ CountsType
  BY <1>1 DEF TypeOK, SensorType, ReaderType
<1>5. /\ \A c \in Copied : age[c] \in Nat /\ age[c] < MaxAge /\ age[c] < Wrap - 1
      /\ \A c \in Copied : age'[c] = IF c \in Held THEN age[c] + 1 ELSE 0
      /\ age' \in [Copied -> 0 .. MaxAge]
  <2>1. \A c \in Copied : age[c] \in Nat /\ age[c] < MaxAge /\ age[c] < Wrap - 1
    BY <1>4, BoundsType DEF Advance
  <2>2. age' = [c \in Copied |-> IF c \in Held THEN age[c] + 1 ELSE 0]
    BY DEF Advance
  <2>3. \A c \in Copied : (IF c \in Held THEN age[c] + 1 ELSE 0) \in 0 .. MaxAge
    BY <2>1, BoundsType
  <2> QED
    BY <2>1, <2>2, <2>3
<1>6. TypeOK'
  <2>1. millis' \in Millis
    BY <1>4, LaterType DEF Advance
  <2>2. CountsType'
    BY <1>2, <1>4, BoundsType, CapType DEF Advance
  <2> QED
    BY <1>1, <1>3, <1>5, <2>1, <2>2 DEF TypeOK
<1>7. /\ MutexIsHeld' /\ StoreIsHalfway' /\ CopyIsHalfway' /\ SamplesAreWithinLimits'
  BY <1>1, <1>3 DEF MutexIsHeld, StoreIsHalfway, CopyIsHalfway, SamplesAreWithinLimits
<1>8. StampsAreReal'
  <2>1. ASSUME NEW c \in Copied, c \in Held, NEW stamp \in Millis,
               Elapsed(millis, stamp) = age[c]
        PROVE  Elapsed(millis', stamp) = age'[c]
    <3>1. Elapsed(millis, stamp) < Wrap - 1
      BY <1>5, <2>1
    <3>2. Elapsed(Later(millis), stamp) = age[c] + 1
      BY <1>4, <2>1, <3>1, ElapsedLater
    <3> QED
      BY <1>5, <2>1, <3>2 DEF Advance
  <2>2. sensor'.at # "read" => Elapsed(millis', sensor'.sample.timestamp) = age'["sensor"]
    <3>1. SUFFICES ASSUME sensor.at # "read"
                   PROVE  Elapsed(millis', sensor.sample.timestamp) = age'["sensor"]
      BY <1>3
    <3>2. sensor.sample.timestamp \in Millis
      BY <1>4 DEF SensorType, Sample
    <3>3. Elapsed(millis, sensor.sample.timestamp) = age["sensor"]
      BY <1>1, <3>1 DEF StampsAreReal
    <3>4. "sensor" \in Held
      BY <3>1 DEF Held
    <3> QED
      BY <2>1, <3>2, <3>3, <3>4, TasksDiffer
  <2>3. latest'.valid => Elapsed(millis', latest'.timestamp) = age'["latest"]
    <3>1. SUFFICES ASSUME latest.valid
                   PROVE  Elapsed(millis', latest.timestamp) = age'["latest"]
      BY <1>3
    <3>2. latest.timestamp \in Millis
      BY <1>4 DEF Sample
    <3>3. Elapsed(millis, latest.timestamp) = age["latest"]
      BY <1>1, <3>1 DEF StampsAreReal
    <3>4. "latest" \in Held
      BY DEF Held
    <3> QED
      BY <2>1, <3>2, <3>3, <3>4, TasksDiffer
  <2>4. AgeIsReal'
    <3>1. SUFFICES ASSUME NEW r \in Readers, reader[r].at = "report", reader[r].copy.valid
                   PROVE  Elapsed(millis', reader[r].copy.timestamp) = age'[r]
      BY <1>3 DEF AgeIsReal, ReportedAge
    <3>2. reader[r].copy.timestamp \in Millis
      BY <1>4 DEF ReaderType, Sample
    <3>3. Elapsed(millis, reader[r].copy.timestamp) = age[r]
      BY <1>1, <3>1 DEF StampsAreReal, AgeIsReal, ReportedAge
    <3>4. r \in Held /\ r \in Copied
      BY <3>1, TasksDiffer DEF Held
    <3> QED
      BY <2>1, <3>2, <3>3, <3>4
  <2> QED
    BY <1>1, <1>3, <2>2, <2>3, <2>4 DEF StampsAreReal
<1>9. RoundIsShort' /\ TimerRuns' /\ GapIsReal'
  <2>1. network.now \in Millis /\ network.lastTelemetry \in Millis
    BY <1>4
  <2>2. Elapsed(millis, network.now) < MaxRound
    BY DEF Advance
  <2>3. /\ Elapsed(millis, network.now) \in Nat
        /\ Elapsed(network.now, network.lastTelemetry) \in Nat
    BY <1>4, <2>1, ElapsedType
  <2>4. Elapsed(millis, network.now) < Wrap - 1
    BY <2>2, <2>3, BoundsType
  <2>5. Elapsed(millis', network'.now) = Elapsed(millis, network.now) + 1
    BY <1>3, <1>4, <2>1, <2>4, ElapsedLater DEF Advance
  <2>6. quiet' \in Nat /\ quiet' <= quiet + 1 /\ quiet \in Nat
    BY <1>4, BoundsType DEF Advance
  <2>7. RoundIsShort'
    BY <2>2, <2>3, <2>5, BoundsType DEF RoundIsShort
  <2>8. TimerRuns'
    <3>1. Delay(lost) \in Nat /\ lost' = lost
      BY <1>3, <1>4, BoundsType, DelayType
    <3> QED
      BY <1>1, <1>3, <2>3, <2>5, <2>6, <3>1, BoundsType DEF TimerRuns
  <2>9. GapIsReal'
    <3>1. SUFFICES ASSUME gap' < TelemetryPeriod
                   PROVE  Elapsed(millis', network.lastTelemetry) = gap'
      BY <1>3 DEF GapIsReal
    <3>2. gap' = gap + 1 /\ gap < TelemetryPeriod
      BY <1>4, <3>1, BoundsType DEF Advance
    <3>3. Elapsed(millis, network.lastTelemetry) = gap
      BY <1>1, <3>2 DEF GapIsReal
    <3>4. gap < Wrap - 1
      BY <1>4, <3>1, <3>2, BoundsType
    <3> QED
      BY <1>4, <2>1, <3>2, <3>3, <3>4, ElapsedLater DEF Advance
  <2> QED
    BY <2>7, <2>8, <2>9
<1> QED
  BY <1>6, <1>7, <1>8, <1>9 DEF IInv

\* SensorTask holds a new sample, stamped now.
LEMMA SampledStep ==
  ASSUME IInv, sensor.at = "read",
         NEW built \in Sample, built.timestamp = millis,
         built.valid <=> built.status = "OK", IsWithinLimits(built),
         sensor' = [at |-> "store", sample |-> built],
         age' = [age EXCEPT !["sensor"] = 0], steady' \subseteq Loads,
         UNCHANGED <<millis, source, data, reader, network, counts>>
  PROVE  IInv'
<1>1. /\ TypeOK /\ MutexIsHeld /\ StoreIsHalfway /\ CopyIsHalfway /\ StampsAreReal
      /\ RoundIsShort /\ TimerRuns /\ GapIsReal /\ SamplesAreWithinLimits
  BY DEF IInv
<1>2. /\ millis' = millis /\ source' = source /\ latest' = latest /\ whole' = whole
      /\ holder' = holder /\ reader' = reader /\ network' = network /\ counts' = counts
  OBVIOUS
<1>3. /\ age \in [Copied -> 0 .. MaxAge] /\ age' \in [Copied -> 0 .. MaxAge]
      /\ age'["sensor"] = 0 /\ \A c \in Copied \ {"sensor"} : age'[c] = age[c]
  BY <1>1, BoundsType, TasksDiffer DEF TypeOK
<1>4. sensor' \in SensorType /\ sensor'.at = "store" /\ sensor'.sample = built
  BY DEF SensorType
<1>5. TypeOK'
  BY <1>1, <1>2, <1>3, <1>4 DEF TypeOK, SensorType
<1>6. MutexIsHeld' /\ StoreIsHalfway' /\ CopyIsHalfway'
  BY <1>1, <1>2, <1>4 DEF MutexIsHeld, StoreIsHalfway, CopyIsHalfway
<1>7. StampsAreReal'
  <2>1. Elapsed(millis', sensor'.sample.timestamp) = age'["sensor"]
    BY <1>1, <1>2, <1>3, <1>4, ElapsedNow DEF TypeOK
  <2>2. age'["latest"] = age["latest"] /\ \A r \in Readers : age'[r] = age[r]
    BY <1>3, TasksDiffer
  <2> QED
    BY <1>1, <1>2, <2>1, <2>2 DEF StampsAreReal, AgeIsReal, ReportedAge
<1>8. RoundIsShort' /\ TimerRuns' /\ GapIsReal'
  BY <1>1, <1>2, TimerKeeps
<1>9. SamplesAreWithinLimits'
  BY <1>1, <1>2, <1>4 DEF SamplesAreWithinLimits
<1> QED
  BY <1>5, <1>6, <1>7, <1>8, <1>9 DEF IInv

\* The meter is read, or simulated.
LEMMA ReadStep ==
  ASSUME IInv,
         \/ \E before, after \in Loads : \E late : ReadPzem(before, after, late)
         \/ Simulate
  PROVE  IInv'
<1>1. millis \in Millis /\ steady \subseteq Loads
  BY DEF IInv, TypeOK
<1>2. ASSUME NEW before \in Loads, NEW after \in Loads, NEW late,
             ReadPzem(before, after, late)
      PROVE  IInv'
  <2> DEFINE raw == [f \in Fields |-> IF f \in late THEN after[f] ELSE before[f]]
             built == BuildMeasurement(raw, source, millis)
  <2>1. before \in [Fields -> Int \cup {NaN}] /\ after \in [Fields -> Int \cup {NaN}]
    BY ReportingAssumption
  <2>2. raw \in [Fields -> Int \cup {NaN}]
    BY <2>1
  <2>3. /\ sensor.at = "read" /\ source \in Sources
        /\ sensor' = [at |-> "store", sample |-> built]
        /\ age' = [age EXCEPT !["sensor"] = 0] /\ steady' \subseteq Loads
        /\ UNCHANGED <<millis, source, data, reader, network, counts>>
    BY <1>2 DEF ReadPzem, Sources
  <2> HIDE DEF raw
  <2>4. /\ built \in Sample /\ built.timestamp = millis
        /\ built.valid <=> built.status = "OK"
        /\ IsWithinLimits(built)
    BY <1>1, <2>2, <2>3, BuiltSample
  <2> HIDE DEF built
  <2> QED
    BY <2>3, <2>4, SampledStep
<1>3. CASE Simulate
  <2> DEFINE built == SimulationSample(millis)
  <2>1. PICK raw \in [Fields -> Int] : built = BuildMeasurement(raw, "SIMULATION", millis)
    BY <1>1, SimulatedSample
  <2>2. raw \in [Fields -> Int \cup {NaN}] /\ "SIMULATION" \in Sources
    BY DEF Sources
  <2>3. /\ sensor.at = "read" /\ sensor' = [at |-> "store", sample |-> built]
        /\ age' = [age EXCEPT !["sensor"] = 0] /\ steady' \subseteq Loads
        /\ UNCHANGED <<millis, source, data, reader, network, counts>>
    BY <1>1, <1>3 DEF Simulate
  <2> HIDE DEF built
  <2>4. /\ built \in Sample /\ built.timestamp = millis
        /\ built.valid <=> built.status = "OK"
        /\ IsWithinLimits(built)
    BY <1>1, <2>1, <2>2, BuiltSample
  <2> QED
    BY <2>3, <2>4, SampledStep
<1> QED
  BY <1>2, <1>3

\* The first part of a store, under the mutex.
LEMMA StoreFirstStep ==
  ASSUME IInv, StoreFirst
  PROVE  IInv'
<1>1. /\ TypeOK /\ MutexIsHeld /\ StoreIsHalfway /\ CopyIsHalfway /\ StampsAreReal
      /\ RoundIsShort /\ TimerRuns /\ GapIsReal /\ SamplesAreWithinLimits
  BY DEF IInv
<1>2. UNCHANGED <<millis, source, whole, reader, network, ghosts>>
  BY DEF StoreFirst
<1>3. /\ millis' = millis /\ source' = source /\ whole' = whole /\ reader' = reader
      /\ network' = network /\ age' = age /\ steady' = steady /\ counts' = counts
  BY <1>2
<1>4. /\ sensor.at = "store" /\ holder = Nobody /\ holder' = "sensor"
      /\ sensor' = [sensor EXCEPT !.at = "stored"]
      /\ latest' = [latest EXCEPT !.value = sensor.sample.value,
                                  !.apparentPower = sensor.sample.apparentPower]
  BY DEF StoreFirst, Lock
<1>5. sensor \in SensorType /\ latest \in Sample /\ sensor.sample \in Sample
  BY <1>1 DEF TypeOK, SensorType
<1>6. sensor' \in SensorType /\ sensor'.at = "stored" /\ sensor'.sample = sensor.sample
  BY <1>4, <1>5 DEF SensorType
<1>7. /\ latest' \in Sample /\ latest'.value = sensor.sample.value
      /\ latest'.apparentPower = sensor.sample.apparentPower
      /\ latest'.valid = latest.valid /\ latest'.timestamp = latest.timestamp
  BY <1>4, <1>5 DEF Sample
<1>8. TypeOK'
  BY <1>1, <1>3, <1>4, <1>6, <1>7 DEF TypeOK, SensorType
<1>9. \A r \in Readers : reader[r].at # "copied"
  BY <1>1, <1>4, TasksDiffer DEF MutexIsHeld
<1>10. MutexIsHeld'
  BY <1>3, <1>4, <1>6, <1>9, TasksDiffer DEF MutexIsHeld
<1>11. StoreIsHalfway' /\ CopyIsHalfway'
  BY <1>3, <1>6, <1>7, <1>9 DEF StoreIsHalfway, CopyIsHalfway
<1>12. StampsAreReal'
  BY <1>1, <1>3, <1>4, <1>6, <1>7 DEF StampsAreReal, AgeIsReal, ReportedAge
<1>13. RoundIsShort' /\ TimerRuns' /\ GapIsReal'
  BY <1>1, <1>3, TimerKeeps
<1>14. SamplesAreWithinLimits'
  BY <1>1, <1>3, <1>6, <1>7 DEF SamplesAreWithinLimits, IsWithinLimits
<1> QED
  BY <1>8, <1>10, <1>11, <1>12, <1>13, <1>14 DEF IInv

\* The rest of a store: latest is the whole sample, as old as it is.
LEMMA StoreRestStep ==
  ASSUME IInv, StoreRest
  PROVE  IInv'
<1>1. /\ TypeOK /\ MutexIsHeld /\ StoreIsHalfway /\ CopyIsHalfway /\ StampsAreReal
      /\ RoundIsShort /\ TimerRuns /\ GapIsReal /\ SamplesAreWithinLimits
  BY DEF IInv
<1>2. /\ millis' = millis /\ source' = source /\ reader' = reader /\ network' = network
      /\ counts' = counts /\ steady' = {}
  BY DEF StoreRest
<1>3. /\ sensor.at = "stored" /\ sensor' = Waiting /\ whole' = sensor.sample
      /\ latest' = [sensor.sample EXCEPT !.value = latest.value,
                                         !.apparentPower = latest.apparentPower]
      /\ age' = [age EXCEPT !["latest"] = age["sensor"], !["sensor"] = 0]
  BY DEF StoreRest
<1>4. holder = "sensor" /\ holder' = Nobody
  BY <1>1, <1>3 DEF MutexIsHeld, StoreRest
<1>5. sensor \in SensorType /\ latest \in Sample /\ sensor.sample \in Sample
  BY <1>1 DEF TypeOK, SensorType
<1>6. latest' = sensor.sample
  <2>1. /\ latest.value = sensor.sample.value
        /\ latest.apparentPower = sensor.sample.apparentPower
    BY <1>1, <1>3 DEF StoreIsHalfway
  <2> QED
    BY <1>3, <1>5, <2>1 DEF Sample
<1>7. sensor' \in SensorType /\ sensor'.at = "read" /\ sensor'.sample = NoSample
  BY <1>3, NoSampleType DEF Waiting, SensorType
<1>8. /\ age \in [Copied -> 0 .. MaxAge] /\ age' \in [Copied -> 0 .. MaxAge]
      /\ age'["latest"] = age["sensor"] /\ \A r \in Readers : age'[r] = age[r]
  <2>1. age \in [Copied -> 0 .. MaxAge]
    BY <1>1 DEF TypeOK
  <2> QED
    BY <1>3, <2>1, BoundsType, TasksDiffer
<1>9. TypeOK'
  <2>1. {latest', whole'} \subseteq Sample /\ steady' \subseteq Loads
    BY <1>2, <1>3, <1>5, <1>6
  <2>2. sensor'.sample.valid <=> sensor'.sample.status = "OK"
    BY <1>7, NoSampleType
  <2> QED
    BY <1>1, <1>2, <1>4, <1>7, <1>8, <2>1, <2>2 DEF TypeOK, SensorType
<1>10. \A r \in Readers : reader[r].at # "copied"
  BY <1>1, <1>4, TasksDiffer DEF MutexIsHeld
<1>11. MutexIsHeld' /\ StoreIsHalfway' /\ CopyIsHalfway'
  BY <1>2, <1>3, <1>4, <1>6, <1>7, <1>10, TasksDiffer
     DEF MutexIsHeld, StoreIsHalfway, CopyIsHalfway
<1>12. StampsAreReal'
  <2>1. Elapsed(millis', latest'.timestamp) = age'["latest"]
    BY <1>1, <1>2, <1>3, <1>6, <1>8 DEF StampsAreReal
  <2>2. \A r \in Readers : reader'[r].at \in {"idle", "copy"} => ~reader'[r].copy.valid
    BY <1>1, <1>2 DEF StampsAreReal
  <2>3. \A r \in Readers : reader'[r].at = "report" /\ reader'[r].copy.valid =>
          Elapsed(millis', reader'[r].copy.timestamp) = age'[r]
    BY <1>1, <1>2, <1>8 DEF StampsAreReal, AgeIsReal, ReportedAge
  <2> QED
    BY <1>7, <2>1, <2>2, <2>3 DEF StampsAreReal, AgeIsReal, ReportedAge
<1>13. RoundIsShort' /\ TimerRuns' /\ GapIsReal'
  BY <1>1, <1>2, TimerKeeps
<1>14. SamplesAreWithinLimits'
  BY <1>1, <1>2, <1>6, <1>7, NoSampleType DEF SamplesAreWithinLimits
<1> QED
  BY <1>9, <1>11, <1>12, <1>13, <1>14 DEF IInv

\* A sample that cannot be stored is gone.
LEMMA StoreTimeoutStep ==
  ASSUME IInv, StoreTimeout
  PROVE  IInv'
<1>1. /\ TypeOK /\ MutexIsHeld /\ StoreIsHalfway /\ CopyIsHalfway /\ StampsAreReal
      /\ RoundIsShort /\ TimerRuns /\ GapIsReal /\ SamplesAreWithinLimits
  BY DEF IInv
<1>2. UNCHANGED <<millis, source, data, reader, network, counts>>
  BY DEF StoreTimeout
<1>3. /\ millis' = millis /\ source' = source /\ latest' = latest /\ whole' = whole
      /\ holder' = holder /\ reader' = reader /\ network' = network /\ counts' = counts
  BY <1>2
<1>4. /\ sensor.at = "store" /\ sensor' = Waiting /\ steady' = {}
      /\ age' = [age EXCEPT !["sensor"] = 0]
  BY DEF StoreTimeout
<1>5. sensor' \in SensorType /\ sensor'.at = "read" /\ sensor'.sample = NoSample
  BY <1>4, NoSampleType DEF Waiting, SensorType
<1>6. /\ age' \in [Copied -> 0 .. MaxAge]
      /\ age'["latest"] = age["latest"] /\ \A r \in Readers : age'[r] = age[r]
  <2>1. age \in [Copied -> 0 .. MaxAge]
    BY <1>1 DEF TypeOK
  <2> QED
    BY <1>4, <2>1, BoundsType, TasksDiffer
<1>7. TypeOK'
  <2>1. sensor'.sample.valid <=> sensor'.sample.status = "OK"
    BY <1>5, NoSampleType
  <2> QED
    BY <1>1, <1>3, <1>4, <1>5, <1>6, <2>1 DEF TypeOK, SensorType
<1>8. MutexIsHeld' /\ StoreIsHalfway' /\ CopyIsHalfway'
  BY <1>1, <1>3, <1>4, <1>5 DEF MutexIsHeld, StoreIsHalfway, CopyIsHalfway
<1>9. StampsAreReal'
  BY <1>1, <1>3, <1>5, <1>6 DEF StampsAreReal, AgeIsReal, ReportedAge
<1>10. RoundIsShort' /\ TimerRuns' /\ GapIsReal'
  BY <1>1, <1>3, TimerKeeps
<1>11. SamplesAreWithinLimits'
  BY <1>1, <1>3, <1>5, NoSampleType DEF SamplesAreWithinLimits
<1> QED
  BY <1>7, <1>8, <1>9, <1>10, <1>11 DEF IInv

EntryType == [at : {"idle", "copy", "copied", "report"}, copy : Sample]

\* What is to be shown of a step of one reporting task.
LEMMA ReaderStep ==
  ASSUME IInv, NEW r \in Readers, NEW entry \in EntryType,
         reader' = [reader EXCEPT ![r] = entry],
         UNCHANGED <<millis, source, sensor, latest, whole, steady>>,
         holder' \in Readers \cup {"sensor", Nobody},
         entry.at = "copied" <=> holder' = r,
         \A task \in (Readers \cup {"sensor"}) \ {r} : holder' = task <=> holder = task,
         entry.at = "copied" => /\ entry.copy.value = latest.value
                                /\ entry.copy.apparentPower = latest.apparentPower,
         IsWithinLimits(entry.copy),
         entry.at \in {"idle", "copy"} => ~entry.copy.valid,
         age' \in [Copied -> 0 .. MaxAge], \A c \in Copied \ {r} : age'[c] = age[c],
         entry.at = "report" /\ entry.copy.valid =>
           Elapsed(millis, entry.copy.timestamp) = age'[r],
         network' \in [now : Millis, lastTelemetry : Millis], CountsType',
         RoundIsShort', TimerRuns', GapIsReal'
  PROVE  IInv'
<1>1. /\ TypeOK /\ MutexIsHeld /\ StoreIsHalfway /\ CopyIsHalfway /\ StampsAreReal
      /\ SamplesAreWithinLimits
  BY DEF IInv
<1>2. /\ millis' = millis /\ source' = source /\ sensor' = sensor /\ latest' = latest
      /\ whole' = whole /\ steady' = steady
  OBVIOUS
<1>3. /\ reader' \in ReaderType /\ reader'[r] = entry
      /\ \A q \in Readers \ {r} : reader'[q] = reader[q]
  BY <1>1 DEF TypeOK, ReaderType, EntryType
<1>4. TypeOK'
  BY <1>1, <1>2, <1>3 DEF TypeOK, ReaderType
<1>5. MutexIsHeld'
  <2>1. sensor'.at = "stored" <=> holder' = "sensor"
    BY <1>1, <1>2, TasksDiffer DEF MutexIsHeld
  <2>2. ASSUME NEW q \in Readers PROVE reader'[q].at = "copied" <=> holder' = q
    BY <1>1, <1>3, <2>2 DEF MutexIsHeld
  <2> QED
    BY <2>1, <2>2 DEF MutexIsHeld
<1>6. StoreIsHalfway' /\ CopyIsHalfway'
  BY <1>1, <1>2, <1>3 DEF StoreIsHalfway, CopyIsHalfway
<1>7. StampsAreReal'
  <2>1. age'["sensor"] = age["sensor"] /\ age'["latest"] = age["latest"]
    BY TasksDiffer
  <2>2. \A q \in Readers \ {r} : age'[q] = age[q]
    BY TasksDiffer
  <2>3. AgeIsReal'
    BY <1>1, <1>2, <1>3, <2>2 DEF StampsAreReal, AgeIsReal, ReportedAge
  <2>4. \A q \in Readers : reader'[q].at \in {"idle", "copy"} => ~reader'[q].copy.valid
    BY <1>1, <1>3 DEF StampsAreReal
  <2> QED
    BY <1>1, <1>2, <2>1, <2>3, <2>4 DEF StampsAreReal
<1>8. SamplesAreWithinLimits'
  BY <1>1, <1>2, <1>3 DEF SamplesAreWithinLimits
<1> QED
  BY <1>4, <1>5, <1>6, <1>7, <1>8 DEF IInv

\* A task is asked for a report, or reports without a sample: neither touches a copy.
LEMMA AskStep ==
  ASSUME IInv, NEW r \in Readers, Ask(r) \/ CopyTimeout(r)
  PROVE  IInv'
<1> DEFINE at == IF reader[r].at = "idle" THEN "copy" ELSE "report"
           entry == [reader[r] EXCEPT !.at = at]
<1>1. /\ TypeOK /\ MutexIsHeld /\ StampsAreReal /\ RoundIsShort /\ TimerRuns /\ GapIsReal
      /\ SamplesAreWithinLimits
  BY DEF IInv
<1>2. /\ reader[r].at \in {"idle", "copy"} /\ reader' = [reader EXCEPT ![r] = entry]
      /\ UNCHANGED <<millis, source, sensor, data, network, ghosts>>
      /\ r = "network" => reader[r].at = "copy"
  BY DEF Ask, CopyTimeout
<1>3. /\ millis' = millis /\ source' = source /\ sensor' = sensor /\ latest' = latest
      /\ whole' = whole /\ holder' = holder /\ network' = network
      /\ age' = age /\ steady' = steady /\ counts' = counts
  BY <1>2
<1>4. reader \in ReaderType
  BY <1>1 DEF TypeOK, ReaderType
<1>5. /\ entry \in EntryType /\ entry.copy = reader[r].copy
      /\ entry.at \in {"copy", "report"}
  BY <1>2, <1>4 DEF ReaderType, EntryType
<1>6. ~entry.copy.valid /\ IsWithinLimits(entry.copy)
  BY <1>1, <1>2, <1>5 DEF StampsAreReal, SamplesAreWithinLimits
<1>7. holder # r
  BY <1>1, <1>2 DEF MutexIsHeld
<1>8. RoundIsShort' /\ TimerRuns' /\ GapIsReal'
  <2>1. reader'["network"].at = "idle" <=> reader["network"].at = "idle"
    BY <1>2, <1>4, TasksDiffer DEF ReaderType
  <2> QED
    BY <1>1, <1>3, <2>1, TimerKeeps
<1>9. /\ holder' \in Readers \cup {"sensor", Nobody} /\ age' \in [Copied -> 0 .. MaxAge]
      /\ network' \in [now : Millis, lastTelemetry : Millis] /\ CountsType'
  BY <1>1, <1>3 DEF TypeOK
<1> HIDE DEF entry, at
<1> QED
  BY <1>2, <1>3, <1>5, <1>6, <1>7, <1>8, <1>9, ReaderStep

\* The first part of a copy, under the mutex.
LEMMA CopyFirstStep ==
  ASSUME IInv, NEW r \in Readers, CopyFirst(r)
  PROVE  IInv'
<1> DEFINE entry == [at |-> "copied",
                     copy |-> [NoSample EXCEPT !.value = latest.value,
                                               !.apparentPower = latest.apparentPower]]
<1>1. /\ TypeOK /\ MutexIsHeld /\ RoundIsShort /\ TimerRuns /\ GapIsReal /\ SamplesAreWithinLimits
  BY DEF IInv
<1>2. /\ reader[r].at = "copy" /\ holder = Nobody /\ holder' = r
      /\ reader' = [reader EXCEPT ![r] = entry]
      /\ UNCHANGED <<millis, source, sensor, latest, whole, network, ghosts>>
  BY DEF CopyFirst, Lock
<1>3. /\ millis' = millis /\ source' = source /\ sensor' = sensor /\ latest' = latest
      /\ whole' = whole /\ network' = network
      /\ age' = age /\ steady' = steady /\ counts' = counts
  BY <1>2
<1>4. reader \in ReaderType /\ latest \in Sample
  BY <1>1 DEF TypeOK, ReaderType
<1>5. /\ entry \in EntryType /\ entry.at = "copied"
      /\ entry.copy.value = latest.value
      /\ entry.copy.apparentPower = latest.apparentPower
  BY <1>4, NoSampleType DEF EntryType, Sample
<1>6. IsWithinLimits(entry.copy)
  BY <1>1, <1>5 DEF SamplesAreWithinLimits, IsWithinLimits
<1>7. \A task \in (Readers \cup {"sensor"}) \ {r} : holder' = task <=> holder = task
  BY <1>2, TasksDiffer
<1>8. RoundIsShort' /\ TimerRuns' /\ GapIsReal'
  <2>1. reader'["network"].at = "idle" <=> reader["network"].at = "idle"
    BY <1>2, <1>4, <1>5, TasksDiffer DEF ReaderType
  <2> QED
    BY <1>1, <1>3, <2>1, TimerKeeps
<1>9. /\ age' \in [Copied -> 0 .. MaxAge]
      /\ network' \in [now : Millis, lastTelemetry : Millis] /\ CountsType'
  BY <1>1, <1>3 DEF TypeOK
<1> HIDE DEF entry
<1> QED
  BY <1>2, <1>3, <1>5, <1>6, <1>7, <1>8, <1>9, ReaderStep

\* The rest of a copy: it is latest, which nobody has touched since its first part.
LEMMA CopiedIsLatest ==
  ASSUME IInv, NEW r \in Readers, CopyRest(r)
  PROVE  /\ latest = whole /\ holder = r
         /\ reader' = [reader EXCEPT ![r] = [at |-> "report", copy |-> latest]]
<1>1. /\ TypeOK /\ MutexIsHeld /\ StoreIsHalfway /\ CopyIsHalfway
  BY DEF IInv
<1>2. /\ reader[r].at = "copied"
      /\ reader' = [reader EXCEPT ![r] = [at |-> "report",
           copy |-> [latest EXCEPT !.value = reader[r].copy.value,
                                   !.apparentPower = reader[r].copy.apparentPower]]]
  BY DEF CopyRest
<1>3. holder = r /\ sensor.at # "stored"
  BY <1>1, <1>2, TasksDiffer DEF MutexIsHeld
<1>4. latest = whole
  BY <1>1, <1>3 DEF StoreIsHalfway
<1>5. /\ reader[r].copy.value = latest.value
      /\ reader[r].copy.apparentPower = latest.apparentPower
  BY <1>1, <1>2 DEF CopyIsHalfway
<1>6. [latest EXCEPT !.value = reader[r].copy.value,
                     !.apparentPower = reader[r].copy.apparentPower] = latest
  BY <1>1, <1>5 DEF TypeOK, Sample
<1> QED
  BY <1>2, <1>3, <1>4, <1>6

LEMMA CopyRestStep ==
  ASSUME IInv, NEW r \in Readers, CopyRest(r)
  PROVE  IInv'
<1> DEFINE entry == [at |-> "report", copy |-> latest]
<1>1. /\ TypeOK /\ StampsAreReal /\ RoundIsShort /\ TimerRuns /\ GapIsReal /\ SamplesAreWithinLimits
  BY DEF IInv
<1>2. holder = r /\ reader' = [reader EXCEPT ![r] = entry]
  BY CopiedIsLatest
<1>3. /\ reader[r].at = "copied" /\ holder' = Nobody
      /\ age' = [age EXCEPT ![r] = age["latest"]]
      /\ millis' = millis /\ source' = source /\ sensor' = sensor /\ latest' = latest
      /\ whole' = whole /\ network' = network /\ steady' = steady /\ counts' = counts
  BY DEF CopyRest
<1>4. reader \in ReaderType /\ latest \in Sample /\ age \in [Copied -> 0 .. MaxAge]
  BY <1>1 DEF TypeOK, ReaderType
<1>5. entry \in EntryType /\ entry.at = "report" /\ entry.copy = latest
  BY <1>4 DEF EntryType
<1>6. /\ age' \in [Copied -> 0 .. MaxAge] /\ age'[r] = age["latest"]
      /\ \A c \in Copied \ {r} : age'[c] = age[c]
  BY <1>3, <1>4, TasksDiffer
<1>7. /\ IsWithinLimits(entry.copy)
      /\ entry.copy.valid => Elapsed(millis, entry.copy.timestamp) = age'[r]
  BY <1>1, <1>5, <1>6 DEF SamplesAreWithinLimits, StampsAreReal
<1>8. /\ holder' # r
      /\ \A task \in (Readers \cup {"sensor"}) \ {r} : holder' = task <=> holder = task
  BY <1>2, <1>3, TasksDiffer
<1>9. RoundIsShort' /\ TimerRuns' /\ GapIsReal'
  <2>1. reader'["network"].at = "idle" <=> reader["network"].at = "idle"
    BY <1>2, <1>3, <1>4, <1>5, TasksDiffer DEF ReaderType
  <2> QED
    BY <1>1, <1>3, <2>1, TimerKeeps
<1>10. /\ network' \in [now : Millis, lastTelemetry : Millis] /\ CountsType'
  BY <1>1, <1>3 DEF TypeOK
<1> HIDE DEF entry
<1> QED
  BY <1>2, <1>3, <1>5, <1>6, <1>7, <1>8, <1>9, <1>10, ReaderStep

\* NetworkTask waits for its next period, at most a period and a round longer without
\* telemetry if the report was lost.
LEMMA SentOrLost ==
  ASSUME IInv, NEW session, NEW fits, NEW taken, NetworkReports(session, fits, taken)
  PROVE  CountsType' /\ RoundIsShort' /\ TimerRuns' /\ GapIsReal'
<1>1. /\ TypeOK /\ RoundIsShort /\ TimerRuns /\ GapIsReal
  BY DEF IInv
<1>2. /\ reader["network"].at = "report" /\ reader' = [reader EXCEPT !["network"] = IdleReader]
      /\ millis' = millis /\ network' = network /\ gap' = gap
  BY DEF NetworkReports
<1>3. /\ CountsType /\ reader \in ReaderType
      /\ millis \in Millis /\ network.now \in Millis /\ network.lastTelemetry \in Millis
  BY <1>1 DEF TypeOK, ReaderType
<1>4. reader'["network"].at = "idle"
  BY <1>2, <1>3, TasksDiffer DEF ReaderType, IdleReader
<1> DEFINE round == Elapsed(millis, network.now)
           timer == Elapsed(network.now, network.lastTelemetry)
<1>5. round \in Nat /\ round' = round /\ timer' = timer
  BY <1>2, <1>3, ElapsedType
<1>6. /\ timer = 0 /\ quiet < TelemetryPeriod + 2 * MaxRound + round + Delay(lost)
  BY <1>1, <1>2 DEF TimerRuns
<1>7. RoundIsShort' /\ GapIsReal'
  BY <1>1, <1>2 DEF RoundIsShort, GapIsReal
<1>8. \/ quiet' = 0 /\ lost' = 0
      \/ quiet' = quiet /\ lost < MaxLost /\ lost' = lost + 1
  BY DEF NetworkReports
<1>9. CountsType'
  BY <1>2, <1>3, <1>8, BoundsType, CapType
<1>10. TimerRuns'
  <2>1. CASE quiet' = 0
    BY <1>2, <1>4, <1>5, <2>1 DEF TimerRuns
  <2>2. CASE quiet' = quiet /\ lost < MaxLost /\ lost' = lost + 1
    <3>1. Delay(lost) \in Nat /\ Delay(lost') = Delay(lost) + TelemetryPeriod + MaxRound
      BY <1>3, <2>2, BoundsType, DelayType
    <3>2. /\ timer < TelemetryPeriod
          /\ quiet' <= MaxRound + timer + round + Delay(lost')
      BY <1>3, <1>5, <1>6, <2>2, <3>1, BoundsType
    <3> QED
      BY <1>2, <1>4, <3>2 DEF TimerRuns
  <2> QED
    BY <1>8, <2>1, <2>2
<1> QED
  BY <1>7, <1>9, <1>10

\* A report is made, and the copy forgotten.
LEMMA ReportStep ==
  ASSUME IInv, NEW r \in Readers,
         \/ Report(r)
         \/ r = "network" /\ \E session, fits, taken : NetworkReports(session, fits, taken)
  PROVE  IInv'
<1> DEFINE entry == IdleReader
<1>1. /\ TypeOK /\ MutexIsHeld /\ RoundIsShort /\ TimerRuns /\ GapIsReal
  BY DEF IInv
<1>2. /\ reader[r].at = "report" /\ reader' = [reader EXCEPT ![r] = entry]
      /\ age' = [age EXCEPT ![r] = 0]
      /\ UNCHANGED <<millis, source, sensor, data, network, steady>>
  BY DEF Report, NetworkReports
<1>3. /\ millis' = millis /\ source' = source /\ sensor' = sensor /\ latest' = latest
      /\ whole' = whole /\ holder' = holder /\ network' = network /\ steady' = steady
  BY <1>2
<1>4. /\ reader \in ReaderType /\ age \in [Copied -> 0 .. MaxAge] /\ millis \in Millis
      /\ network \in [now : Millis, lastTelemetry : Millis] /\ CountsType
  BY <1>1 DEF TypeOK, ReaderType
<1>5. entry \in EntryType /\ entry.at = "idle" /\ entry.copy = NoSample
  BY NoSampleType DEF IdleReader, EntryType
<1>6. age' \in [Copied -> 0 .. MaxAge] /\ \A c \in Copied \ {r} : age'[c] = age[c]
  <2>1. 0 \in 0 .. MaxAge
    BY BoundsType
  <2> QED
    BY <1>2, <1>4, <2>1
<1>7. holder' # r
  BY <1>1, <1>2, <1>3 DEF MutexIsHeld
<1>8. CountsType' /\ RoundIsShort' /\ TimerRuns' /\ GapIsReal'
  <2>1. CASE Report(r)
    <3>1. r # "network" /\ counts' = counts
      BY <2>1 DEF Report
    <3>2. reader'["network"].at = "idle" <=> reader["network"].at = "idle"
      BY <1>2, <1>4, <3>1, TasksDiffer DEF ReaderType
    <3> QED
      BY <1>1, <1>3, <1>4, <3>1, <3>2, TimerKeeps
  <2>2. CASE \E session, fits, taken : NetworkReports(session, fits, taken)
    BY <2>2, SentOrLost
  <2> QED
    BY <2>1, <2>2
<1>9. holder' \in Readers \cup {"sensor", Nobody}
  BY <1>1, <1>3 DEF TypeOK
<1>10. network' \in [now : Millis, lastTelemetry : Millis]
  BY <1>3, <1>4
<1> HIDE DEF entry
<1> QED
  BY <1>2, <1>3, <1>5, <1>6, <1>7, <1>8, <1>9, <1>10, NoSampleType, ReaderStep

\* A round of NetworkTask: the timer has run since the last one, or goes off, within
\* the range of millis().
LEMMA NetworkRoundStep ==
  ASSUME IInv, NEW up \in BOOLEAN, NetworkRound(up)
  PROVE  IInv'
<1> DEFINE due == up /\ Elapsed(millis, network.lastTelemetry) >= TelemetryPeriod
           entry == [reader["network"] EXCEPT !.at = IF due THEN "copy" ELSE "idle"]
<1>1. /\ TypeOK /\ MutexIsHeld /\ StampsAreReal /\ RoundIsShort /\ TimerRuns /\ GapIsReal
      /\ SamplesAreWithinLimits
  BY DEF IInv
<1>2. /\ reader["network"].at = "idle" /\ reader' = [reader EXCEPT !["network"] = entry]
      /\ network' = [now |-> millis,
                     lastTelemetry |-> IF due THEN millis ELSE network.lastTelemetry]
      /\ quiet' = (IF up THEN quiet ELSE 0) /\ lost' = (IF up THEN lost ELSE 0)
      /\ gap' = IF due THEN 0 ELSE gap
      /\ UNCHANGED <<millis, source, sensor, data, age, steady>>
  BY DEF NetworkRound
<1>3. /\ millis' = millis /\ source' = source /\ sensor' = sensor /\ latest' = latest
      /\ whole' = whole /\ holder' = holder /\ age' = age /\ steady' = steady
  BY <1>2
<1>4. /\ reader \in ReaderType /\ millis \in Millis /\ CountsType
      /\ network.now \in Millis /\ network.lastTelemetry \in Millis
  BY <1>1 DEF TypeOK, ReaderType
<1>5. /\ entry \in EntryType /\ entry.copy = reader["network"].copy
      /\ entry.at = IF due THEN "copy" ELSE "idle"
  BY <1>4, TasksDiffer DEF ReaderType, EntryType
<1>6. ~entry.copy.valid /\ IsWithinLimits(entry.copy)
  BY <1>1, <1>2, <1>5, TasksDiffer DEF StampsAreReal, SamplesAreWithinLimits
<1>7. holder' # "network"
  BY <1>1, <1>2, <1>3, TasksDiffer DEF MutexIsHeld
<1>8. /\ network'.now = millis
      /\ network'.lastTelemetry = IF due THEN millis ELSE network.lastTelemetry
      /\ network' \in [now : Millis, lastTelemetry : Millis] /\ CountsType'
  BY <1>2, <1>4, BoundsType, CapType
<1>9. Elapsed(millis', network'.now) = 0
  BY <1>3, <1>4, <1>8, ElapsedNow
<1>10. reader'["network"].at = IF due THEN "copy" ELSE "idle"
  BY <1>2, <1>4, <1>5, TasksDiffer DEF ReaderType
<1>11. RoundIsShort' /\ TimerRuns' /\ GapIsReal'
  <2> DEFINE round == Elapsed(millis, network.now)
             timer == Elapsed(network.now, network.lastTelemetry)
             elapsed == Elapsed(millis, network.lastTelemetry)
  <2>1. /\ round \in Nat /\ timer \in Nat /\ elapsed \in Nat /\ round <= MaxRound
        /\ quiet \in Nat /\ Delay(lost) \in Nat
    BY <1>1, <1>4, ElapsedType, DelayType, BoundsType DEF RoundIsShort
  <2>2. \/ quiet <= round
        \/ timer < TelemetryPeriod /\ quiet <= MaxRound + timer + round + Delay(lost)
    BY <1>1, <1>2 DEF TimerRuns
  <2>3. timer < TelemetryPeriod => elapsed = round + timer
    <3>1. SUFFICES ASSUME timer < TelemetryPeriod PROVE elapsed = round + timer
      OBVIOUS
    <3>2. round + timer < Wrap
      BY <2>1, <3>1, BoundsType
    <3> QED
      BY <1>4, <3>2, ElapsedAdds
  <2>4. RoundIsShort'
    BY <1>9, BoundsType DEF RoundIsShort
  <2>5. GapIsReal'
    <3>1. CASE due
      BY <1>2, <1>3, <1>4, <1>8, <3>1, ElapsedNow DEF GapIsReal
    <3>2. CASE ~due
      BY <1>1, <1>2, <1>3, <1>8, <3>2 DEF GapIsReal
    <3> QED
      BY <3>1, <3>2
  <2>6. CASE ~up
    BY <1>2, <1>9, <1>10, <2>4, <2>5, <2>6 DEF TimerRuns
  <2>7. CASE due
    <3>1. quiet' = quiet /\ lost' = lost /\ reader'["network"].at = "copy"
      BY <1>2, <1>10, <2>7
    <3>2. quiet < TelemetryPeriod + 2 * MaxRound + Delay(lost)
      BY <2>1, <2>2, BoundsType
    <3>3. Elapsed(network'.now, network'.lastTelemetry) = 0
      BY <1>4, <1>8, <2>7, ElapsedNow
    <3> HIDE DEF due
    <3> QED
      BY <1>9, <2>1, <2>4, <2>5, <3>1, <3>2, <3>3, BoundsType DEF TimerRuns
  <2>8. CASE up /\ ~due
    <3>1. quiet' = quiet /\ lost' = lost /\ reader'["network"].at = "idle"
      BY <1>2, <1>10, <2>8
    <3>2. Elapsed(network'.now, network'.lastTelemetry) = elapsed
      BY <1>8, <2>8
    <3>3. elapsed < TelemetryPeriod
      BY <2>1, <2>8, BoundsType
    <3>4. quiet <= MaxRound + elapsed + Delay(lost)
      BY <2>1, <2>2, <2>3, BoundsType
    <3> HIDE DEF due, elapsed
    <3> QED
      BY <1>9, <2>1, <2>4, <2>5, <3>1, <3>2, <3>3, <3>4, BoundsType DEF TimerRuns
  <2> QED
    BY <2>6, <2>7, <2>8
<1>12. holder' \in Readers \cup {"sensor", Nobody} /\ age' \in [Copied -> 0 .. MaxAge]
  BY <1>1, <1>3 DEF TypeOK
<1>13. entry.at \in {"idle", "copy"}
  BY <1>5
<1> HIDE DEF entry, due
<1> QED
  BY <1>2, <1>3, <1>5, <1>6, <1>7, <1>8, <1>11, <1>12, <1>13, TasksDiffer, ReaderStep

\* The conjuncts of the invariant hold in every state.
THEOREM Invariance == Spec => []IInv
<1>1. ASSUME IInv, Next PROVE IInv'
  BY <1>1, TasksDiffer, AdvanceStep, ReadStep, StoreFirstStep, StoreRestStep, StoreTimeoutStep,
     NetworkRoundStep, AskStep, CopyFirstStep, CopyRestStep, ReportStep DEF Next
<1>2. ASSUME IInv, UNCHANGED vars PROVE IInv'
  BY <1>2 DEF vars, IInv, TypeOK, MutexIsHeld, StoreIsHalfway, CopyIsHalfway,
     StampsAreReal, AgeIsReal, ReportedAge, RoundIsShort, TimerRuns, GapIsReal,
     SamplesAreWithinLimits
<1> QED
  BY <1>1, <1>2, InitInvariant, PTL DEF Spec

\* The variables keep to their types, no sample ever holds a value that is not
\* finite, and SensorTask's is valid exactly when its status is OK.
THEOREM TypeCorrect == Spec => []TypeOK
<1>1. IInv => TypeOK
  BY DEF IInv
<1> QED
  BY <1>1, Invariance, PTL

\* The age reported with a valid sample is the real one, whoever reports, for ages
\* below the range of millis() and across its wrap.
THEOREM ReportedAgesAreReal == Spec => []AgeIsReal
<1>1. IInv => AgeIsReal
  BY DEF IInv, StampsAreReal
<1> QED
  BY <1>1, Invariance, PTL

\* While Wi-Fi lasts telemetry goes on, for every period, every length of round and
\* every number of reports lost in a row, each of which delays it by a period and a
\* round.
THEOREM TelemetryGoesOn == Spec => []TelemetryIsRegular
<1>1. ASSUME IInv PROVE TelemetryIsRegular
  <2>1. /\ quiet \in Nat /\ RoundIsShort /\ TimerRuns /\ GapIsReal /\ millis \in Millis
        /\ network.now \in Millis /\ network.lastTelemetry \in Millis
    BY <1>1, BoundsType DEF IInv, TypeOK
  <2>2. /\ Elapsed(millis, network.now) \in Nat
        /\ Elapsed(network.now, network.lastTelemetry) \in Nat
        /\ Elapsed(millis, network.now) <= MaxRound
    BY <2>1, ElapsedType DEF RoundIsShort
  <2>3. Delay(lost) \in Nat /\ Delay(lost + 1) = Delay(lost) + TelemetryPeriod + MaxRound
    BY <1>1, BoundsType, DelayType DEF IInv, TypeOK
  <2> QED
    BY <2>1, <2>2, <2>3, BoundsType DEF TimerRuns, TelemetryIsRegular, LongestQuiet
<1> QED
  BY <1>1, Invariance, PTL

\* NetworkTask never reports twice within a period, whatever failed, for every period
\* and length of round.
THEOREM TelemetryKeepsItsPeriod == Spec => TelemetryIsSpaced
<1>1. ASSUME IInv, Next PROVE IsSpaced
  <2> SUFFICES ASSUME reader["network"].at = "idle", reader'["network"].at = "copy"
               PROVE  gap >= TelemetryPeriod
    BY DEF IsSpaced
  <2>1. reader \in ReaderType /\ gap \in Nat /\ GapIsReal
    BY <1>1, BoundsType DEF IInv, TypeOK, ReaderType
  <2>2. CASE reader' = reader
    BY <2>2
  <2>3. ASSUME NEW up \in BOOLEAN, NetworkRound(up)
        PROVE  Elapsed(millis, network.lastTelemetry) >= TelemetryPeriod
    <3> DEFINE due == up /\ Elapsed(millis, network.lastTelemetry) >= TelemetryPeriod
    <3>1. reader' = [reader EXCEPT !["network"].at = IF due THEN "copy" ELSE "idle"]
      BY <2>3 DEF NetworkRound
    <3> HIDE DEF due
    <3>2. due
      BY <2>1, <3>1, TasksDiffer DEF ReaderType
    <3> QED
      BY <3>2 DEF due
  <2>4. CASE Elapsed(millis, network.lastTelemetry) >= TelemetryPeriod
    BY <2>1, <2>4, BoundsType DEF GapIsReal
  <2>5. ASSUME NEW r \in Readers,
               Ask(r) \/ CopyFirst(r) \/ CopyRest(r) \/ CopyTimeout(r) \/ Report(r)
        PROVE  FALSE
    BY <2>1, <2>5, TasksDiffer
       DEF Ask, CopyFirst, CopyRest, CopyTimeout, Report, ReaderType
  <2>6. ASSUME NEW session, NEW fits, NEW taken, NetworkReports(session, fits, taken)
        PROVE  FALSE
    BY <2>6 DEF NetworkReports
  <2>7. CASE \/ Advance \/ Simulate \/ StoreFirst \/ StoreRest \/ StoreTimeout
             \/ \E before, after \in Loads : \E late : ReadPzem(before, after, late)
    BY <2>2, <2>7 DEF Advance, Simulate, StoreFirst, StoreRest, StoreTimeout, ReadPzem
  <2> QED
    BY <1>1, <2>3, <2>4, <2>5, <2>6, <2>7 DEF Next
<1> QED
  BY <1>1, Invariance, PTL DEF Spec, TelemetryIsSpaced

\* Whatever the meter shows, what is published keeps to the limits, so every report
\* fits where the longest report fits.
THEOREM ReportsFit ==
  ASSUME LongestFits
  PROVE  Spec => []EveryReportFits
<1>1. IInv => EveryReportFits
  BY TasksDiffer DEF IInv, SamplesAreWithinLimits, EveryReportFits
<1> QED
  BY <1>1, Invariance, PTL

\* What is reported is one sample that was stored, never parts of two.
THEOREM CopiesAreNeverTorn == Spec => CopiesAreWhole
<1>1. ASSUME IInv, Next PROVE CopyIsWhole
  <2> SUFFICES ASSUME NEW r \in Readers, reader[r].at = "copied", reader'[r].at = "report"
               PROVE  reader'[r].copy = whole
    BY DEF CopyIsWhole
  <2>1. reader \in ReaderType
    BY <1>1 DEF IInv, TypeOK, ReaderType
  <2>2. CASE reader' = reader
    BY <2>2
  <2>3. ASSUME NEW up \in BOOLEAN, NetworkRound(up) PROVE FALSE
    BY <2>1, <2>3, TasksDiffer DEF NetworkRound, ReaderType
  <2>4. ASSUME NEW q \in Readers, Ask(q) \/ CopyFirst(q) \/ CopyTimeout(q) \/ Report(q)
        PROVE  FALSE
    BY <2>1, <2>4 DEF Ask, CopyFirst, CopyTimeout, Report, IdleReader, ReaderType
  <2>5. ASSUME NEW q \in Readers, CopyRest(q) PROVE reader'[r].copy = whole
    <3>1. /\ latest = whole
          /\ reader' = [reader EXCEPT ![q] = [at |-> "report", copy |-> latest]]
      BY <1>1, <2>5, CopiedIsLatest
    <3> QED
      BY <2>1, <3>1 DEF ReaderType
  <2>6. CASE \/ Advance \/ Simulate \/ StoreFirst \/ StoreRest \/ StoreTimeout
             \/ \E before, after \in Loads : \E late : ReadPzem(before, after, late)
    BY <2>2, <2>6 DEF Advance, Simulate, StoreFirst, StoreRest, StoreTimeout, ReadPzem
  <2>7. ASSUME NEW session, NEW fits, NEW taken, NetworkReports(session, fits, taken)
        PROVE  FALSE
    BY <2>1, <2>7, TasksDiffer DEF NetworkReports, IdleReader, ReaderType
  <2> QED
    BY <1>1, <2>3, <2>4, <2>5, <2>6, <2>7 DEF Next
<1> QED
  BY <1>1, Invariance, PTL DEF Spec, CopiesAreWhole

\* A reading with no more active than apparent power is consistent, for any tolerance.
LEMMA PossibleIsConsistent ==
  ASSUME NEW raw \in [Fields -> Int \cup {NaN}], IsPossible(raw)
  PROVE  IsConsistent(raw)
<1>1. raw.voltage \in Nat /\ raw.current \in Nat /\ raw.power \in Nat
  BY LimitType DEF IsPossible, Fields
<1>2. RatioPercent \in Nat /\ Margin \in Nat
  BY LimitsAssumption
<1> DEFINE v == raw.voltage
           c == raw.current
<1>3. v \in Nat /\ c \in Nat /\ raw.power <= v * c
  BY <1>1 DEF IsPossible
<1> HIDE DEF v, c
<1>4. v * c \in Nat /\ (RatioPercent * v) * c \in Nat
  <2>1. RatioPercent * v \in Nat
    BY <1>2, <1>3, ProductBound
  <2> QED
    BY <1>3, <2>1, ProductBound
<1>5. (100 + RatioPercent) * v * c = 100 * (v * c) + (RatioPercent * v) * c
  BY <1>2, <1>3, SMT
<1>6. 100 * raw.power <= (100 + RatioPercent) * v * c + 100 * Margin
  <2> DEFINE apparent == v * c
             tolerance == (RatioPercent * v) * c
  <2>1. (100 + RatioPercent) * v * c = 100 * apparent + tolerance
    BY <1>5
  <2>2. apparent \in Nat /\ tolerance \in Nat /\ raw.power <= apparent
    BY <1>3, <1>4
  <2> HIDE DEF apparent, tolerance
  <2> QED
    BY <1>1, <1>2, <2>1, <2>2
<1> QED
  BY <1>6 DEF IsConsistent, v, c

\* The simulated profile is accepted, all of it.
LEMMA SimulatedIsValid ==
  ASSUME NEW now \in Millis
  PROVE  SimulationSample(now).valid
<1>1. PICK raw \in [Fields -> Int] :
        /\ SimulationSample(now) = BuildMeasurement(raw, "SIMULATION", now)
        /\ raw.voltage = 230
        /\ \/ raw.current = 20 /\ raw.power = 4000
           \/ raw.current = 217 /\ raw.power = 50000
           \/ raw.current = 260 /\ raw.power = 60000
        /\ raw.energy = 0 /\ raw.powerFactor \in 0 .. 100
  BY SimulatedSample
<1>2. /\ RatioPercent \in Nat /\ Margin \in Nat
      /\ Limit.energy \in Nat /\ Limit.power \in Nat /\ Limit.powerFactor \in Nat
      /\ Limit.voltage \in Nat /\ Limit.current \in Nat
  BY LimitsAssumption DEF Fields
<1>3. IsFinite(raw)
  BY ProfileAssumption DEF IsFinite
<1>4. IsInRange(raw)
  BY <1>1, <1>2, ProfileAssumption DEF IsInRange, Fields
<1>5. IsConsistent(raw)
  <2>1. raw.voltage = 230 /\ RatioPercent \in Nat /\ Margin \in Nat
    BY <1>1, <1>2
  <2>2. 1 <= RatioPercent \/ 200 <= Margin
    BY ProfileAssumption
  <2>3. CASE raw.current = 20 /\ raw.power = 4000
    BY <2>1, <2>3 DEF IsConsistent
  <2>4. CASE raw.current = 217 /\ raw.power = 50000
    BY <2>1, <2>2, <2>4 DEF IsConsistent
  <2>5. CASE raw.current = 260 /\ raw.power = 60000
    BY <2>1, <2>2, <2>5 DEF IsConsistent
  <2> QED
    BY <1>1, <2>3, <2>4, <2>5
<1> QED
  BY <1>1, <1>3, <1>4, <1>5 DEF BuildMeasurement

\* A reading that never changed and was possible is accepted, whatever the limits and
\* tolerances, and so is every simulated sample.
THEOREM RejectionsHaveACause == Spec => RejectsForACause
<1>1. ASSUME IInv, Next PROVE RejectedForACause
  <2> SUFFICES ASSUME sensor.at = "read", sensor'.at = "store", ~sensor'.sample.valid
               PROVE  /\ source = "PZEM"
                      /\ ~\E load \in Loads : steady' = {load} /\ IsPossible(load)
    BY DEF RejectedForACause
  <2>1. millis \in Millis /\ sensor \in SensorType
    BY <1>1 DEF IInv, TypeOK, SensorType
  <2>2. ASSUME NEW before \in Loads, NEW after \in Loads, NEW late,
               ReadPzem(before, after, late)
        PROVE  /\ source = "PZEM"
               /\ ~\E load \in Loads : steady' = {load} /\ IsPossible(load)
    <3> SUFFICES ASSUME NEW load \in Loads, steady' = {load}, IsPossible(load)
                 PROVE  FALSE
      BY <2>2 DEF ReadPzem
    <3>1. late = {} /\ before = load
      BY <2>2 DEF ReadPzem
    <3>2. load \in [Fields -> Int \cup {NaN}]
      BY ReportingAssumption
    <3>3. [f \in Fields |-> IF f \in late THEN after[f] ELSE before[f]] = load
      BY <3>1, <3>2
    <3>4. sensor'.sample = BuildMeasurement(load, source, millis)
      BY <2>2, <3>3 DEF ReadPzem
    <3>5. IsFinite(load) /\ IsInRange(load) /\ IsConsistent(load)
      <4>1. IsFinite(load)
        BY DEF IsPossible, IsFinite
      <4>2. \A f \in Fields : load[f] \in Int /\ Limit[f] \in Nat
        BY <3>2, <4>1, LimitType DEF IsFinite
      <4>3. IsInRange(load)
        BY <4>2 DEF IsPossible, IsInRange
      <4> QED
        BY <3>2, <4>1, <4>3, PossibleIsConsistent
    <3> QED
      BY <3>4, <3>5 DEF BuildMeasurement
  <2>3. CASE Simulate
    <3>1. sensor'.sample = SimulationSample(millis)
      BY <2>3 DEF Simulate
    <3> QED
      BY <2>1, <3>1, SimulatedIsValid
  <2>4. CASE sensor' = sensor
    BY <2>4
  <2>5. CASE StoreFirst \/ StoreRest \/ StoreTimeout
    BY <2>5 DEF StoreFirst, StoreRest, StoreTimeout
  <2>6. CASE \/ Advance \/ \E up \in BOOLEAN : NetworkRound(up)
             \/ \E r \in Readers :
                  Ask(r) \/ CopyFirst(r) \/ CopyRest(r) \/ CopyTimeout(r) \/ Report(r)
             \/ \E session, fits, taken \in BOOLEAN : NetworkReports(session, fits, taken)
    BY <2>4, <2>6 DEF Advance, NetworkRound, Ask, CopyFirst, CopyRest, CopyTimeout, Report,
       NetworkReports
  <2> QED
    BY <1>1, <2>2, <2>3, <2>5, <2>6 DEF Next
<1> QED
  BY <1>1, Invariance, PTL DEF Spec, RejectsForACause

-----------------------------------------------------------------------------
(***************************************************************************)
(* The writer of telemetry_json.cpp, by induction over the pieces.  A fold *)
(* is a recursive function of the sets of positions; what it is for the    *)
(* first positions is built up one by one.                                 *)
(***************************************************************************)

\* What FiniteSetsExt's Max is, where there is a greatest member.
LEMMA GreatestMember ==
  ASSUME NEW s, NEW n \in s, \A m \in s : n >= m
  PROVE  Max(s) \in s /\ \A m \in s : Max(s) >= m
<1> DEFINE IsGreatest(x) == x \in s /\ \A m \in s : x >= m
<1>1. \E x : IsGreatest(x)
  OBVIOUS
<1>2. Max(s) = CHOOSE x : IsGreatest(x)
  BY Zenon DEF Max
<1>3. IsGreatest(CHOOSE x : IsGreatest(x))
  <2> HIDE DEF IsGreatest
  <2> QED
    BY <1>1, Zenon
<1> QED
  BY <1>2, <1>3

\* The last position of the first few.
LEMMA LastPosition ==
  ASSUME NEW n \in Nat, NEW s \in SUBSET (1 .. n + 1), n + 1 \in s
  PROVE  Max(s) = n + 1
<1>1. /\ \A m \in s : m \in Int
      /\ \A m \in s : n + 1 >= m
  OBVIOUS
<1>2. Max(s) \in s /\ \A m \in s : Max(s) >= m
  BY <1>1, GreatestMember, Zenon
<1>3. Max(s) \in Int /\ n + 1 >= Max(s) /\ Max(s) >= n + 1
  BY <1>1, <1>2, Zenon
<1> QED
  BY <1>3

AreWriters(writer, pieces, size, n) ==
  writer = [s \in SUBSET (1 .. n) |->
              IF s = {} THEN NewWriter
              ELSE Write(writer[s \ {Max(s)}], pieces[Max(s)], size)]

LEMMA WritersExist ==
  ASSUME NEW pieces, NEW size
  PROVE  \A n \in Nat : \E writer : AreWriters(writer, pieces, size, n)
<1> DEFINE Built == {n \in Nat : \E writer : AreWriters(writer, pieces, size, n)}
<1>1. 0 \in Built
  <2> DEFINE none == [s \in SUBSET (1 .. 0) |-> NewWriter]
  <2>1. \A s \in SUBSET (1 .. 0) : s = {}
    OBVIOUS
  <2>2. AreWriters(none, pieces, size, 0)
    BY <2>1 DEF AreWriters
  <2> QED
    BY <2>2
<1>2. ASSUME NEW n \in Nat, n \in Built PROVE n + 1 \in Built
  <2>1. PICK writer : AreWriters(writer, pieces, size, n)
    BY <1>2
  <2> DEFINE Step(w, s) == IF s = {} THEN NewWriter
                           ELSE Write(w[s \ {Max(s)}], pieces[Max(s)], size)
             more == [s \in SUBSET (1 .. n + 1) |->
                        IF s \in SUBSET (1 .. n) THEN writer[s]
                        ELSE Write(writer[s \ {n + 1}], pieces[n + 1], size)]
  <2>2. \A s \in SUBSET (1 .. n) : writer[s] = Step(writer, s)
    BY <2>1 DEF AreWriters
  <2>3. \A s \in SUBSET (1 .. n) : s \in SUBSET (1 .. n + 1) /\ more[s] = writer[s]
    OBVIOUS
  <2>4. ASSUME NEW s \in SUBSET (1 .. n + 1) PROVE more[s] = Step(more, s)
    <3>1. CASE s \in SUBSET (1 .. n)
      <4>1. s \ {Max(s)} \in SUBSET (1 .. n)
        BY <3>1
      <4>2. more[s] = writer[s] /\ more[s \ {Max(s)}] = writer[s \ {Max(s)}]
        BY <2>3, <3>1, <4>1
      <4> HIDE DEF more
      <4> QED
        BY <2>2, <3>1, <4>2
    <3>2. CASE s \notin SUBSET (1 .. n)
      <4>1. n + 1 \in s /\ s # {} /\ s \ {n + 1} \in SUBSET (1 .. n)
        BY <3>2
      <4>2. Max(s) = n + 1
        BY <4>1, LastPosition
      <4>3. more[s] = Write(writer[s \ {n + 1}], pieces[n + 1], size)
        BY <3>2
      <4>4. more[s \ {n + 1}] = writer[s \ {n + 1}]
        BY <2>3, <4>1
      <4> HIDE DEF more
      <4> QED
        BY <4>1, <4>2, <4>3, <4>4
    <3> QED
      BY <3>1, <3>2
  <2>5. more = [s \in SUBSET (1 .. n + 1) |-> more[s]]
    OBVIOUS
  <2> HIDE DEF more
  <2>6. more = [s \in SUBSET (1 .. n + 1) |-> Step(more, s)]
    BY <2>4, <2>5
  <2>7. AreWriters(more, pieces, size, n + 1)
    BY <2>6 DEF AreWriters
  <2> QED
    BY <2>7
<1> HIDE DEF Built
<1>3. \A n \in Nat : n \in Built
  BY <1>1, <1>2, Induction
<1> QED
  BY <1>3 DEF Built

AreSums(sum, pieces, n) ==
  sum = [s \in SUBSET (1 .. n) |->
           IF s = {} THEN 0 ELSE sum[s \ {Max(s)}] + pieces[Max(s)]]

LEMMA SumsExist ==
  ASSUME NEW pieces
  PROVE  \A n \in Nat : \E sum : AreSums(sum, pieces, n)
<1> DEFINE Built == {n \in Nat : \E sum : AreSums(sum, pieces, n)}
<1>1. 0 \in Built
  <2> DEFINE none == [s \in SUBSET (1 .. 0) |-> 0]
  <2>1. \A s \in SUBSET (1 .. 0) : s = {}
    OBVIOUS
  <2>2. AreSums(none, pieces, 0)
    BY <2>1 DEF AreSums
  <2> QED
    BY <2>2
<1>2. ASSUME NEW n \in Nat, n \in Built PROVE n + 1 \in Built
  <2>1. PICK sum : AreSums(sum, pieces, n)
    BY <1>2
  <2> DEFINE Step(w, s) == IF s = {} THEN 0 ELSE w[s \ {Max(s)}] + pieces[Max(s)]
             more == [s \in SUBSET (1 .. n + 1) |->
                        IF s \in SUBSET (1 .. n) THEN sum[s]
                        ELSE sum[s \ {n + 1}] + pieces[n + 1]]
  <2>2. \A s \in SUBSET (1 .. n) : sum[s] = Step(sum, s)
    BY <2>1 DEF AreSums
  <2>3. \A s \in SUBSET (1 .. n) : s \in SUBSET (1 .. n + 1) /\ more[s] = sum[s]
    OBVIOUS
  <2>4. ASSUME NEW s \in SUBSET (1 .. n + 1) PROVE more[s] = Step(more, s)
    <3>1. CASE s \in SUBSET (1 .. n)
      <4>1. s \ {Max(s)} \in SUBSET (1 .. n)
        BY <3>1
      <4>2. more[s] = sum[s] /\ more[s \ {Max(s)}] = sum[s \ {Max(s)}]
        BY <2>3, <3>1, <4>1
      <4> HIDE DEF more
      <4> QED
        BY <2>2, <3>1, <4>2
    <3>2. CASE s \notin SUBSET (1 .. n)
      <4>1. n + 1 \in s /\ s # {} /\ s \ {n + 1} \in SUBSET (1 .. n)
        BY <3>2
      <4>2. Max(s) = n + 1
        BY <4>1, LastPosition
      <4>3. more[s] = sum[s \ {n + 1}] + pieces[n + 1]
        BY <3>2
      <4>4. more[s \ {n + 1}] = sum[s \ {n + 1}]
        BY <2>3, <4>1
      <4> HIDE DEF more
      <4> QED
        BY <4>1, <4>2, <4>3, <4>4
    <3> QED
      BY <3>1, <3>2
  <2>5. more = [s \in SUBSET (1 .. n + 1) |-> more[s]]
    OBVIOUS
  <2> HIDE DEF more
  <2>6. more = [s \in SUBSET (1 .. n + 1) |-> Step(more, s)]
    BY <2>4, <2>5
  <2>7. AreSums(more, pieces, n + 1)
    BY <2>6 DEF AreSums
  <2> QED
    BY <2>7
<1> HIDE DEF Built
<1>3. \A n \in Nat : n \in Built
  BY <1>1, <1>2, Induction
<1> QED
  BY <1>3 DEF Built

\* The folds of Telemetry are such functions.
LEMMA FoldedWriter ==
  ASSUME NEW pieces, NEW size, DOMAIN pieces = 1 .. Len(pieces), Len(pieces) \in Nat
  PROVE  \E writer :
           /\ AreWriters(writer, pieces, size, Len(pieces))
           /\ BuildTelemetry(pieces, size) =
                IF size = 0 \/ ~writer[1 .. Len(pieces)].ok
                  THEN -1 ELSE writer[1 .. Len(pieces)].len
<1>1. \E writer : AreWriters(writer, pieces, size, Len(pieces))
  BY WritersExist
<1> DEFINE Folds(w) == w = [s \in SUBSET DOMAIN pieces |->
                             IF s = {} THEN NewWriter
                             ELSE Write(w[s \ {Max(s)}], pieces[Max(s)], size)]
<1>2. \A writer : AreWriters(writer, pieces, size, Len(pieces)) <=> Folds(writer)
  BY DEF AreWriters
<1>3. \E writer : Folds(writer)
  BY <1>1, <1>2
<1>4. \E writer :
        /\ Folds(writer)
        /\ BuildTelemetry(pieces, size) =
             IF size = 0 \/ ~writer[DOMAIN pieces].ok
               THEN -1 ELSE writer[DOMAIN pieces].len
  BY <1>3, Zenon DEF BuildTelemetry, FoldLeft, MapThenFoldSet
<1> HIDE DEF Folds
<1> QED
  BY <1>2, <1>4

LEMMA FoldedSum ==
  ASSUME NEW pieces, DOMAIN pieces = 1 .. Len(pieces), Len(pieces) \in Nat
  PROVE  \E sum : /\ AreSums(sum, pieces, Len(pieces))
                  /\ Total(pieces) = sum[1 .. Len(pieces)]
<1>1. \E sum : AreSums(sum, pieces, Len(pieces))
  BY SumsExist
<1> QED
  BY <1>1, Zenon DEF AreSums, Total, FoldLeft, MapThenFoldSet

\* The writer's answer is the length of all pieces, where that and the NUL fit the
\* buffer, and -1 where they do not: for all pieces and buffers.
THEOREM WriterIsExact ==
  ASSUME NEW pieces \in Seq(Nat), NEW size \in Nat
  PROVE  BuildTelemetry(pieces, size) =
           IF Total(pieces) < size THEN Total(pieces) ELSE -1
<1> DEFINE last == Len(pieces)
<1>1. /\ DOMAIN pieces = 1 .. last /\ last \in Nat
      /\ \A n \in 1 .. last : pieces[n] \in Nat
  OBVIOUS
<1>2. PICK writer :
        /\ AreWriters(writer, pieces, size, last)
        /\ BuildTelemetry(pieces, size) =
             IF size = 0 \/ ~writer[1 .. last].ok THEN -1 ELSE writer[1 .. last].len
  BY <1>1, FoldedWriter
<1>3. PICK sum : AreSums(sum, pieces, last) /\ Total(pieces) = sum[1 .. last]
  BY <1>1, FoldedSum
<1> HIDE DEF last
<1>4. writer[1 .. 0] = NewWriter /\ sum[1 .. 0] = 0
  <2>1. 1 .. 0 = {} /\ {} \in SUBSET (1 .. last)
    OBVIOUS
  <2>2. writer[{}] = NewWriter
    BY <1>2, <2>1 DEF AreWriters
  <2>3. sum[{}] = 0
    BY <1>3, <2>1 DEF AreSums
  <2> QED
    BY <2>1, <2>2, <2>3
<1>5. ASSUME NEW n \in Nat, n + 1 <= last
      PROVE  /\ writer[1 .. n + 1] = Write(writer[1 .. n], pieces[n + 1], size)
             /\ sum[1 .. n + 1] = sum[1 .. n] + pieces[n + 1]
  <2>1. /\ 1 .. n + 1 \in SUBSET (1 .. last) /\ n + 1 \in 1 .. n + 1
        /\ 1 .. n + 1 # {} /\ (1 .. n + 1) \ {n + 1} = 1 .. n
    <3>1. last \in Nat
      BY <1>1
    <3>2. \A i \in 1 .. n + 1 : i \in 1 .. last
      BY <1>5, <3>1
    <3>3. n + 1 \in 1 .. n + 1
      OBVIOUS
    <3>4. \A i : i \in (1 .. n + 1) \ {n + 1} <=> i \in 1 .. n
      OBVIOUS
    <3> QED
      BY <3>2, <3>3, <3>4, Zenon
  <2>2. Max(1 .. n + 1) = n + 1
    BY <2>1, LastPosition
  <2> DEFINE s == 1 .. n + 1
  <2>3. s \in SUBSET (1 .. last) /\ s # {} /\ Max(s) = n + 1 /\ s \ {n + 1} = 1 .. n
    BY <2>1, <2>2
  <2> HIDE DEF s
  <2>4. writer[s] = Write(writer[s \ {Max(s)}], pieces[Max(s)], size)
    BY <1>2, <2>3 DEF AreWriters
  <2>5. sum[s] = sum[s \ {Max(s)}] + pieces[Max(s)]
    BY <1>3, <2>3 DEF AreSums
  <2> QED
    BY <2>3, <2>4, <2>5 DEF s
<1> DEFINE Agrees(w, t) == /\ w \in [len : Nat, ok : BOOLEAN] /\ t \in Nat
                           /\ 0 < size => (w.ok <=> t < size)
                           /\ w.ok => w.len = t
           Done == {n \in Nat : n <= last => Agrees(writer[1 .. n], sum[1 .. n])}
<1>6. 0 \in Done
  <2>1. Agrees(NewWriter, 0)
    BY DEF NewWriter
  <2> HIDE DEF Agrees
  <2> QED
    BY <1>4, <2>1
<1>7. ASSUME NEW n \in Nat, n \in Done PROVE n + 1 \in Done
  <2> SUFFICES ASSUME n + 1 <= last PROVE Agrees(writer[1 .. n + 1], sum[1 .. n + 1])
    OBVIOUS
  <2> DEFINE w == writer[1 .. n]
             t == sum[1 .. n]
             piece == pieces[n + 1]
  <2>1. Agrees(w, t) /\ piece \in Nat
    BY <1>1, <1>7
  <2>2. writer[1 .. n + 1] = Write(w, piece, size) /\ sum[1 .. n + 1] = t + piece
    BY <1>5
  <2> HIDE DEF w, t, piece
  <2>3. Agrees(Write(w, piece, size), t + piece)
    <3>1. w \in [len : Nat, ok : BOOLEAN] /\ t \in Nat /\ piece \in Nat /\ size \in Nat
      BY <2>1
    <3>2. (0 < size => (w.ok <=> t < size)) /\ (w.ok => w.len = t)
      BY <2>1
    <3> HIDE DEF Agrees
    <3>3. CASE ~w.ok \/ w.len + piece + 1 > size
      <4>1. Write(w, piece, size) = [w EXCEPT !.ok = FALSE]
        BY <3>3 DEF Write
      <4>2. /\ Write(w, piece, size) \in [len : Nat, ok : BOOLEAN]
            /\ Write(w, piece, size).ok = FALSE
        BY <3>1, <4>1
      <4>3. 0 < size => ~(t + piece < size)
        BY <3>1, <3>2, <3>3
      <4>4. t + piece \in Nat
        BY <3>1
      <4> QED
        BY <4>2, <4>3, <4>4, Zenon DEF Agrees
    <3>4. CASE ~(~w.ok \/ w.len + piece + 1 > size)
      <4>1. Write(w, piece, size) = [w EXCEPT !.len = w.len + piece]
        BY <3>4 DEF Write
      <4>2. w.ok /\ w.len = t /\ t + piece < size /\ t + piece \in Nat
        BY <3>1, <3>2, <3>4
      <4>3. Write(w, piece, size) \in [len : Nat, ok : BOOLEAN]
        BY <3>1, <4>1, <4>2
      <4>4. Write(w, piece, size).ok
        BY <3>1, <4>1, <4>2
      <4>5. Write(w, piece, size).len = t + piece
        BY <3>1, <4>1, <4>2
      <4> QED
        BY <4>2, <4>3, <4>4, <4>5, Zenon DEF Agrees
    <3> QED
      BY <3>3, <3>4
  <2> QED
    BY <2>2, <2>3
<1>8. \A n \in Nat : n \in Done
  <2> HIDE DEF Done
  <2> QED
    BY <1>6, <1>7, Induction
<1>9. Agrees(writer[1 .. last], sum[1 .. last])
  BY <1>1, <1>8
<1> QED
  BY <1>2, <1>3, <1>9
=============================================================================
