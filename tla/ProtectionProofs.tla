-------------------------- MODULE ProtectionProofs --------------------------
(***************************************************************************)
(* Proofs about ProtectionMachine, for every threshold, every range of     *)
(* millis() and every bound that TimingAssumption allows.                  *)
(***************************************************************************)
EXTENDS ProtectionMachine, CoreLemmas

-----------------------------------------------------------------------------
(***************************************************************************)
(* Unsigned time.                                                          *)
(***************************************************************************)

\* The counter stays in its range.
LEMMA LaterType ==
  ASSUME NEW now \in Millis
  PROVE  Later(now) \in Millis
BY ConfigAssumption DEF Later, Millis, Wrap

\* An elapsed time grows with the clock until the whole range has passed.
LEMMA ElapsedLater ==
  ASSUME NEW now \in Millis, NEW then \in Millis, Elapsed(now, then) < Wrap - 1
  PROVE  Elapsed(Later(now), then) = Elapsed(now, then) + 1
BY ConfigAssumption DEF Elapsed, Later, Millis, Wrap

-----------------------------------------------------------------------------
(***************************************************************************)
(* Types.                                                                  *)
(***************************************************************************)

\* The ages keep their bounds while the clock runs.
LEMMA AgesLater ==
  ASSUME NEW a \in 0 .. AgeCap
  PROVE  Older(a) \in 0 .. AgeCap /\ (a < AgeCap => Older(a) = a + 1)
BY TimingAssumption DEF Older

\* A restart is a state like the first one.
LEMMA RestartType == Begin(0) \in Core /\ 0 \in Millis /\ NewAges \in Ages
<1>1. 0 \in Millis
  BY ConfigAssumption DEF Millis, Wrap
<1>2. Begin(0) \in Core
  BY <1>1, ConfigAssumption
  DEF Begin, Core, SystemState, NoFault, FaultManager, FaultCode, NoMeasurement,
      Measurement, NoTimer
<1>3. NewAges \in Ages
  BY TimingAssumption DEF NewAges, Ages, NoRun
<1> QED
  BY <1>1, <1>2, <1>3

\* The sample an UpdateSample step delivers.
Sample(reading, delay) ==
  [valid |-> reading.valid, voltage |-> reading.voltage,
   power |-> reading.power, timestamp |-> Elapsed(millis, delay)]

\* What UpdateSample delivers is a sample, stamped delay ticks ago.
LEMMA SampleType ==
  ASSUME millis \in Millis, NEW reading \in Readings, NEW delay \in 0 .. MaxSampleDelay
  PROVE  /\ delay \in Millis /\ delay \in 0 .. Half - 1
         /\ Sample(reading, delay) \in Measurement
         /\ Elapsed(millis, Sample(reading, delay).timestamp) = delay
<1>1. delay \in Millis /\ delay \in 0 .. Half - 1
  BY ConfigAssumption, TimingAssumption DEF Millis, Wrap
<1>2. /\ Elapsed(millis, delay) \in Millis
      /\ Elapsed(millis, Elapsed(millis, delay)) = delay
  BY <1>1, ElapsedOfStamp
<1>3. reading \in [valid : BOOLEAN, voltage : Nat, power : Nat]
  BY TimingAssumption
<1> QED
  BY <1>1, <1>2, <1>3 DEF Sample, Measurement

\* Every step keeps the types.
LEMMA TypeStep == TypeOK /\ [Next]_vars => TypeOK'
<1> SUFFICES ASSUME TypeOK, [Next]_vars PROVE TypeOK'
  OBVIOUS
<1>0. core \in Core /\ millis \in Millis /\ age \in Ages
  BY DEF TypeOK
<1>1. CASE Advance
  <2>1. millis' \in Millis
    BY <1>0, <1>1, LaterType DEF Advance
  <2>2. age' \in Ages
    BY <1>0, <1>1, TimingAssumption DEF Advance, Ages, Older, NoRun
  <2> QED
    BY <1>0, <1>1, <2>1, <2>2 DEF Advance, TypeOK
<1>2. CASE Restart
  BY <1>2, RestartType DEF Restart, TypeOK
<1>3. ASSUME NEW reading \in Readings, NEW delay \in 0 .. MaxSampleDelay,
             UpdateSample(reading, delay)
      PROVE  TypeOK'
  <2>1. Sample(reading, delay) \in Measurement
    BY <1>0, SampleType
  <2>2. core' \in Core
    BY <1>0, <1>3, <2>1, OperationsType DEF UpdateSample, Sample
  <2>3. age' \in Ages
    <3>1. delay \in 0 .. MaxSilence /\ delay \in NoRun .. AgeCap
      BY <1>0, <1>3, ConfigAssumption, TimingAssumption DEF UpdateSample, Ages, NoRun
    <3>2. (IF delay <= age.rearm THEN 0 ELSE age.heard) \in 0 .. AgeCap
      BY <1>0, TimingAssumption DEF Ages
    <3> DEFINE over == IF ~IsOverload(Sample(reading, delay)) THEN NoRun
                       ELSE IF age.over = NoRun THEN delay ELSE age.over
    <3>3. over \in NoRun .. AgeCap
      BY <1>0, <3>1, TimingAssumption DEF Ages, NoRun
    <3>4. 0 \in 0 .. MaxCallGap
      BY TimingAssumption
    <3>5. age' = [age EXCEPT !.sample = delay,
                             !.heard = IF delay <= age.rearm THEN 0 ELSE age.heard,
                             !.over = over, !.call = 0]
      BY <1>3 DEF UpdateSample, Sample
    <3> HIDE DEF over
    <3> QED
      BY <1>0, <3>1, <3>2, <3>3, <3>4, <3>5 DEF Ages
  <2> QED
    BY <1>0, <1>3, <2>2, <2>3 DEF UpdateSample, TypeOK
<1>4. CASE TickStep
  BY <1>0, <1>4, OperationsType, TimingAssumption DEF TickStep, Ages, TypeOK
<1>5. CASE ResetStep
  <2>1. core' \in Core /\ millis' \in Millis
    BY <1>0, <1>5, OperationsType DEF ResetStep
  <2>2. age' \in Ages
    <3>1. age' = age \/ age' = [age EXCEPT !.rearm = 0, !.heard = 0]
      BY <1>5 DEF ResetStep
    <3>2. 0 \in 0 .. AgeCap
      BY TimingAssumption
    <3>3. CASE age' = age
      BY <1>0, <3>3
    <3>4. CASE age' = [age EXCEPT !.rearm = 0, !.heard = 0]
      BY <1>0, <3>2, <3>4 DEF Ages
    <3> QED
      BY <3>1, <3>3, <3>4
  <2> QED
    BY <2>1, <2>2 DEF TypeOK
<1>6. CASE AcknowledgeStep
  BY <1>0, <1>6, OperationsType DEF AcknowledgeStep, TypeOK
<1>7. CASE InternalFaultStep
  BY <1>0, <1>7, OperationsType DEF InternalFaultStep, TypeOK
<1>8. CASE UNCHANGED vars
  BY <1>8 DEF vars, TypeOK
<1> QED
  BY <1>1, <1>2, <1>3, <1>4, <1>5, <1>6, <1>7, <1>8 DEF Next

\* Type correctness of the protection object, its clock and its ages.
THEOREM TypeCorrect == Spec => []TypeOK
<1>1. Init => TypeOK
  BY RestartType DEF Init, TypeOK
<1> QED
  BY <1>1, TypeStep, PTL DEF Spec

-----------------------------------------------------------------------------
(***************************************************************************)
(* The inductive invariant.                                                *)
(***************************************************************************)

\* A fresh start, first or not, satisfies the invariant.
LEMMA BeginInvariant ==
  core = Begin(0) /\ millis = 0 /\ age = NewAges => IInv
<1> SUFFICES ASSUME core = Begin(0), millis = 0, age = NewAges PROVE IInv
  OBVIOUS
<1>1. TypeOK
  BY RestartType DEF TypeOK
<1>2. FaultConsistent
  BY DEF FaultConsistent, IsConsistent, Begin, NoFault, NoTimer
<1>3. StampsExact
  BY ElapsedNow, RestartType DEF StampsExact, Begin, NoMeasurement, NewAges
<1>4. EnergisedStrong
  BY DEF EnergisedStrong, Energising, Begin
<1> QED
  BY <1>1, <1>2, <1>3, <1>4 DEF IInv

\* Time passing keeps the invariant: every exact stamp ages with its real age.
LEMMA AdvanceInvariant == IInv /\ TypeOK' /\ Advance => IInv'
<1> SUFFICES ASSUME IInv, TypeOK', Advance PROVE IInv'
  OBVIOUS
<1>1. core \in Core /\ millis \in Millis /\ age \in Ages /\ core' = core
  BY DEF IInv, TypeOK, Advance
<1>2. /\ millis' = Later(millis) /\ age.call < MaxCallGap /\ age.sample < MaxSilence
      /\ age'.sample = age.sample + 1 /\ age'.call = age.call + 1
      /\ age'.heard = Older(age.heard) /\ age'.rearm = Older(age.rearm)
      /\ age'.over = IF age.over = NoRun THEN NoRun ELSE Older(age.over)
  BY DEF Advance
<1>3. /\ core.last.timestamp \in Millis /\ core.rearmMs \in Millis
      /\ core.lastSampleMs \in Millis
      /\ core.timerStart # NoTimer => core.timerStart \in Millis
  BY <1>1 DEF Core, Measurement
<1>4. /\ age.sample \in 0 .. MaxSilence /\ age.heard \in 0 .. AgeCap
      /\ age.rearm \in 0 .. AgeCap /\ age.over \in NoRun .. AgeCap
      /\ age.call \in 0 .. MaxCallGap
  BY <1>1 DEF Ages
<1>5. FaultConsistent'
  BY <1>1 DEF IInv, FaultConsistent, IsConsistent
<1>6. StampsExact'
  <2>1. Elapsed(millis', core.last.timestamp) = age'.sample
    <3>1. Elapsed(millis, core.last.timestamp) = age.sample
      BY DEF IInv, StampsExact
    <3>2. age.sample < Wrap - 1
      BY <1>2, <1>4, ConfigAssumption, TimingAssumption DEF Wrap
    <3> QED
      BY <1>1, <1>2, <1>3, <3>1, <3>2, ElapsedLater
  <2>2. ASSUME age'.rearm < AgeCap
        PROVE  Elapsed(millis', core.rearmMs) = age'.rearm
    <3>1. age.rearm < AgeCap /\ age'.rearm = age.rearm + 1 /\ age.rearm < Wrap - 1
      BY <1>2, <1>4, <2>2, ConfigAssumption, TimingAssumption DEF Older, Wrap
    <3>2. Elapsed(millis, core.rearmMs) = age.rearm
      BY <3>1 DEF IInv, StampsExact
    <3> QED
      BY <1>1, <1>2, <1>3, <3>1, <3>2, ElapsedLater
  <2>3. ASSUME core.state # "FAULT", age'.rearm < Half, age'.heard < AgeCap
        PROVE  Elapsed(millis', core.lastSampleMs) = age'.heard
    <3>1. /\ age.heard < AgeCap /\ age'.heard = age.heard + 1 /\ age.heard < Wrap - 1
          /\ age.rearm < Half
      BY <1>2, <1>4, <2>3, ConfigAssumption, TimingAssumption DEF Older, Wrap
    <3>2. Elapsed(millis, core.lastSampleMs) = age.heard
      BY <2>3, <3>1 DEF IInv, StampsExact
    <3> QED
      BY <1>1, <1>2, <1>3, <3>1, <3>2, ElapsedLater
  <2> QED
    BY <1>1, <2>1, <2>2, <2>3 DEF StampsExact
<1>7. EnergisedStrong'
  <2> SUFFICES ASSUME core.state \in Energising PROVE EnergisedStrong'
    BY <1>1 DEF EnergisedStrong
  <2>1. /\ core.haveMeasurement /\ core.last.valid
        /\ core.last.voltage > MinOperatingVoltageV
        /\ Elapsed(millis, core.lastSampleMs) = age.heard
        /\ age.heard <= MaxMeasurementAgeMs + age.call
        /\ age.sample <= age.heard + MaxMeasurementAgeMs
        /\ age.sample <= age.rearm
        /\ age.over = NoRun <=> core.timerStart = NoTimer
        /\ core.timerStart # NoTimer =>
             /\ age.over <= Elapsed(millis, core.timerStart) + MaxMeasurementAgeMs
             /\ age.heard <= Elapsed(millis, core.timerStart)
             /\ Elapsed(millis, core.timerStart) < FaultConfirmMs + age.heard
    BY DEF IInv, EnergisedStrong
  <2>2. age.heard < AgeCap /\ age'.heard = age.heard + 1 /\ age.heard < Wrap - 1
    BY <1>2, <1>4, <2>1, ConfigAssumption, TimingAssumption DEF Older, Wrap
  <2>3. Elapsed(millis', core.lastSampleMs) = age'.heard
    BY <1>1, <1>2, <1>3, <2>1, <2>2, ElapsedLater
  <2>4. /\ age'.heard <= MaxMeasurementAgeMs + age'.call
        /\ age'.sample <= age'.heard + MaxMeasurementAgeMs
        /\ age'.sample <= age'.rearm
    BY <1>2, <1>4, <2>1, <2>2, ConfigAssumption, TimingAssumption DEF Older
  <2>5. age'.over = NoRun <=> core.timerStart = NoTimer
    BY <1>2, <1>4, <2>1, TimingAssumption DEF Older, NoRun
  <2>6. ASSUME core.timerStart # NoTimer
        PROVE  /\ age'.over <= Elapsed(millis', core.timerStart) + MaxMeasurementAgeMs
               /\ age'.heard <= Elapsed(millis', core.timerStart)
               /\ Elapsed(millis', core.timerStart) < FaultConfirmMs + age'.heard
    <3>1. Elapsed(millis, core.timerStart) \in Millis
      BY <1>1, <1>3, <2>6, ElapsedType
    <3>2. Elapsed(millis, core.timerStart) < Wrap - 1
      BY <1>2, <1>4, <2>1, <2>6, <3>1, ConfigAssumption, TimingAssumption DEF Millis, Wrap
    <3>3. Elapsed(millis', core.timerStart) = Elapsed(millis, core.timerStart) + 1
      BY <1>1, <1>2, <1>3, <2>6, <3>2, ElapsedLater
    <3>4. age'.over <= age.over + 1 /\ age.over \in Int /\ age'.over \in Int
      BY <1>2, <1>4, TimingAssumption DEF Older, NoRun
    <3> QED
      BY <1>4, <2>1, <2>2, <2>6, <3>1, <3>3, <3>4, ConfigAssumption DEF Millis, Wrap
  <2> QED
    BY <1>1, <2>1, <2>3, <2>4, <2>5, <2>6 DEF EnergisedStrong
<1> QED
  BY <1>5, <1>6, <1>7 DEF IInv

\* What an UpdateSample step does to the object and the ages, in one place.
LEMMA UpdateStepFacts ==
  ASSUME TypeOK, FaultConsistent,
         NEW reading \in Readings, NEW delay \in 0 .. MaxSampleDelay,
         UpdateSample(reading, delay)
  PROVE  /\ Sample(reading, delay) \in Measurement
         /\ Elapsed(millis, Sample(reading, delay).timestamp) = delay
         /\ core' = Update(core, Sample(reading, delay), millis)
         /\ millis' = millis /\ delay <= age.sample
         /\ age'.sample = delay /\ age'.call = 0 /\ age'.rearm = age.rearm
         /\ age'.heard = IF delay <= age.rearm THEN 0 ELSE age.heard
         /\ age'.over = IF ~IsOverload(Sample(reading, delay)) THEN NoRun
                        ELSE IF age.over = NoRun THEN delay ELSE age.over
BY SampleType DEF TypeOK, UpdateSample, Sample, Ages

\* The signed comparison drops a gated sample that was taken before the re-arm
\* point, and no gated sample taken since, for half the range of millis().
LEMMA IgnoredIsExact ==
  ASSUME TypeOK, StampsExact, core.awaitingFirstSample,
         NEW reading \in Readings, NEW delay \in 0 .. MaxSampleDelay
  PROVE  /\ age.rearm < Half =>
              (Ignored(core, Sample(reading, delay)) <=> delay > age.rearm)
         /\ ~Ignored(core, Sample(reading, delay)) => delay <= age.rearm
<1>1. /\ millis \in Millis /\ core.rearmMs \in Millis /\ age.rearm \in 0 .. AgeCap
      /\ delay \in 0 .. Half - 1
  BY ConfigAssumption, TimingAssumption DEF TypeOK, Core, Ages
<1>2. ASSUME age.rearm < Half
      PROVE  Ignored(core, Sample(reading, delay)) <=> delay > age.rearm
  <2>1. Elapsed(millis, core.rearmMs) = age.rearm
    BY <1>1, <1>2, ConfigAssumption, TimingAssumption DEF StampsExact
  <2>2. SignedBefore(Elapsed(millis, delay), core.rearmMs) <=> delay > age.rearm
    BY <1>1, <1>2, <2>1, SignedBeforeIsExact
  <2> QED
    BY <2>2 DEF Ignored, Sample
<1>3. age.rearm >= Half => delay <= age.rearm
  BY <1>1, ConfigAssumption, TimingAssumption
<1> QED
  BY <1>1, <1>2, <1>3, ConfigAssumption

\* Delivering a sample keeps the invariant.
LEMMA UpdateInvariant ==
  ASSUME IInv, TypeOK',
         NEW reading \in Readings, NEW delay \in 0 .. MaxSampleDelay,
         UpdateSample(reading, delay)
  PROVE  IInv'
<1> DEFINE m == Sample(reading, delay)
<1>1. /\ core \in Core /\ millis \in Millis /\ age \in Ages
      /\ core' \in Core /\ age' \in Ages
  BY DEF IInv, TypeOK
<1>2. /\ m \in Measurement /\ Elapsed(millis, m.timestamp) = delay
      /\ core' = Update(core, m, millis)
      /\ millis' = millis /\ delay <= age.sample
      /\ age'.sample = delay /\ age'.call = 0 /\ age'.rearm = age.rearm
      /\ age'.heard = IF delay <= age.rearm THEN 0 ELSE age.heard
      /\ age'.over = IF ~IsOverload(m) THEN NoRun
                     ELSE IF age.over = NoRun THEN delay ELSE age.over
  BY UpdateStepFacts DEF IInv
<1> HIDE DEF m
<1>3. /\ core.fault.active <=> core.state = "FAULT"
      /\ core.fault.active <=> core.fault.activeFault # "NONE"
      /\ core.fault.acknowledged => core.fault.active
      /\ core.state = "INIT" <=> (core.awaitingFirstSample /\ ~core.fault.active)
      /\ core.timerStart # NoTimer => core.state = "WARNING"
  BY DEF IInv, FaultConsistent, IsConsistent
<1> DEFINE
     Latched ==
       core'.state = "FAULT" /\ core'.fault.active
         /\ core'.fault.activeFault # "NONE" /\ core'.timerStart = NoTimer
     Gated ==
       core'.state = "INIT" /\ core'.fault = core.fault
         /\ core'.timerStart = NoTimer /\ core'.awaitingFirstSample
     Good ==
       core'.state \in Energising /\ core'.fault = core.fault
         /\ IsFresh(m, millis) /\ m.valid /\ m.voltage > MinOperatingVoltageV
         /\ ~IsOverload(m) /\ core'.timerStart = NoTimer /\ ~core'.awaitingFirstSample
     Confirming ==
       core'.state = "WARNING" /\ core'.fault = core.fault
         /\ IsFresh(m, millis) /\ IsOverload(m)
         /\ ~core.awaitingFirstSample /\ ~core'.awaitingFirstSample
         /\ core'.timerStart = (IF core.timerStart = NoTimer THEN millis ELSE core.timerStart)
         /\ Elapsed(millis, core'.timerStart) < FaultConfirmMs
     Recorded ==
       core'.state = core.state /\ core'.fault = core.fault
         /\ core'.timerStart = core.timerStart
         /\ core'.awaitingFirstSample = core.awaitingFirstSample
         /\ (core.state = "FAULT"
               \/ (Ignored(core, m) /\ core'.lastSampleMs = core.lastSampleMs))
     Judged == core.state # "FAULT" /\ ~Ignored(core, m) /\ core'.lastSampleMs = millis
<1>4. /\ core'.last = m /\ core'.haveMeasurement /\ core'.rearmMs = core.rearmMs
      /\ Recorded \/ (Judged /\ (Latched \/ Gated \/ Good \/ Confirming))
  BY <1>1, <1>2, <1>3, UpdateResult
<1>5. core.awaitingFirstSample =>
        /\ age.rearm < Half => (Ignored(core, m) <=> delay > age.rearm)
        /\ ~Ignored(core, m) => delay <= age.rearm
  BY IgnoredIsExact DEF IInv, m
<1>6. core.state \in Energising =>
        /\ age.sample <= age.rearm
        /\ age.over = NoRun <=> core.timerStart = NoTimer
        /\ core.timerStart # NoTimer =>
             age.over <= Elapsed(millis, core.timerStart) + MaxMeasurementAgeMs
  BY DEF IInv, EnergisedStrong
<1>7. /\ age.sample \in 0 .. MaxSilence /\ age.heard \in 0 .. AgeCap
      /\ age.rearm \in 0 .. AgeCap /\ age.over \in NoRun .. AgeCap
      /\ age'.over \in NoRun .. AgeCap /\ delay \in Nat
  BY <1>1, TimingAssumption DEF Ages
<1>8. core.state \in Energising => ~core.awaitingFirstSample /\ ~Ignored(core, m)
  BY <1>3 DEF Energising, Ignored
<1>9. Judged => delay <= age.rearm
  <2>1. CASE core.state \in Energising
    BY <1>2, <1>6, <1>7, <2>1
  <2>2. CASE core.state = "INIT"
    BY <1>3, <1>5, <2>2
  <2> QED
    BY <1>1, <2>1, <2>2 DEF Core, SystemState, Energising
<1>10. FaultConsistent'
  <2>1. CASE Recorded
    BY <1>3, <2>1 DEF FaultConsistent, IsConsistent
  <2>2. CASE Judged /\ Latched
    BY <2>2 DEF FaultConsistent, IsConsistent
  <2>3. CASE Judged /\ Gated
    BY <1>3, <2>3 DEF FaultConsistent, IsConsistent
  <2>4. CASE Judged /\ Good
    BY <1>3, <2>4 DEF FaultConsistent, IsConsistent, Energising
  <2>5. CASE Judged /\ Confirming
    BY <1>3, <2>5 DEF FaultConsistent, IsConsistent
  <2> QED
    BY <1>4, <2>1, <2>2, <2>3, <2>4, <2>5
<1>11. StampsExact'
  <2>1. Elapsed(millis', core'.last.timestamp) = age'.sample
    BY <1>2, <1>4
  <2>2. age'.rearm < AgeCap => Elapsed(millis', core'.rearmMs) = age'.rearm
    BY <1>2, <1>4 DEF IInv, StampsExact
  <2>3. ASSUME core'.state # "FAULT", age'.rearm < Half, age'.heard < AgeCap
        PROVE  Elapsed(millis', core'.lastSampleMs) = age'.heard
    <3>1. CASE Judged
      BY <1>1, <1>2, <1>9, <3>1, ElapsedNow
    <3>2. CASE Recorded
      <4>1. core.state = "INIT" /\ core.awaitingFirstSample /\ Ignored(core, m)
        BY <1>1, <1>3, <1>8, <2>3, <3>2 DEF Core, SystemState, Energising
      <4>2. delay > age.rearm
        BY <1>2, <1>5, <2>3, <4>1
      <4>3. age'.heard = age.heard
        BY <1>2, <1>7, <4>2
      <4> QED
        BY <1>2, <2>3, <3>2, <4>1, <4>3 DEF IInv, StampsExact
    <3> QED
      BY <1>4, <3>1, <3>2
  <2> QED
    BY <2>1, <2>2, <2>3 DEF StampsExact
<1>12. EnergisedStrong'
  <2> SUFFICES ASSUME core'.state \in Energising PROVE EnergisedStrong'
    BY DEF EnergisedStrong
  <2>1. Judged /\ (Good \/ Confirming)
    BY <1>4, <1>8 DEF Energising
  <2>2. delay <= age.rearm /\ age'.heard = 0 /\ Elapsed(millis', core'.lastSampleMs) = 0
    BY <1>1, <1>2, <1>9, <2>1, ElapsedNow
  <2>3. m.valid /\ m.voltage > MinOperatingVoltageV /\ delay <= MaxMeasurementAgeMs
    BY <1>2, <2>1 DEF IsFresh, IsOverload
  <2>4. age'.over = NoRun <=> core'.timerStart = NoTimer
    <3>1. CASE Good
      BY <1>2, <3>1
    <3>2. CASE Confirming
      BY <1>1, <1>2, <1>3, <1>6, <1>7, <2>1, <3>2 DEF Core, SystemState, Energising,
         Millis, NoTimer, NoRun
    <3> QED
      BY <2>1, <3>1, <3>2
  <2>5. ASSUME core'.timerStart # NoTimer
        PROVE  /\ age'.over <= Elapsed(millis, core'.timerStart) + MaxMeasurementAgeMs
               /\ 0 <= Elapsed(millis, core'.timerStart)
               /\ Elapsed(millis, core'.timerStart) < FaultConfirmMs
    <3>1. Confirming
      BY <2>1, <2>5
    <3>2. core'.timerStart \in Millis
      BY <1>1, <2>5 DEF Core
    <3>3. Elapsed(millis, core'.timerStart) \in Nat
      BY <1>1, <3>2, ElapsedType DEF Millis
    <3>4. core.state \in Energising
      BY <1>1, <1>3, <2>1, <3>1 DEF Core, SystemState, Energising
    <3>5. CASE core.timerStart = NoTimer
      <4>1. age'.over = delay
        BY <1>2, <1>6, <3>1, <3>4, <3>5
      <4> QED
        BY <1>7, <2>3, <3>1, <3>3, <4>1, ConfigAssumption
    <3>6. CASE core.timerStart # NoTimer
      <4>1. age'.over = age.over /\ core'.timerStart = core.timerStart
        BY <1>2, <1>6, <3>1, <3>4, <3>6
      <4> QED
        BY <1>6, <3>1, <3>3, <3>4, <3>6, <4>1
    <3> QED
      BY <3>5, <3>6
  <2> QED
    BY <1>2, <1>4, <1>7, <2>2, <2>3, <2>4, <2>5, ConfigAssumption DEF EnergisedStrong
<1> QED
  BY <1>10, <1>11, <1>12 DEF IInv

\* A tick keeps the invariant: an energised object that it leaves alone has
\* heard from the sensor within the age limit.
LEMMA TickInvariant == IInv /\ TypeOK' /\ TickStep => IInv'
<1> SUFFICES ASSUME IInv, TypeOK', TickStep PROVE IInv'
  OBVIOUS
<1>1. /\ core \in Core /\ millis \in Millis /\ age \in Ages /\ millis' = millis
      /\ core' = Tick(core, millis)
      /\ age'.sample = age.sample /\ age'.heard = age.heard
      /\ age'.rearm = age.rearm /\ age'.over = age.over /\ age'.call = 0
  BY DEF IInv, TypeOK, TickStep, Ages
<1>2. /\ core.fault.active <=> core.state = "FAULT"
      /\ core.fault.active <=> core.fault.activeFault # "NONE"
  BY DEF IInv, FaultConsistent, IsConsistent
<1>3. CASE /\ core' = core
           /\ \/ core.state = "FAULT"
              \/ Elapsed(millis, core.lastSampleMs) <= MaxMeasurementAgeMs
  <2>1. FaultConsistent'
    BY <1>3 DEF IInv, FaultConsistent, IsConsistent
  <2>2. StampsExact'
    BY <1>1, <1>3 DEF IInv, StampsExact
  <2>3. EnergisedStrong'
    <3> SUFFICES ASSUME core.state \in Energising PROVE EnergisedStrong'
      BY <1>3 DEF EnergisedStrong
    <3>1. age.heard <= MaxMeasurementAgeMs + 0
      BY <1>3, ConfigAssumption DEF IInv, EnergisedStrong, Energising
    <3> QED
      BY <1>1, <1>3, <3>1 DEF IInv, EnergisedStrong
  <2> QED
    BY <2>1, <2>2, <2>3 DEF IInv
<1>4. CASE /\ core'.state = "FAULT" /\ core'.fault.active
           /\ core'.timerStart = NoTimer /\ core'.fault.activeFault = "SENSOR_STALE"
           /\ core'.last = core.last /\ core'.rearmMs = core.rearmMs
  <2>1. FaultConsistent'
    BY <1>4 DEF FaultConsistent, IsConsistent
  <2>2. StampsExact'
    BY <1>1, <1>4 DEF IInv, StampsExact
  <2>3. EnergisedStrong'
    BY <1>4 DEF EnergisedStrong, Energising
  <2> QED
    BY <2>1, <2>2, <2>3 DEF IInv
<1> QED
  BY <1>1, <1>2, <1>3, <1>4, TickResult

\* A reset keeps the invariant: accepted, it restarts the silence clock and the
\* re-arm point together.
LEMMA ResetInvariant == IInv /\ TypeOK' /\ ResetStep => IInv'
<1> SUFFICES ASSUME IInv, TypeOK', ResetStep PROVE IInv'
  OBVIOUS
<1>1. core \in Core /\ millis \in Millis /\ age \in Ages /\ millis' = millis
  BY DEF IInv, TypeOK, ResetStep
<1>2. CASE ResetVerdict(core, millis) = "ACCEPTED"
  <2>1. /\ core'.state = "INIT" /\ core'.timerStart = NoTimer
        /\ core'.awaitingFirstSample /\ core'.rearmMs = millis
        /\ core'.lastSampleMs = millis /\ core'.last = core.last
        /\ core'.fault.activeFault = "NONE" /\ ~core'.fault.active
        /\ ~core'.fault.acknowledged
    BY <1>1, <1>2, ResetOutcome DEF ResetStep
  <2>2. age'.sample = age.sample /\ age'.heard = 0 /\ age'.rearm = 0
    BY <1>1, <1>2 DEF ResetStep, Ages
  <2>3. FaultConsistent'
    BY <2>1 DEF FaultConsistent, IsConsistent
  <2>4. StampsExact'
    BY <1>1, <2>1, <2>2, ElapsedNow DEF IInv, StampsExact
  <2>5. EnergisedStrong'
    BY <2>1 DEF EnergisedStrong, Energising
  <2> QED
    BY <2>3, <2>4, <2>5 DEF IInv
<1>3. CASE ResetVerdict(core, millis) # "ACCEPTED"
  <2>1. core' = core /\ age' = age
    BY <1>1, <1>3, ResetOutcome DEF ResetStep
  <2> QED
    BY <1>1, <2>1 DEF IInv, FaultConsistent, IsConsistent, StampsExact, EnergisedStrong
<1> QED
  BY <1>2, <1>3

\* An acknowledgement changes one flag of a latched fault.
LEMMA AcknowledgeInvariant == IInv /\ TypeOK' /\ AcknowledgeStep => IInv'
<1> SUFFICES ASSUME IInv, TypeOK', AcknowledgeStep PROVE IInv'
  OBVIOUS
<1>1. core \in Core /\ millis' = millis /\ age' = age
  BY DEF IInv, TypeOK, AcknowledgeStep
<1>2. CASE core.fault.active
  <2>1. /\ core'.state = core.state /\ core'.timerStart = core.timerStart
        /\ core'.last = core.last /\ core'.rearmMs = core.rearmMs
        /\ core'.lastSampleMs = core.lastSampleMs
        /\ core'.awaitingFirstSample = core.awaitingFirstSample
        /\ core'.fault.active = core.fault.active
        /\ core'.fault.activeFault = core.fault.activeFault
    BY <1>1, <1>2 DEF AcknowledgeStep, Acknowledge, Core, FaultManager
  <2>2. core.state = "FAULT"
    BY <1>2 DEF IInv, FaultConsistent, IsConsistent
  <2>3. FaultConsistent'
    BY <1>2, <2>1 DEF IInv, FaultConsistent, IsConsistent
  <2>4. StampsExact'
    BY <1>1, <2>1 DEF IInv, StampsExact
  <2>5. EnergisedStrong'
    BY <2>1, <2>2 DEF EnergisedStrong, Energising
  <2> QED
    BY <2>3, <2>4, <2>5 DEF IInv
<1>3. CASE ~core.fault.active
  <2>1. core' = core
    BY <1>3 DEF AcknowledgeStep, Acknowledge
  <2> QED
    BY <1>1, <2>1 DEF IInv, FaultConsistent, IsConsistent, StampsExact, EnergisedStrong
<1> QED
  BY <1>2, <1>3

\* A lock failure latches PROTECTION_INTERNAL unless a fault is already latched.
LEMMA InternalFaultInvariant == IInv /\ TypeOK' /\ InternalFaultStep => IInv'
<1> SUFFICES ASSUME IInv, TypeOK', InternalFaultStep PROVE IInv'
  OBVIOUS
<1>1. core \in Core /\ millis' = millis /\ age' = age
  BY DEF IInv, TypeOK, InternalFaultStep
<1>2. /\ core'.state = "FAULT" /\ core'.fault.active /\ core'.timerStart = NoTimer
      /\ core'.fault.activeFault # "NONE"
      /\ core'.last = core.last /\ core'.rearmMs = core.rearmMs
  BY <1>1, RaiseFaultResult
  DEF IInv, FaultConsistent, IsConsistent, InternalFaultStep, RaiseInternalFault, FaultCode
<1>3. FaultConsistent'
  BY <1>2 DEF FaultConsistent, IsConsistent
<1>4. StampsExact'
  BY <1>1, <1>2 DEF IInv, StampsExact
<1>5. EnergisedStrong'
  BY <1>2 DEF EnergisedStrong, Energising
<1> QED
  BY <1>3, <1>4, <1>5 DEF IInv

\* Every step keeps the inductive invariant.
LEMMA InvariantStep == IInv /\ [Next]_vars => IInv'
<1> SUFFICES ASSUME IInv, [Next]_vars PROVE IInv'
  OBVIOUS
<1>1. TypeOK'
  BY TypeStep DEF IInv
<1>2. CASE Advance
  BY <1>1, <1>2, AdvanceInvariant
<1>3. CASE Restart
  <2>1. (core = Begin(0) /\ millis = 0 /\ age = NewAges => IInv)'
    BY BeginInvariant, PTL
  <2> QED
    BY <1>3, <2>1 DEF Restart
<1>4. ASSUME NEW reading \in Readings, NEW delay \in 0 .. MaxSampleDelay,
             UpdateSample(reading, delay)
      PROVE  IInv'
  BY <1>1, <1>4, UpdateInvariant
<1>5. CASE TickStep
  BY <1>1, <1>5, TickInvariant
<1>6. CASE ResetStep
  BY <1>1, <1>6, ResetInvariant
<1>7. CASE AcknowledgeStep
  BY <1>1, <1>7, AcknowledgeInvariant
<1>8. CASE InternalFaultStep
  BY <1>1, <1>8, InternalFaultInvariant
<1>9. CASE UNCHANGED vars
  BY <1>9 DEF vars, IInv, TypeOK, FaultConsistent, IsConsistent, StampsExact, EnergisedStrong
<1> QED
  BY <1>2, <1>3, <1>4, <1>5, <1>6, <1>7, <1>8, <1>9 DEF Next

\* The inductive invariant holds in every reachable state.
THEOREM Invariance == Spec => []IInv
<1>1. Init => IInv
  BY BeginInvariant DEF Init
<1> QED
  BY <1>1, InvariantStep, PTL DEF Spec

-----------------------------------------------------------------------------
(***************************************************************************)
(* The safety properties.                                                  *)
(***************************************************************************)

\* The fault flag, the state, the cause, the gate and the confirmation timer of
\* protection_core.cpp always agree.
THEOREM FaultRecordConsistent == Spec => []FaultConsistent
BY Invariance, PTL DEF IInv

\* An overload the sensor has measured cannot keep the relay closed for the
\* confirmation time plus twice the sample age limit plus one control loop.
THEOREM OverloadBounded == Spec => []OverloadIsBounded
<1>1. IInv => OverloadIsBounded
  <2> SUFFICES ASSUME IInv, core.state \in Energising
               PROVE  age.over < FaultConfirmMs + 2 * MaxMeasurementAgeMs + MaxCallGap
    BY DEF OverloadIsBounded
  <2>1. /\ core \in Core /\ millis \in Millis
        /\ age.heard \in 0 .. AgeCap /\ age.over \in NoRun .. AgeCap
        /\ age.call \in 0 .. MaxCallGap
    BY DEF IInv, TypeOK, Ages
  <2>2. CASE core.timerStart = NoTimer
    <3>1. age.over = NoRun
      BY <2>2 DEF IInv, EnergisedStrong
    <3> QED
      BY <3>1, ConfigAssumption, TimingAssumption DEF NoRun
  <2>3. CASE core.timerStart # NoTimer
    <3>1. core.timerStart \in Millis
      BY <2>1, <2>3 DEF Core
    <3>2. Elapsed(millis, core.timerStart) \in Int
      BY <2>1, <3>1, ElapsedType DEF Millis
    <3>3. /\ age.over <= Elapsed(millis, core.timerStart) + MaxMeasurementAgeMs
          /\ Elapsed(millis, core.timerStart) < FaultConfirmMs + age.heard
          /\ age.heard <= MaxMeasurementAgeMs + age.call
      BY <2>3 DEF IInv, EnergisedStrong
    <3> QED
      BY <2>1, <3>2, <3>3, ConfigAssumption, TimingAssumption DEF NoRun
  <2> QED
    BY <2>2, <2>3
<1> QED
  BY <1>1, Invariance, PTL

\* The relay is closed only on recent, valid, powered data taken since the last
\* re-arm.
THEOREM EnergisedDataRecent == Spec => []EnergisedDataIsRecent
<1>1. IInv => EnergisedDataIsRecent
  <2> SUFFICES ASSUME IInv, core.state \in Energising PROVE EnergisedDataIsRecent
    BY DEF EnergisedDataIsRecent
  <2>1. /\ age.heard \in 0 .. AgeCap /\ age.sample \in 0 .. MaxSilence
        /\ age.call \in 0 .. MaxCallGap
    BY DEF IInv, TypeOK, Ages
  <2> QED
    BY <2>1, ConfigAssumption, TimingAssumption
    DEF IInv, EnergisedStrong, EnergisedDataIsRecent
<1> QED
  BY <1>1, Invariance, PTL

\* Which steps can close the relay, trip it or release it: the case analysis the
\* action properties share.
LEMMA StepEffect ==
  ASSUME IInv, [Next]_vars
  PROVE  \/ /\ core'.state = core.state
            /\ core'.fault.active = core.fault.active
            /\ core'.fault.activeFault = core.fault.activeFault
            /\ core'.fault.totalFaults = core.fault.totalFaults
         \/ core' = Begin(0)
         \/ /\ ~core.fault.active /\ core'.fault.active /\ core'.state = "FAULT"
            /\ core'.fault.activeFault \in FaultCode \ {"NONE"}
            /\ core'.fault.activeFault = "SENSOR_STALE" =>
                 \/ Elapsed(millis, core.lastSampleMs) > MaxMeasurementAgeMs
                    /\ age'.heard = age.heard
                 \/ age'.sample > MaxMeasurementAgeMs
         \/ /\ ~core.fault.active /\ core'.fault = core.fault
            /\ core'.state = "INIT"
         \/ /\ ~core.fault.active /\ core'.fault = core.fault
            /\ core.state \notin Energising => ~IsOverload(core'.last)
            /\ core'.state \in Energising /\ core'.last.valid
            /\ core'.last.voltage > MinOperatingVoltageV
            /\ age'.sample <= MaxMeasurementAgeMs /\ age'.sample <= age.rearm
         \/ /\ core.fault.active /\ core'.state = "INIT"
            /\ core'.awaitingFirstSample
            /\ core'.fault.activeFault = "NONE" /\ ~core'.fault.active
            /\ age.sample <= MaxMeasurementAgeMs
            /\ core.last.valid /\ core.last.power <= FaultPowerW
<1>1. TypeOK' /\ IInv'
  BY InvariantStep, TypeStep DEF IInv
<1>2. /\ core \in Core /\ millis \in Millis /\ age \in Ages /\ core' \in Core
      /\ age' \in Ages
  BY <1>1 DEF IInv, TypeOK
<1>3. /\ core.fault.active <=> core.state = "FAULT"
      /\ core.fault.active <=> core.fault.activeFault # "NONE"
      /\ core.state = "INIT" <=> (core.awaitingFirstSample /\ ~core.fault.active)
  BY DEF IInv, FaultConsistent, IsConsistent
<1>4. core'.fault.activeFault \in FaultCode
  BY <1>2 DEF Core, FaultManager
<1>5. CASE Advance \/ UNCHANGED vars
  BY <1>5 DEF Advance, vars
<1>6. CASE Restart
  BY <1>6 DEF Restart
<1>7. ASSUME NEW reading \in Readings, NEW delay \in 0 .. MaxSampleDelay,
             UpdateSample(reading, delay)
      PROVE  \/ core'.state = core.state /\ core'.fault = core.fault
             \/ /\ ~core.fault.active /\ core'.fault.active /\ core'.state = "FAULT"
                /\ core'.fault.activeFault # "NONE"
                /\ core'.fault.activeFault = "SENSOR_STALE" =>
                     age'.sample > MaxMeasurementAgeMs
             \/ ~core.fault.active /\ core'.fault = core.fault /\ core'.state = "INIT"
             \/ /\ ~core.fault.active /\ core'.fault = core.fault
                /\ core.state \notin Energising => ~IsOverload(core'.last)
                /\ core'.state \in Energising /\ core'.last.valid
                /\ core'.last.voltage > MinOperatingVoltageV
                /\ age'.sample <= MaxMeasurementAgeMs /\ age'.sample <= age.rearm
  <2> DEFINE m == Sample(reading, delay)
  <2>1. /\ m \in Measurement /\ Elapsed(millis, m.timestamp) = delay
        /\ core' = Update(core, m, millis) /\ age'.sample = delay
        /\ delay <= age.sample
    BY <1>7, UpdateStepFacts DEF IInv
  <2>2. delay \in Nat /\ (~IsFresh(m, millis) => delay > MaxMeasurementAgeMs)
    BY <2>1, ConfigAssumption, TimingAssumption DEF IsFresh
  <2>3. IsFresh(m, millis) => delay <= MaxMeasurementAgeMs
    BY <2>1 DEF IsFresh
  <2>4. core.state \in Energising => age.sample <= age.rearm
    BY DEF IInv, EnergisedStrong
  <2>5. core.state = "INIT" /\ ~Ignored(core, m) => delay <= age.rearm
    BY <1>3, IgnoredIsExact DEF IInv
  <2>6. core.state \in Energising => delay <= age.rearm
    BY <1>2, <2>1, <2>2, <2>4 DEF Ages
  <2>7. core.state # "FAULT" => core.state = "INIT" \/ core.state \in Energising
    BY <1>2 DEF Core, SystemState, Energising
  <2>8. IsOverload(m) => m.valid /\ m.voltage > MinOperatingVoltageV
    BY DEF IsOverload
  <2> HIDE DEF m
  <2> QED
    BY <1>2, <1>3, <2>1, <2>2, <2>3, <2>5, <2>6, <2>7, <2>8, UpdateResult DEF Energising
<1>8. CASE TickStep
  <2>1. core' = Tick(core, millis) /\ age'.heard = age.heard
    BY <1>2, <1>8 DEF TickStep, Ages
  <2> QED
    BY <1>2, <1>3, <1>4, <2>1, TickResult
<1>9. CASE ResetStep
  <2>1. CASE ResetVerdict(core, millis) = "ACCEPTED"
    <3>1. Elapsed(millis, core.last.timestamp) = age.sample
      BY DEF IInv, StampsExact
    <3> QED
      BY <1>2, <1>9, <2>1, <3>1, ResetOutcome DEF ResetStep, IsFresh
  <2>2. CASE ResetVerdict(core, millis) # "ACCEPTED"
    BY <1>2, <1>9, <2>2, ResetOutcome DEF ResetStep
  <2> QED
    BY <2>1, <2>2
<1>10. CASE AcknowledgeStep
  BY <1>2, <1>10 DEF AcknowledgeStep, Acknowledge, Core, FaultManager
<1>11. CASE InternalFaultStep
  <2>1. CASE core.fault.active
    BY <1>2, <1>3, <1>11, <2>1, RaiseFaultResult
    DEF InternalFaultStep, RaiseInternalFault, FaultCode
  <2>2. CASE ~core.fault.active
    BY <1>2, <1>3, <1>11, <2>2, RaiseFaultResult
    DEF InternalFaultStep, RaiseInternalFault, FaultCode
  <2> QED
    BY <2>1, <2>2
<1> QED
  BY <1>4, <1>5, <1>6, <1>7, <1>8, <1>9, <1>10, <1>11 DEF Next

\* Only a fresh, valid, powered, safe sample taken since the re-arm point closes
\* the relay.
THEOREM EnergiseOnGoodSample == Spec => EnergiseOnlyOnGoodSample
<1>1. IInv /\ [Next]_vars => EnergisesOnGoodSample
  <2> SUFFICES ASSUME IInv, [Next]_vars,
                      core.state \notin Energising, core'.state \in Energising
               PROVE  /\ core.state = "INIT"
                      /\ core'.last.valid
                      /\ core'.last.voltage > MinOperatingVoltageV
                      /\ core'.last.power <= FaultPowerW
                      /\ age'.sample <= MaxMeasurementAgeMs
                      /\ age'.sample <= age.rearm
    BY DEF EnergisesOnGoodSample
  <2>1. core \in Core /\ core' \in Core
    BY TypeStep DEF IInv, TypeOK
  <2>2. core' # Begin(0)
    BY DEF Begin, Energising
  <2>3. /\ ~core.fault.active /\ ~IsOverload(core'.last)
        /\ core'.last.valid /\ core'.last.voltage > MinOperatingVoltageV
        /\ age'.sample <= MaxMeasurementAgeMs /\ age'.sample <= age.rearm
    BY <2>2, StepEffect DEF Energising
  <2>4. core.state = "INIT"
    BY <2>1, <2>3 DEF IInv, FaultConsistent, IsConsistent, Core, SystemState, Energising
  <2>5. core'.last.power <= FaultPowerW
    BY <2>1, <2>3, ConfigAssumption DEF IsOverload, Core, Measurement
  <2> QED
    BY <2>3, <2>4, <2>5
<1> QED
  BY <1>1, Invariance, PTL DEF Spec, EnergiseOnlyOnGoodSample

\* Nothing but a restart or a reset judged on live good data ends a latched
\* fault, and nothing changes its cause or counts it again.
THEOREM FaultLatched == Spec => FaultIsLatched
<1>1. IInv /\ [Next]_vars => KeepsLatch
  <2> SUFFICES ASSUME IInv, [Next]_vars, core.fault.active
               PROVE  \/ core' = Begin(0)
                      \/ /\ core'.state = "FAULT"
                         /\ core'.fault.activeFault = core.fault.activeFault
                         /\ core'.fault.totalFaults = core.fault.totalFaults
                      \/ /\ core'.state = "INIT" /\ core'.awaitingFirstSample
                         /\ age.sample <= MaxMeasurementAgeMs
                         /\ core.last.valid /\ core.last.power <= FaultPowerW
    BY DEF KeepsLatch
  <2>1. core.state = "FAULT"
    BY DEF IInv, FaultConsistent, IsConsistent
  <2> QED
    BY <2>1, StepEffect
<1> QED
  BY <1>1, Invariance, PTL DEF Spec, FaultIsLatched

\* For half the range of millis() after each re-arm, SENSOR_STALE means that the
\* sensor was silent or its sample old.
THEOREM StaleGenuine == Spec => StaleFaultIsGenuine
<1>1. IInv /\ [Next]_vars => (age.rearm < Half => StaleIsGenuine)
  <2> SUFFICES ASSUME IInv, [Next]_vars, age.rearm < Half, core.state # "FAULT",
                      core'.fault.activeFault = "SENSOR_STALE"
               PROVE  age.heard > MaxMeasurementAgeMs \/ age'.sample > MaxMeasurementAgeMs
    BY DEF StaleIsGenuine
  <2>1. ~core.fault.active /\ core.fault.activeFault = "NONE"
    BY DEF IInv, FaultConsistent, IsConsistent
  <2>2. core' # Begin(0)
    BY DEF Begin, NoFault
  <2>3. \/ Elapsed(millis, core.lastSampleMs) > MaxMeasurementAgeMs
        \/ age'.sample > MaxMeasurementAgeMs
    BY <2>1, <2>2, StepEffect
  <2>4. age.heard < AgeCap => Elapsed(millis, core.lastSampleMs) = age.heard
    BY DEF IInv, StampsExact
  <2>5. age.heard \in 0 .. AgeCap /\ AgeCap > MaxMeasurementAgeMs
    BY ConfigAssumption, TimingAssumption DEF IInv, TypeOK, Ages
  <2> QED
    BY <2>3, <2>4, <2>5, ConfigAssumption, TimingAssumption
<1> QED
  BY <1>1, Invariance, PTL DEF Spec, StaleFaultIsGenuine

\* The protection object implements the latched relay it promises to be.
THEOREM Refinement == Spec => RefinesLatchedRelay
<1>1. Init => Relay!Init
  BY DEF Init, Relay!Init, Begin, NoFault, Energising
<1>2. IInv /\ [Next]_vars =>
        [Relay!Next]_<<core.state \in Energising, core.fault.activeFault>>
  <2> SUFFICES ASSUME IInv, [Next]_vars
               PROVE  \/ Relay!Next
                      \/ UNCHANGED <<core.state \in Energising, core.fault.activeFault>>
    OBVIOUS
  <2>1. /\ core.fault.active <=> core.state = "FAULT"
        /\ core.fault.active <=> core.fault.activeFault # "NONE"
    BY DEF IInv, FaultConsistent, IsConsistent
  <2>2. core.state = "FAULT" => core.state \notin Energising
    BY DEF Energising
  <2>3. CASE core' = Begin(0)
    <3>1. core'.state \notin Energising /\ core'.fault.activeFault = "NONE"
      BY <2>3 DEF Begin, NoFault, Energising
    <3> QED
      BY <2>1, <2>2, <3>1 DEF Relay!Next, Relay!Inhibit, Relay!Clear
  <2>4. CASE core'.state = core.state /\ core'.fault.activeFault = core.fault.activeFault
    BY <2>4
  <2>5. CASE /\ ~core.fault.active /\ core'.state = "FAULT"
             /\ core'.fault.activeFault \in FaultCode \ {"NONE"}
    BY <2>1, <2>5 DEF Relay!Next, Relay!Trip, Energising
  <2>6. CASE core'.fault = core.fault /\ core'.state = "INIT"
    BY <2>6 DEF Relay!Next, Relay!Inhibit, Energising
  <2>7. CASE ~core.fault.active /\ core'.fault = core.fault /\ core'.state \in Energising
    BY <2>1, <2>7 DEF Relay!Next, Relay!Allow
  <2>8. CASE core.fault.active /\ core'.state = "INIT" /\ core'.fault.activeFault = "NONE"
    BY <2>1, <2>2, <2>8 DEF Relay!Next, Relay!Clear, Energising
  <2> QED
    BY <2>3, <2>4, <2>5, <2>6, <2>7, <2>8, StepEffect
<1> QED
  BY <1>1, <1>2, Invariance, PTL DEF Spec, RefinesLatchedRelay, Relay!Spec
=============================================================================
