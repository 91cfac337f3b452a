----------------------------- MODULE CoreLemmas -----------------------------
(***************************************************************************)
(* What the operations of ProtectionCore keep and leave behind, for every  *)
(* threshold and every range of millis(): the facts on which the proofs    *)
(* about ProtectionMachine and Controller rest.                            *)
(***************************************************************************)
EXTENDS ProtectionCore, TLAPS

-----------------------------------------------------------------------------
(***************************************************************************)
(* Unsigned time.                                                          *)
(***************************************************************************)

\* An elapsed time fits the counter.
LEMMA ElapsedType ==
  ASSUME NEW now \in Millis, NEW then \in Millis
  PROVE  Elapsed(now, then) \in Millis
BY ConfigAssumption DEF Elapsed, Millis, Wrap

\* A stamp of the past is as old as it was made.
LEMMA ElapsedOfStamp ==
  ASSUME NEW now \in Millis, NEW delay \in Millis
  PROVE  /\ Elapsed(now, delay) \in Millis
         /\ Elapsed(now, Elapsed(now, delay)) = delay
BY ConfigAssumption DEF Elapsed, Millis, Wrap

\* Nothing has passed since now.
LEMMA ElapsedNow ==
  ASSUME NEW now \in Millis
  PROVE  Elapsed(now, now) = 0
BY DEF Elapsed, Millis

\* While less than half the range has passed since ref, the signed comparison
\* tells whether a stamp was made before ref.
LEMMA SignedBeforeIsExact ==
  ASSUME NEW now \in Millis, NEW ref \in Millis, NEW delay \in 0 .. Half - 1,
         Elapsed(now, ref) < Half
  PROVE  SignedBefore(Elapsed(now, delay), ref) <=> delay > Elapsed(now, ref)
BY ConfigAssumption DEF SignedBefore, Elapsed, Millis, Wrap

-----------------------------------------------------------------------------
(***************************************************************************)
(* Types.                                                                  *)
(***************************************************************************)

\* Latching a cause keeps the fault record well formed.
LEMMA LatchType ==
  ASSUME NEW fault \in FaultManager, NEW cause \in FaultCode
  PROVE  Latch(fault, cause) \in FaultManager
<1>1. (fault.totalFaults + 1) % CountWrap \in 0 .. CountWrap - 1
  BY ConfigAssumption DEF FaultManager
<1> QED
  BY <1>1 DEF Latch, FaultManager

\* So does raising a fault for the whole object.
LEMMA RaiseFaultType ==
  ASSUME NEW c \in Core, NEW cause \in FaultCode
  PROVE  RaiseFault(c, cause) \in Core
<1>1. Latch(c.fault, cause) \in FaultManager
  BY LatchType DEF Core
<1> QED
  BY <1>1 DEF RaiseFault, Core, SystemState, NoTimer

\* The judgement of a sample keeps the object well formed.
LEMMA EvaluateType ==
  ASSUME NEW c \in Core, NEW m \in Measurement, NEW now \in Millis
  PROVE  Evaluate(c, m, now) \in Core
<1>1. \A cause \in FaultCode : RaiseFault(c, cause) \in Core
  BY RaiseFaultType
<1>2. NoMains(c) \in Core
  BY DEF NoMains, Core, SystemState, NoTimer
<1>3. Operating(c, m.power) \in Core
  BY DEF Operating, Core, SystemState, NoTimer
<1>4. Overpower(c, now) \in Core
  <2> DEFINE start == IF c.timerStart = NoTimer THEN now ELSE c.timerStart
             timed == [c EXCEPT !.timerStart = start]
  <2>1. start \in Millis \cup {NoTimer}
    BY DEF Core
  <2>2. timed \in Core
    BY <2>1 DEF Core
  <2>3. RaiseFault(timed, "OVERPOWER") \in Core
    BY <2>2, RaiseFaultType DEF FaultCode
  <2>4. [timed EXCEPT !.state = "WARNING"] \in Core
    BY <2>2 DEF Core, SystemState
  <2>5. [RaiseFault(c, "OVERPOWER") EXCEPT !.awaitingFirstSample = FALSE] \in Core
    BY <1>1 DEF Core, FaultCode
  <2> QED
    BY <2>3, <2>4, <2>5 DEF Overpower
<1> QED
  BY <1>1, <1>2, <1>3, <1>4 DEF Evaluate, FaultCode

\* A new object is well formed.
LEMMA BeginType ==
  ASSUME NEW now \in Millis
  PROVE  Begin(now) \in Core
BY ConfigAssumption
DEF Begin, Core, SystemState, NoFault, FaultManager, FaultCode, NoMeasurement,
    Measurement, NoTimer, Millis, Wrap

\* Each operation of the class keeps the object well formed.
LEMMA OperationsType ==
  ASSUME NEW c \in Core, NEW now \in Millis
  PROVE  /\ \A m \in Measurement : Update(c, m, now) \in Core
         /\ Tick(c, now) \in Core
         /\ RequestReset(c, now) \in Core
         /\ Acknowledge(c) \in Core
         /\ RaiseInternalFault(c) \in Core
         /\ Begin(now) \in Core
<1>1. ASSUME NEW m \in Measurement PROVE Update(c, m, now) \in Core
  <2> DEFINE seen == [c EXCEPT !.last = m, !.haveMeasurement = TRUE]
             heard == [seen EXCEPT !.lastSampleMs = now]
  <2>1. seen \in Core
    BY DEF Core
  <2>2. heard \in Core
    BY <2>1 DEF Core
  <2>3. Evaluate(heard, m, now) \in Core
    BY <2>2, EvaluateType
  <2> QED
    BY <2>1, <2>2, <2>3 DEF Update
<1>2. Tick(c, now) \in Core
  BY RaiseFaultType DEF Tick, FaultCode
<1>3. RequestReset(c, now) \in Core
  BY DEF RequestReset, Rearm, Core, FaultManager, FaultCode, SystemState, NoTimer
<1>4. Acknowledge(c) \in Core
  BY DEF Acknowledge, Core, FaultManager
<1>5. RaiseInternalFault(c) \in Core
  BY RaiseFaultType DEF RaiseInternalFault, FaultCode
<1>6. Begin(now) \in Core
  BY BeginType
<1> QED
  BY <1>1, <1>2, <1>3, <1>4, <1>5, <1>6

-----------------------------------------------------------------------------
(***************************************************************************)
(* What each operation leaves behind.                                      *)
(***************************************************************************)

\* Raising a fault ends in FAULT, latched, with the timer stopped; the stamps
\* and the last sample are untouched.
LEMMA RaiseFaultResult ==
  ASSUME NEW c \in Core, NEW cause \in FaultCode \ {"NONE"},
         c.fault.active <=> c.fault.activeFault # "NONE"
  PROVE  LET r == RaiseFault(c, cause)
         IN  /\ r.state = "FAULT" /\ r.fault.active /\ r.timerStart = NoTimer
             /\ r.fault.activeFault # "NONE"
             /\ ~c.fault.active => r.fault.activeFault = cause
             /\ c.fault.active => r.fault = c.fault
             /\ r.last = c.last /\ r.haveMeasurement = c.haveMeasurement
             /\ r.lastSampleMs = c.lastSampleMs /\ r.rearmMs = c.rearmMs
             /\ r.awaitingFirstSample = c.awaitingFirstSample
BY DEF RaiseFault, Latch, Core, FaultManager

\* A judged sample leaves the object in FAULT, gated in INIT, or energised: then
\* the sample was fresh, valid and powered, and the timer runs exactly when it
\* was an overload.
LEMMA EvaluateResult ==
  ASSUME NEW c \in Core, NEW m \in Measurement, NEW now \in Millis,
         ~c.fault.active, c.fault.activeFault = "NONE"
  PROVE  LET r == Evaluate(c, m, now)
         IN  /\ r.last = c.last /\ r.haveMeasurement = c.haveMeasurement
             /\ r.lastSampleMs = c.lastSampleMs /\ r.rearmMs = c.rearmMs
             /\ \/ /\ r.state = "FAULT" /\ r.fault.active
                   /\ r.fault.activeFault # "NONE" /\ r.timerStart = NoTimer
                   /\ r.fault.activeFault = "SENSOR_STALE" => ~IsFresh(m, now)
                \/ /\ r.state = "INIT" /\ r.fault = c.fault
                   /\ r.timerStart = NoTimer /\ r.awaitingFirstSample
                \/ /\ r.state \in Energising /\ r.fault = c.fault
                   /\ IsFresh(m, now) /\ m.valid
                   /\ m.voltage > MinOperatingVoltageV
                   /\ ~IsOverload(m) /\ r.timerStart = NoTimer
                   /\ ~r.awaitingFirstSample
                \/ /\ r.state = "WARNING" /\ r.fault = c.fault
                   /\ IsFresh(m, now) /\ IsOverload(m)
                   /\ ~c.awaitingFirstSample /\ ~r.awaitingFirstSample
                   /\ r.timerStart = IF c.timerStart = NoTimer THEN now ELSE c.timerStart
                   /\ Elapsed(now, r.timerStart) < FaultConfirmMs
<1> DEFINE r == Evaluate(c, m, now)
<1>1. \A cause \in FaultCode \ {"NONE"} : 
         LET f == RaiseFault(c, cause)
         IN  /\ f.state = "FAULT" /\ f.fault.active /\ f.timerStart = NoTimer
             /\ f.fault.activeFault = cause
             /\ f.last = c.last /\ f.haveMeasurement = c.haveMeasurement
             /\ f.lastSampleMs = c.lastSampleMs /\ f.rearmMs = c.rearmMs
  BY RaiseFaultResult
<1>2. CASE ~IsFresh(m, now)
  BY <1>1, <1>2 DEF Evaluate, FaultCode
<1>3. CASE IsFresh(m, now) /\ ~m.valid
  BY <1>1, <1>3 DEF Evaluate, FaultCode
<1>4. CASE IsFresh(m, now) /\ m.valid /\ m.voltage <= MinOperatingVoltageV
  BY <1>4 DEF Evaluate, NoMains, Core
<1>5. CASE /\ IsFresh(m, now) /\ m.valid /\ ~(m.voltage <= MinOperatingVoltageV)
           /\ ~(m.power > FaultPowerW)
  <2>1. r = Operating(c, m.power)
    BY <1>5 DEF Evaluate
  <2>2. m.voltage > MinOperatingVoltageV /\ ~IsOverload(m)
    BY <1>5, ConfigAssumption DEF Measurement, IsOverload
  <2> QED
    BY <1>5, <2>1, <2>2 DEF Operating, Core, Energising
<1>6. CASE /\ IsFresh(m, now) /\ m.valid /\ ~(m.voltage <= MinOperatingVoltageV)
           /\ m.power > FaultPowerW
  <2> DEFINE start == IF c.timerStart = NoTimer THEN now ELSE c.timerStart
             timed == [c EXCEPT !.timerStart = start]
  <2>1. r = Overpower(c, now)
    BY <1>6 DEF Evaluate
  <2>2. IsOverload(m)
    BY <1>6, ConfigAssumption DEF Measurement, IsOverload
  <2>3. start \in Millis \cup {NoTimer} /\ timed \in Core
    BY DEF Core
  <2>4. CASE c.awaitingFirstSample
    <3>1. r = [RaiseFault(c, "OVERPOWER") EXCEPT !.awaitingFirstSample = FALSE]
      BY <2>1, <2>4 DEF Overpower
    <3>2. RaiseFault(c, "OVERPOWER") \in Core
      BY RaiseFaultType DEF FaultCode
    <3> QED
      BY <1>1, <3>1, <3>2 DEF Core, FaultCode
  <2>5. CASE ~c.awaitingFirstSample /\ Elapsed(now, start) >= FaultConfirmMs
    <3>1. r = RaiseFault(timed, "OVERPOWER")
      BY <2>1, <2>5 DEF Overpower
    <3>2. /\ timed.fault = c.fault /\ timed.last = c.last
          /\ timed.haveMeasurement = c.haveMeasurement
          /\ timed.lastSampleMs = c.lastSampleMs /\ timed.rearmMs = c.rearmMs
      BY DEF Core
    <3> HIDE DEF timed
    <3> QED
      BY <2>3, <3>1, <3>2, RaiseFaultResult DEF FaultCode
  <2>6. CASE ~c.awaitingFirstSample /\ ~(Elapsed(now, start) >= FaultConfirmMs)
    <3>1. r = [timed EXCEPT !.state = "WARNING"]
      BY <2>1, <2>6 DEF Overpower
    <3>2. Elapsed(now, start) < FaultConfirmMs
      <4>1. start \in Millis
        BY DEF Core
      <4>2. Elapsed(now, start) \in Int
        BY <4>1, ElapsedType DEF Millis
      <4> QED
        BY <2>6, <4>2, ConfigAssumption
    <3> QED
      BY <1>6, <2>2, <2>6, <3>1, <3>2 DEF Core
  <2> QED
    BY <2>4, <2>5, <2>6
<1> QED
  BY <1>2, <1>3, <1>4, <1>5, <1>6

\* An update either records the sample only (latched, or taken before the
\* re-arm point), or judges it as EvaluateResult says.
LEMMA UpdateResult ==
  ASSUME NEW c \in Core, NEW m \in Measurement, NEW now \in Millis,
         c.fault.active <=> c.state = "FAULT",
         c.fault.active <=> c.fault.activeFault # "NONE"
  PROVE  LET r == Update(c, m, now)
         IN  /\ r.last = m /\ r.haveMeasurement /\ r.rearmMs = c.rearmMs
             /\ \/ /\ r.state = c.state /\ r.fault = c.fault
                   /\ r.timerStart = c.timerStart
                   /\ r.awaitingFirstSample = c.awaitingFirstSample
                   /\ \/ c.state = "FAULT"
                      \/ Ignored(c, m) /\ r.lastSampleMs = c.lastSampleMs
                \/ /\ c.state # "FAULT" /\ ~Ignored(c, m) /\ r.lastSampleMs = now
                   /\ \/ /\ r.state = "FAULT" /\ r.fault.active
                         /\ r.fault.activeFault # "NONE" /\ r.timerStart = NoTimer
                         /\ r.fault.activeFault = "SENSOR_STALE" => ~IsFresh(m, now)
                      \/ /\ r.state = "INIT" /\ r.fault = c.fault
                         /\ r.timerStart = NoTimer /\ r.awaitingFirstSample
                      \/ /\ r.state \in Energising /\ r.fault = c.fault
                         /\ IsFresh(m, now) /\ m.valid
                         /\ m.voltage > MinOperatingVoltageV
                         /\ ~IsOverload(m) /\ r.timerStart = NoTimer
                         /\ ~r.awaitingFirstSample
                      \/ /\ r.state = "WARNING" /\ r.fault = c.fault
                         /\ IsFresh(m, now) /\ IsOverload(m)
                         /\ ~c.awaitingFirstSample /\ ~r.awaitingFirstSample
                         /\ r.timerStart =
                              IF c.timerStart = NoTimer THEN now ELSE c.timerStart
                         /\ Elapsed(now, r.timerStart) < FaultConfirmMs
<1> DEFINE seen == [c EXCEPT !.last = m, !.haveMeasurement = TRUE]
           heard == [seen EXCEPT !.lastSampleMs = now]
<1>1. /\ seen.state = c.state /\ seen.fault = c.fault
      /\ seen.timerStart = c.timerStart /\ seen.rearmMs = c.rearmMs
      /\ seen.awaitingFirstSample = c.awaitingFirstSample
      /\ seen.last = m /\ seen.haveMeasurement
      /\ seen.lastSampleMs = c.lastSampleMs
  BY DEF Core
<1>2. /\ heard.state = c.state /\ heard.fault = c.fault
      /\ heard.timerStart = c.timerStart /\ heard.rearmMs = c.rearmMs
      /\ heard.awaitingFirstSample = c.awaitingFirstSample
      /\ heard.last = m /\ heard.haveMeasurement /\ heard.lastSampleMs = now
  BY DEF Core
<1>3. heard \in Core
  BY DEF Core
<1>4. CASE c.state = "FAULT"
  <2>1. Update(c, m, now) = heard
    BY <1>4 DEF Update
  <2> QED
    BY <1>2, <1>4, <2>1
<1>5. CASE c.state # "FAULT" /\ Ignored(c, m)
  <2>1. Update(c, m, now) = seen
    BY <1>5 DEF Update
  <2> QED
    BY <1>1, <1>5, <2>1
<1>6. CASE c.state # "FAULT" /\ ~Ignored(c, m)
  <2>1. Update(c, m, now) = Evaluate(heard, m, now)
    BY <1>6 DEF Update
  <2> HIDE DEF heard
  <2> QED
    BY <1>2, <1>3, <1>6, <2>1, EvaluateResult
<1> QED
  BY <1>4, <1>5, <1>6

\* A tick changes nothing, or latches SENSOR_STALE after a real silence.
LEMMA TickResult ==
  ASSUME NEW c \in Core, NEW now \in Millis,
         c.fault.active <=> c.state = "FAULT",
         c.fault.active <=> c.fault.activeFault # "NONE"
  PROVE  LET r == Tick(c, now)
         IN  \/ /\ r = c
                /\ \/ c.state = "FAULT"
                   \/ Elapsed(now, c.lastSampleMs) <= MaxMeasurementAgeMs
             \/ /\ c.state # "FAULT"
                /\ Elapsed(now, c.lastSampleMs) > MaxMeasurementAgeMs
                /\ r.state = "FAULT" /\ r.fault.active /\ r.timerStart = NoTimer
                /\ r.fault.activeFault = "SENSOR_STALE"
                /\ r.last = c.last /\ r.rearmMs = c.rearmMs
<1>1. Elapsed(now, c.lastSampleMs) \in Int
  BY ElapsedType DEF Core, Millis
<1>2. CASE c.state # "FAULT" /\ Elapsed(now, c.lastSampleMs) > MaxMeasurementAgeMs
  BY <1>2, RaiseFaultResult DEF Tick, FaultCode
<1>3. CASE ~(c.state # "FAULT" /\ Elapsed(now, c.lastSampleMs) > MaxMeasurementAgeMs)
  BY <1>1, <1>3, ConfigAssumption DEF Tick
<1> QED
  BY <1>2, <1>3

\* A reset is accepted on a latched fault and a fresh, valid, safe last sample,
\* and leaves a gated INIT; refused, it changes nothing.
LEMMA ResetOutcome ==
  ASSUME NEW c \in Core, NEW now \in Millis
  PROVE  LET r == RequestReset(c, now)
         IN  IF ResetVerdict(c, now) = "ACCEPTED"
             THEN /\ c.fault.active /\ c.last.valid /\ IsFresh(c.last, now)
                  /\ c.last.power <= FaultPowerW
                  /\ r.state = "INIT" /\ r.timerStart = NoTimer
                  /\ r.awaitingFirstSample /\ r.rearmMs = now
                  /\ r.lastSampleMs = now /\ r.last = c.last
                  /\ r.haveMeasurement = c.haveMeasurement
                  /\ r.fault.activeFault = "NONE" /\ ~r.fault.active
                  /\ ~r.fault.acknowledged
             ELSE r = c
<1>1. CASE ResetVerdict(c, now) = "ACCEPTED"
  <2>1. /\ c.fault.active /\ c.last.valid /\ IsFresh(c.last, now)
        /\ ~(c.last.power > FaultPowerW)
    BY <1>1 DEF ResetVerdict
  <2>2. c.last.power <= FaultPowerW
    BY <2>1, ConfigAssumption DEF Core, Measurement
  <2>3. RequestReset(c, now) = Rearm(c, now)
    BY <1>1 DEF RequestReset
  <2> DEFINE r == Rearm(c, now)
             cleared == [c.fault EXCEPT !.activeFault = "NONE", !.active = FALSE,
                                        !.acknowledged = FALSE]
  <2>4. /\ cleared.activeFault = "NONE" /\ ~cleared.active /\ ~cleared.acknowledged
    BY DEF Core, FaultManager
  <2>5. /\ r.state = "INIT" /\ r.timerStart = NoTimer /\ r.awaitingFirstSample
        /\ r.rearmMs = now /\ r.lastSampleMs = now /\ r.last = c.last
        /\ r.haveMeasurement = c.haveMeasurement /\ r.fault = cleared
    BY DEF Rearm, Core
  <2> HIDE DEF r, cleared
  <2>6. RequestReset(c, now) = r
    BY <2>3 DEF r
  <2> QED
    BY <1>1, <2>1, <2>2, <2>4, <2>5, <2>6
<1>2. CASE ResetVerdict(c, now) # "ACCEPTED"
  BY <1>2 DEF RequestReset
<1> QED
  BY <1>1, <1>2

\* Each operation keeps the fault record consistent.
LEMMA OperationsConsistent ==
  ASSUME NEW c \in Core, NEW now \in Millis, IsConsistent(c)
  PROVE  /\ \A m \in Measurement : IsConsistent(Update(c, m, now))
         /\ IsConsistent(Tick(c, now))
         /\ IsConsistent(RequestReset(c, now))
         /\ IsConsistent(Acknowledge(c))
         /\ IsConsistent(RaiseInternalFault(c))
<1>1. /\ c.fault.active <=> c.state = "FAULT"
      /\ c.fault.active <=> c.fault.activeFault # "NONE"
  BY DEF IsConsistent
<1>2. ASSUME NEW m \in Measurement PROVE IsConsistent(Update(c, m, now))
  <2> DEFINE r == Update(c, m, now)
  <2>1. \/ /\ r.state = c.state /\ r.fault = c.fault
           /\ r.timerStart = c.timerStart
           /\ r.awaitingFirstSample = c.awaitingFirstSample
        \/ /\ r.state = "FAULT" /\ r.fault.active
           /\ r.fault.activeFault # "NONE" /\ r.timerStart = NoTimer
        \/ /\ c.state # "FAULT" /\ r.state = "INIT" /\ r.fault = c.fault
           /\ r.timerStart = NoTimer /\ r.awaitingFirstSample
        \/ /\ c.state # "FAULT" /\ r.state \in Energising /\ r.fault = c.fault
           /\ r.timerStart = NoTimer /\ ~r.awaitingFirstSample
        \/ /\ c.state # "FAULT" /\ r.state = "WARNING" /\ r.fault = c.fault
           /\ ~r.awaitingFirstSample
    BY <1>1, UpdateResult
  <2> HIDE DEF r
  <2> QED
    BY <2>1 DEF IsConsistent, Energising, r
<1>3. IsConsistent(Tick(c, now))
  BY <1>1, TickResult DEF IsConsistent
<1>4. IsConsistent(RequestReset(c, now))
  BY ResetOutcome DEF IsConsistent
<1>5. IsConsistent(Acknowledge(c))
  BY DEF IsConsistent, Acknowledge, Core, FaultManager
<1>6. IsConsistent(RaiseInternalFault(c))
  BY <1>1, RaiseFaultResult DEF IsConsistent, RaiseInternalFault, FaultCode
<1> QED
  BY <1>2, <1>3, <1>4, <1>5, <1>6

\* A state that an update leaves the relay closed in rests on that very sample:
\* it is valid and powered, and if the object was gated, it was not ignored.
LEMMA UpdateEnergises ==
  ASSUME NEW c \in Core, NEW m \in Measurement, NEW now \in Millis, IsConsistent(c),
         Update(c, m, now).state \in Energising
  PROVE  /\ m.valid /\ m.voltage > MinOperatingVoltageV
         /\ c.state \in Energising \/ (c.state = "INIT" /\ ~Ignored(c, m))
<1> DEFINE r == Update(c, m, now)
<1>1. c.state \in SystemState
  BY DEF Core
<1>2. /\ c.fault.active <=> c.state = "FAULT"
      /\ c.fault.active <=> c.fault.activeFault # "NONE"
  BY DEF IsConsistent
<1>3. c.state = "FAULT" \/ Ignored(c, m) => r.state = c.state
  BY <1>2, UpdateResult
<1>4. c.state # "FAULT" /\ ~Ignored(c, m) =>
        \/ r.state \in {"FAULT", "INIT"}
        \/ m.valid /\ m.voltage > MinOperatingVoltageV
        \/ IsOverload(m)
  BY <1>2, UpdateResult
<1>5. r.state \in Energising
  OBVIOUS
<1> HIDE DEF r
<1>6. Ignored(c, m) => c.state \in {"INIT", "FAULT"}
  BY <1>2 DEF Ignored, IsConsistent
<1>7. c.state # "FAULT" /\ ~Ignored(c, m)
  BY <1>3, <1>5, <1>6 DEF Energising
<1>8. m.valid /\ m.voltage > MinOperatingVoltageV
  BY <1>4, <1>5, <1>7 DEF IsOverload, Energising
<1> QED
  BY <1>1, <1>7, <1>8 DEF Energising, SystemState

\* Before millis() has passed half of its range, stamps compare as numbers.
LEMMA SignedBeforeIsLess ==
  ASSUME NEW t \in 0 .. Half - 1, NEW ref \in 0 .. Half - 1
  PROVE  SignedBefore(t, ref) <=> t < ref
BY ConfigAssumption DEF SignedBefore, Elapsed, Wrap
=============================================================================
