--------------------------- MODULE WatchdogProofs ---------------------------
(***************************************************************************)
(* Proofs about Watchdog, for every set of tasks and all timeouts, periods *)
(* and ranges of millis() that its assumptions allow.                      *)
(***************************************************************************)
EXTENDS Watchdog, BasicLemmas

-----------------------------------------------------------------------------
(***************************************************************************)
(* The bounds, and what single steps do to ages.                           *)
(***************************************************************************)

\* The bounds fit into the range of millis(), and the timeout of the task watchdog
\* leaves room for a heartbeat timeout and a round of WatchdogTask.
LEMMA Bounds ==
  /\ Supervisor \in Tasks
  /\ HeartbeatTimeout \in Nat /\ StartupGrace \in Nat /\ SupervisorPeriod \in Nat \ {0}
  /\ MaxSkew \in Nat /\ HardwareTimeout \in Nat /\ Wrap \in Nat /\ AgeCap \in Nat
  /\ NoticeBound = HeartbeatTimeout + StartupGrace + 2 * SupervisorPeriod + 4 * MaxSkew
  /\ HangBound = 2 * HardwareTimeout + MaxSkew
  /\ NoticeBound + MaxSkew < AgeCap /\ HangBound + MaxSkew < AgeCap /\ AgeCap < Wrap
  /\ HeartbeatTimeout + SupervisorPeriod + 3 * MaxSkew < HardwareTimeout
BY WatchdogAssumption, ClockAssumption DEF AgeCap, Cap, NoticeBound, HangBound

\* A real age grows by one, up to its cap.
LEMMA OlderType ==
  ASSUME NEW a \in 0 .. AgeCap
  PROVE  /\ Older(a) \in 0 .. AgeCap
         /\ a < AgeCap => Older(a) = a + 1
         /\ a >= AgeCap => Older(a) = AgeCap
BY Bounds DEF Older

\* What a beat and a new round do to the record of real ages.
LEMMA AgeOfBeat ==
  ASSUME TypeOK, NEW t \in Tasks, NEW a, age' = [age EXCEPT !.beat[t] = a]
  PROVE  /\ age'.round = age.round
         /\ age'.beat = [age.beat EXCEPT ![t] = a]
         /\ age'.beat[t] = a
         /\ \A u \in Tasks \ {t} : age'.beat[u] = age.beat[u]
<1>1. age \in [beat : [Tasks -> 0 .. AgeCap], round : 0 .. AgeCap]
  BY DEF TypeOK
<1>2. age' = [age EXCEPT !.beat = [age.beat EXCEPT ![t] = a]]
  BY <1>1
<1>3. age'.round = age.round /\ age'.beat = [age.beat EXCEPT ![t] = a]
  BY <1>1, <1>2
<1> QED
  BY <1>1, <1>3

LEMMA AgeOfRound ==
  ASSUME TypeOK, age' = [age EXCEPT !.round = 0]
  PROVE  age'.round = 0 /\ age'.beat = age.beat
BY DEF TypeOK

\* What a tick does to the record of real ages.
LEMMA AgeOfTick ==
  ASSUME TypeOK, Advance
  PROVE  /\ age'.round = Older(age.round)
         /\ \A t \in Tasks : age'.beat[t] = Older(age.beat[t])
         /\ age' \in [beat : [Tasks -> 0 .. AgeCap], round : 0 .. AgeCap]
<1>1. /\ age.round \in 0 .. AgeCap
      /\ \A t \in Tasks : age.beat[t] \in 0 .. AgeCap
  BY DEF TypeOK
<1>2. age' = [beat |-> [t \in Tasks |-> Older(age.beat[t])], round |-> Older(age.round)]
  BY DEF Advance
<1>3. /\ Older(age.round) \in 0 .. AgeCap
      /\ \A t \in Tasks : Older(age.beat[t]) \in 0 .. AgeCap
  BY <1>1, OlderType
<1> QED
  BY <1>2, <1>3

\* The reading that a beat uses is recent.
LEMMA BeatIsRecent ==
  ASSUME TypeOK, ReadingsAreRecent, NEW t \in Tasks, Beat(t)
  PROVE  /\ stamp[t] \in Millis
         /\ Elapsed(millis, stamp[t]) \in 0 .. MaxSkew
<1>1. stamp[t] \in Millis /\ millis \in Millis
  BY DEF TypeOK, Beat
<1>2. stamp[t] \in Readings
  BY DEF Beat, Readings
<1> QED
  BY <1>1, <1>2, ElapsedType, Bounds DEF ReadingsAreRecent

\* So is the one that a judgement uses.
LEMMA JudgeIsRecent ==
  ASSUME TypeOK, ReadingsAreRecent, at = "judge", ~hung
  PROVE  Elapsed(millis, sampled) \in 0 .. MaxSkew
<1>1. sampled \in Millis /\ millis \in Millis /\ sampled \in Readings
  BY DEF TypeOK, Readings
<1> QED
  BY <1>1, ElapsedType, Bounds DEF ReadingsAreRecent

\* A beat resets the task watchdog: the timer starts over, or waits on.
LEMMA ResetResult ==
  ASSUME TypeOK, NEW t \in Tasks, ResetTaskWatchdog(t)
  PROVE  /\ covered' = covered
         /\ \/ resets \cup {t} = covered /\ resets' = {} /\ timer' = 0
            \/ /\ resets \cup {t} # covered
               /\ resets' = (resets \cup {t}) \cap covered /\ timer' = timer
BY DEF ResetTaskWatchdog, hardware

-----------------------------------------------------------------------------
(***************************************************************************)
(* The inductive invariant, part by part.                                  *)
(***************************************************************************)

USE DEF heartbeats, supervisor, registration, hardware

\* What comes before the first step.
LEMMA InitInvariant == Init => IInv
<1> SUFFICES ASSUME Init PROVE IInv
  OBVIOUS
<1>1. TypeOK
  <2>1. age \in [beat : [Tasks -> 0 .. AgeCap], round : 0 .. AgeCap]
    BY Bounds DEF Init
  <2>2. hung \in BOOLEAN
    BY DEF Init
  <2> QED
    BY <2>1, <2>2, ZeroIsMillis, Bounds DEF Init, TypeOK, NoStamp
<1>2. StartedMatches /\ ReadingsAreRecent
  BY Bounds DEF Init, StartedMatches, ReadingsAreRecent, Readings
<1>3. AgesAreReal
  BY ZeroIsMillis, ElapsedNow DEF Init, AgesAreReal
<1>4. RoundIsShort /\ TasksAreJudged
  BY Bounds DEF Init, RoundIsShort, TasksAreJudged, YoungEnough
<1>5. TimerWaits /\ ResetsAreRecent
  BY Bounds DEF Init, TimerWaits, ResetsAreRecent
<1> QED
  BY <1>1, <1>2, <1>3, <1>4, <1>5 DEF IInv

\* A restart, of either line, leads to a state like the first one.
LEMMA RebootInvariant == Restart \/ HardwareRestart => IInv'
<1>1. Restart \/ HardwareRestart => Init'
  BY DEF Restart, HardwareRestart, Reboot, Init
<1> QED
  BY <1>1, InitInvariant, PTL

\* Every step keeps the types.
LEMMA TypeStep ==
  ASSUME TypeOK, StartedMatches, ReadingsAreRecent, [Next]_vars
  PROVE  TypeOK'
<1>1. CASE Advance
  <2>1. millis' \in Millis
    BY <1>1, LaterType DEF Advance, TypeOK
  <2>2. timer' \in 0 .. HardwareTimeout
    BY <1>1, Bounds DEF Advance, TypeOK
  <2>3. age' \in [beat : [Tasks -> 0 .. AgeCap], round : 0 .. AgeCap]
    BY <1>1, AgeOfTick
  <2> QED
    BY <1>1, <2>1, <2>2, <2>3 DEF Advance, TypeOK
<1>2. ASSUME NEW t \in Tasks, NEW succeeds \in BOOLEAN, Register(t, succeeds)
      PROVE  TypeOK'
  <2>1. started' \subseteq Tasks /\ seen' \cup covered' \subseteq started'
    BY <1>2 DEF Register, TypeOK
  <2>2. failures' \in Nat /\ resets' \subseteq covered'
    BY <1>2 DEF Register, TypeOK
  <2>3. /\ at' \in {"start", "beat", "grace", "judge", "sleep", "restart"}
        /\ startup' \in Millis /\ sampled' \in Millis
    BY <1>2 DEF Register, TypeOK
  <2> QED
    BY <1>2, <2>1, <2>2, <2>3 DEF Register, TypeOK
<1>3. ASSUME NEW t \in Tasks, ReadForBeat(t) PROVE TypeOK'
  BY <1>3 DEF ReadForBeat, TypeOK
<1>4. ASSUME NEW t \in Tasks, Beat(t) PROVE TypeOK'
  <2>1. stamp[t] \in Millis /\ Elapsed(millis, stamp[t]) \in 0 .. AgeCap
    BY <1>4, BeatIsRecent, Bounds
  <2>2. age' \in [beat : [Tasks -> 0 .. AgeCap], round : 0 .. AgeCap]
    BY <1>4, <2>1 DEF Beat, TypeOK
  <2>3. t \in started /\ seen' \subseteq started /\ late' \subseteq seen'
    BY <1>4 DEF Beat, TypeOK, StartedMatches
  <2>4. covered' = covered /\ resets' \subseteq covered /\ timer' \in 0 .. HardwareTimeout
    BY <1>4, ResetResult, Bounds DEF Beat, TypeOK
  <2>5. /\ last' \in [Tasks -> Millis] /\ stamp' \in [Tasks -> Millis \cup {NoStamp}]
        /\ at' \in {"start", "beat", "grace", "judge", "sleep", "restart"}
    BY <1>4, <2>1 DEF Beat, TypeOK
  <2> QED
    BY <1>4, <2>2, <2>3, <2>4, <2>5 DEF Beat, TypeOK
<1>5. CASE SupervisorHangs
  BY <1>5 DEF SupervisorHangs, TypeOK
<1>6. CASE CheckGrace \/ Judge \/ Wake
  <2>1. age' \in [beat : [Tasks -> 0 .. AgeCap], round : 0 .. AgeCap]
    <3>1. age' = age \/ age' = [age EXCEPT !.round = 0]
      BY <1>6 DEF CheckGrace, Judge, Wake, Sleep
    <3> QED
      BY <3>1, Bounds DEF TypeOK
  <2>2. /\ at' \in {"start", "beat", "grace", "judge", "sleep", "restart"}
        /\ sampled' \in Millis
    BY <1>6 DEF CheckGrace, Judge, Wake, Sleep, TypeOK
  <2> QED
    BY <1>6, <2>1, <2>2 DEF CheckGrace, Judge, Wake, TypeOK
<1>7. CASE Restart \/ HardwareRestart
  BY <1>7, RebootInvariant DEF IInv
<1>8. CASE UNCHANGED vars
  BY <1>8 DEF vars, TypeOK
<1> QED
  BY <1>1, <1>2, <1>3, <1>4, <1>5, <1>6, <1>7, <1>8 DEF Next

\* A task reads the time for a beat after it has started.
LEMMA StartedMatchesStep ==
  ASSUME TypeOK, StartedMatches, [Next]_vars
  PROVE  StartedMatches'
<1>0. Supervisor \in Tasks /\ stamp \in [Tasks -> Millis \cup {NoStamp}]
  BY Bounds DEF TypeOK
<1>1. ASSUME NEW t \in Tasks, NEW succeeds \in BOOLEAN, Register(t, succeeds)
      PROVE  StartedMatches'
  BY <1>0, <1>1 DEF Register, StartedMatches
<1>2. ASSUME NEW t \in Tasks, ReadForBeat(t) PROVE StartedMatches'
  BY <1>0, <1>2 DEF ReadForBeat, StartedMatches
<1>3. ASSUME NEW t \in Tasks, Beat(t) PROVE StartedMatches'
  BY <1>0, <1>3 DEF Beat, StartedMatches
<1>4. CASE CheckGrace \/ Judge \/ Wake
  BY <1>0, <1>4 DEF CheckGrace, Judge, Wake, Sleep, StartedMatches
<1>5. CASE Restart \/ HardwareRestart
  BY <1>5, RebootInvariant DEF IInv
<1>6. CASE Advance \/ SupervisorHangs \/ UNCHANGED vars
  BY <1>6 DEF Advance, SupervisorHangs, vars, StartedMatches
<1> QED
  BY <1>1, <1>2, <1>3, <1>4, <1>5, <1>6 DEF Next

\* Between reading the time and using it no more than MaxSkew passes.
LEMMA ReadingsAreRecentStep ==
  ASSUME TypeOK, ReadingsAreRecent, [Next]_vars
  PROVE  ReadingsAreRecent'
<1>1. /\ millis \in Millis /\ Readings \subseteq Millis
      /\ stamp \in [Tasks -> Millis \cup {NoStamp}]
  BY DEF TypeOK, Readings
<1>2. CASE Advance
  <2>1. Readings' = Readings /\ millis' = Later(millis)
    BY <1>2 DEF Advance, Readings
  <2>2. ASSUME NEW r \in Readings PROVE Elapsed(Later(millis), r) <= MaxSkew
    <3>1. Elapsed(millis, r) < MaxSkew /\ Elapsed(millis, r) \in Nat
      BY <1>1, <1>2, ElapsedType DEF Advance
    <3> QED
      BY <1>1, <3>1, ElapsedLater, Bounds
  <2> QED
    BY <2>1, <2>2 DEF ReadingsAreRecent
<1>3. CASE millis' = millis /\ Readings' \subseteq Readings \cup {millis}
  BY <1>1, <1>3, ElapsedNow, Bounds DEF ReadingsAreRecent
<1>4. ASSUME NEW t \in Tasks, ReadForBeat(t)
      PROVE  millis' = millis /\ Readings' \subseteq Readings \cup {millis}
  BY <1>1, <1>4 DEF ReadForBeat, Readings
<1>5. ASSUME NEW t \in Tasks, Beat(t)
      PROVE  millis' = millis /\ Readings' \subseteq Readings
  BY <1>1, <1>5 DEF Beat, Readings
<1>6. CASE CheckGrace
  <2>1. millis' = millis /\ Readings' \subseteq Readings \cup {millis}
    BY <1>6 DEF CheckGrace, Readings, Sleep
  <2> QED
    BY <1>3, <2>1
<1>7. ASSUME NEW t \in Tasks, NEW succeeds \in BOOLEAN, Register(t, succeeds)
      PROVE  millis' = millis /\ Readings' \subseteq Readings
  BY <1>7 DEF Register, Readings
<1>8. CASE Judge \/ Wake \/ SupervisorHangs \/ UNCHANGED vars
  <2>1. millis' = millis /\ Readings' \subseteq Readings
    BY <1>8 DEF Judge, Wake, SupervisorHangs, vars, Readings, Sleep
  <2> QED
    BY <1>3, <2>1
<1>9. CASE Restart \/ HardwareRestart
  BY <1>9, RebootInvariant DEF IInv
<1> QED
  BY <1>2, <1>3, <1>4, <1>5, <1>6, <1>7, <1>8, <1>9 DEF Next

\* Real ages stay what the stamps say.
LEMMA AgesAreRealStep ==
  ASSUME TypeOK, ReadingsAreRecent, AgesAreReal, [Next]_vars
  PROVE  AgesAreReal'
<1>1. /\ millis \in Millis
      /\ \A t \in Tasks : last[t] \in Millis /\ age.beat[t] \in 0 .. AgeCap
  BY DEF TypeOK
<1>2. CASE Advance
  <2>1. millis' = Later(millis) /\ last' = last
    BY <1>2 DEF Advance
  <2>2. ASSUME NEW t \in Tasks, age'.beat[t] < AgeCap
        PROVE  Elapsed(Later(millis), last[t]) = age'.beat[t]
    <3>1. age'.beat[t] = Older(age.beat[t])
      BY <1>2, AgeOfTick
    <3>2. age.beat[t] < AgeCap /\ age'.beat[t] = age.beat[t] + 1
      BY <1>1, <2>2, <3>1, OlderType, Bounds
    <3>3. Elapsed(millis, last[t]) = age.beat[t]
      BY <3>2 DEF AgesAreReal
    <3> QED
      BY <1>1, <3>2, <3>3, ElapsedLater, Bounds
  <2> QED
    BY <2>1, <2>2 DEF AgesAreReal
<1>3. ASSUME NEW t \in Tasks, Beat(t) PROVE AgesAreReal'
  <2>1. /\ millis' = millis /\ last' = [last EXCEPT ![t] = stamp[t]]
        /\ age' = [age EXCEPT !.beat[t] = Elapsed(millis, stamp[t])]
    BY <1>3 DEF Beat
  <2>2. /\ age'.beat[t] = Elapsed(millis, stamp[t])
        /\ \A u \in Tasks \ {t} : age'.beat[u] = age.beat[u]
    BY <2>1, AgeOfBeat
  <2>3. /\ last'[t] = stamp[t]
        /\ \A u \in Tasks \ {t} : last'[u] = last[u]
    BY <2>1 DEF TypeOK
  <2> QED
    BY <2>1, <2>2, <2>3 DEF AgesAreReal
<1>4. CASE millis' = millis /\ last' = last /\ age'.beat = age.beat
  BY <1>4 DEF AgesAreReal
<1>5. CASE CheckGrace \/ Judge \/ Wake
  <2>1. /\ millis' = millis /\ last' = last
        /\ age' = age \/ age' = [age EXCEPT !.round = 0]
    BY <1>5 DEF CheckGrace, Judge, Wake, Sleep
  <2> QED
    BY <1>4, <2>1, AgeOfRound
<1>6. ASSUME NEW t \in Tasks, NEW succeeds \in BOOLEAN,
             Register(t, succeeds) \/ ReadForBeat(t)
      PROVE  millis' = millis /\ last' = last /\ age'.beat = age.beat
  BY <1>6 DEF Register, ReadForBeat
<1>7. CASE SupervisorHangs \/ UNCHANGED vars
  BY <1>4, <1>7 DEF SupervisorHangs, vars
<1>8. CASE Restart \/ HardwareRestart
  BY <1>8, RebootInvariant DEF IInv
<1> QED
  BY <1>2, <1>3, <1>4, <1>5, <1>6, <1>7, <1>8 DEF Next

\* How long WatchdogTask's round has lasted at most, wherever it is.
LEMMA RoundBound ==
  ASSUME TypeOK, StartedMatches, ReadingsAreRecent, RoundIsShort, ~hung, at # "restart"
  PROVE  /\ age.round \in 0 .. SupervisorPeriod + 2 * MaxSkew
         /\ at # "judge" => age.round <= SupervisorPeriod + MaxSkew
<1>1. /\ age.round \in Nat /\ millis \in Millis
      /\ at \in {"start", "beat", "grace", "judge", "sleep"}
      /\ Supervisor \in Tasks /\ stamp[Supervisor] \in Millis \cup {NoStamp}
  BY Bounds DEF TypeOK
<1>2. CASE at = "judge"
  BY <1>1, <1>2, JudgeIsRecent, Bounds DEF RoundIsShort
<1>3. CASE at = "beat" /\ stamp[Supervisor] # NoStamp
  <2>1. stamp[Supervisor] \in Readings /\ stamp[Supervisor] \in Millis
    BY <1>1, <1>3 DEF Readings
  <2>2. Elapsed(millis, stamp[Supervisor]) \in 0 .. MaxSkew
    BY <1>1, <2>1, ElapsedType, Bounds DEF ReadingsAreRecent
  <2> QED
    BY <1>1, <1>3, <2>2, Bounds DEF RoundIsShort
<1>4. CASE at = "beat" /\ stamp[Supervisor] = NoStamp
  BY <1>1, <1>4, Bounds DEF RoundIsShort
<1>5. CASE at \in {"start", "grace", "sleep"}
  BY <1>1, <1>5, Bounds DEF RoundIsShort
<1> QED
  BY <1>1, <1>2, <1>3, <1>4, <1>5

\* Unless WatchdogTask hangs, a tick finds it asleep, judging, or beating.
LEMMA TickFindsSupervisor ==
  ASSUME TypeOK, StartedMatches, ReadingsAreRecent, Advance, ~hung
  PROVE  \/ at = "sleep" /\ age.round < SupervisorPeriod
         \/ at = "judge" /\ Elapsed(millis, sampled) < MaxSkew
         \/ /\ at = "beat" /\ stamp[Supervisor] # NoStamp
            /\ Elapsed(millis, stamp[Supervisor]) < MaxSkew
<1>1. \A r \in Readings : Elapsed(millis, r) < MaxSkew
  BY DEF Advance
<1>2. CASE at = "sleep"
  BY <1>2 DEF Advance, SupervisorIsPrompt
<1>3. CASE at = "judge"
  BY <1>1, <1>3 DEF Readings
<1>4. CASE at \notin {"sleep", "judge"}
  <2>1. stamp[Supervisor] # NoStamp
    BY <1>4 DEF Advance, SupervisorIsPrompt
  <2>2. at = "beat" /\ stamp[Supervisor] \in Readings
    BY <2>1, Bounds DEF StartedMatches, Readings
  <2> QED
    BY <1>1, <2>1, <2>2
<1> QED
  BY <1>2, <1>3, <1>4

\* WatchdogTask stays short in every part of its loop.
LEMMA RoundIsShortStep ==
  ASSUME TypeOK, StartedMatches, ReadingsAreRecent, RoundIsShort, [Next]_vars
  PROVE  RoundIsShort'
<1>1. /\ age.round \in 0 .. AgeCap /\ millis \in Millis /\ sampled \in Millis
      /\ Supervisor \in Tasks /\ stamp \in [Tasks -> Millis \cup {NoStamp}]
      /\ NoStamp \notin Millis
  BY Bounds DEF TypeOK, NoStamp, Millis
<1>2. CASE Advance
  <2> SUFFICES ASSUME ~hung PROVE RoundIsShort'
    BY <1>2 DEF Advance, RoundIsShort
  <2>1. /\ millis' = Later(millis) /\ startup' = startup /\ at' = at
        /\ stamp' = stamp /\ sampled' = sampled
    BY <1>2 DEF Advance
  <2>2. age'.round = age.round + 1 /\ startup = 0
    <3>1. age.round < AgeCap
      BY <1>2, RoundBound, TickFindsSupervisor, Bounds
    <3> QED
      BY <1>1, <1>2, <3>1, AgeOfTick, OlderType DEF RoundIsShort
  <2>3. CASE at = "sleep" /\ age.round < SupervisorPeriod
    BY <1>1, <2>1, <2>2, <2>3, Bounds DEF RoundIsShort
  <2>4. CASE at = "judge" /\ Elapsed(millis, sampled) < MaxSkew
    <3>1. Elapsed(Later(millis), sampled) = Elapsed(millis, sampled) + 1
      BY <1>1, <2>4, ElapsedLater, ElapsedType, Bounds
    <3> QED
      BY <1>1, <2>1, <2>2, <2>4, <3>1, ElapsedType, Bounds DEF RoundIsShort
  <2>5. CASE /\ at = "beat" /\ stamp[Supervisor] # NoStamp
             /\ Elapsed(millis, stamp[Supervisor]) < MaxSkew
    <3>1. /\ Elapsed(millis, stamp[Supervisor]) \in Nat
          /\ Elapsed(Later(millis), stamp[Supervisor])
               = Elapsed(millis, stamp[Supervisor]) + 1
      BY <1>1, <2>5, ElapsedLater, ElapsedType, Bounds
    <3> QED
      BY <1>1, <2>1, <2>2, <2>5, <3>1, Bounds DEF RoundIsShort
  <2> QED
    BY <1>2, <2>3, <2>4, <2>5, TickFindsSupervisor
<1>3. ASSUME NEW t \in Tasks, NEW succeeds \in BOOLEAN, Register(t, succeeds)
      PROVE  RoundIsShort'
  <2>1. UNCHANGED <<millis, age, hung, stamp>>
    BY <1>3 DEF Register
  <2>2. CASE t = Supervisor
    <3>1. /\ at' = "beat" /\ startup' = millis /\ at = "start"
          /\ stamp[Supervisor] = NoStamp
      BY <1>3, <2>2 DEF Register, StartedMatches
    <3> QED
      BY <2>1, <3>1, Bounds DEF RoundIsShort
  <2>3. CASE t # Supervisor
    BY <1>3, <2>1, <2>3 DEF Register, RoundIsShort
  <2> QED
    BY <2>2, <2>3
<1>4. ASSUME NEW t \in Tasks, ReadForBeat(t) PROVE RoundIsShort'
  <2>1. UNCHANGED <<millis, age, hung, at, startup, sampled>>
    BY <1>4 DEF ReadForBeat
  <2>2. CASE t = Supervisor
    <3>1. at = "beat" /\ stamp[Supervisor] = NoStamp /\ stamp'[Supervisor] = millis
      BY <1>1, <1>4, <2>2 DEF ReadForBeat
    <3>2. Elapsed(millis, millis) = 0 /\ millis # NoStamp
      BY <1>1, ElapsedNow
    <3> QED
      BY <1>1, <2>1, <3>1, <3>2, Bounds DEF RoundIsShort
  <2>3. CASE t # Supervisor
    <3>1. stamp'[Supervisor] = stamp[Supervisor]
      BY <1>1, <1>4, <2>3 DEF ReadForBeat
    <3> QED
      BY <2>1, <3>1 DEF RoundIsShort
  <2> QED
    BY <2>2, <2>3
<1>5. ASSUME NEW t \in Tasks, Beat(t) PROVE RoundIsShort'
  <2>1. /\ UNCHANGED <<millis, hung, startup, sampled>> /\ age'.round = age.round
        /\ stamp' = [stamp EXCEPT ![t] = NoStamp]
    BY <1>5, AgeOfBeat DEF Beat
  <2>2. CASE t = Supervisor
    <3>1. at = "beat" /\ ~hung /\ at' = "grace"
      BY <1>5, <2>2 DEF Beat, StartedMatches
    <3> QED
      BY <2>1, <3>1, RoundBound DEF RoundIsShort
  <2>3. CASE t # Supervisor
    <3>1. stamp'[Supervisor] = stamp[Supervisor] /\ at' = at
      BY <1>1, <1>5, <2>1, <2>3 DEF Beat
    <3> QED
      BY <2>1, <3>1 DEF RoundIsShort
  <2> QED
    BY <2>2, <2>3
<1>6. CASE CheckGrace
  <2>1. /\ UNCHANGED <<millis, hung, startup, stamp>> /\ ~hung /\ at = "grace"
        /\ \/ at' = "judge" /\ sampled' = millis /\ age' = age
           \/ at' = "sleep" /\ age' = [age EXCEPT !.round = 0]
    BY <1>6 DEF CheckGrace, Sleep
  <2> QED
    BY <1>1, <2>1, AgeOfRound, ElapsedNow, Bounds DEF RoundIsShort
<1>7. CASE Judge \/ Wake
  <2>1. /\ UNCHANGED <<millis, hung, startup, stamp, sampled>> /\ ~hung
        /\ \/ at' = "sleep" /\ age' = [age EXCEPT !.round = 0]
           \/ at' = "restart" /\ age' = age
           \/ at = "sleep" /\ at' = "beat" /\ age' = age
    BY <1>7 DEF Judge, Wake, Sleep
  <2>2. at # "beat" => stamp[Supervisor] = NoStamp
    BY DEF StartedMatches
  <2> QED
    BY <1>1, <2>1, <2>2, AgeOfRound, Bounds DEF RoundIsShort
<1>8. CASE SupervisorHangs
  BY <1>8 DEF SupervisorHangs, RoundIsShort
<1>9. CASE Restart \/ HardwareRestart
  BY <1>9, RebootInvariant DEF IInv
<1>10. CASE UNCHANGED vars
  BY <1>10 DEF vars, RoundIsShort
<1> QED
  BY <1>2, <1>3, <1>4, <1>5, <1>6, <1>7, <1>8, <1>9, <1>10 DEF Next

\* As long as WatchdogTask goes on, no task gets older than NoticeBound unnoticed.
LEMMA AgeBound ==
  ASSUME TypeOK, StartedMatches, ReadingsAreRecent, RoundIsShort, TasksAreJudged,
         ~hung, at # "restart", NEW t \in Tasks
  PROVE  age.beat[t] <= NoticeBound
<1>1. age.round \in 0 .. SupervisorPeriod + 2 * MaxSkew
  BY RoundBound
<1>2. age.beat[t] \in Nat /\ millis \in Nat
  BY Bounds DEF TypeOK, Millis
<1>3. CASE age.beat[t] <= HeartbeatTimeout + MaxSkew + age.round
  BY <1>1, <1>2, <1>3, Bounds
<1>4. CASE /\ age.round <= millis /\ millis - age.round < StartupGrace
           /\ age.beat[t] <= HeartbeatTimeout + SupervisorPeriod + 2 * MaxSkew + millis
  BY <1>1, <1>2, <1>4, Bounds
<1> QED
  BY <1>3, <1>4 DEF TasksAreJudged, YoungEnough, InGrace

\* The judgements and the startup grace keep every task young enough.
LEMMA TasksAreJudgedStep ==
  ASSUME TypeOK, StartedMatches, ReadingsAreRecent, AgesAreReal, RoundIsShort,
         TasksAreJudged, [Next]_vars
  PROVE  TasksAreJudged'
<1>1. /\ age.round \in Nat /\ millis \in Millis /\ millis \in Nat
      /\ sampled \in Millis /\ hung \in BOOLEAN
  BY Bounds DEF TypeOK, Millis
<1>2. \A t \in Tasks : age.beat[t] \in 0 .. AgeCap /\ last[t] \in Millis
  BY DEF TypeOK
<1>3. CASE Advance
  <2> SUFFICES ASSUME ~hung, NEW t \in Tasks PROVE YoungEnough(t)'
    BY <1>3 DEF Advance, TasksAreJudged
  <2>1. age'.round = age.round + 1 /\ age.round <= SupervisorPeriod + 2 * MaxSkew
    <3>1. age.round \in 0 .. SupervisorPeriod + 2 * MaxSkew
      BY <1>3, RoundBound, TickFindsSupervisor
    <3>2. age'.round = Older(age.round) /\ age.round \in 0 .. AgeCap /\ age.round < AgeCap
      BY <1>3, <3>1, AgeOfTick, Bounds
    <3> QED
      BY <3>1, <3>2, OlderType
  <2>2. age'.beat[t] \in Nat /\ age'.beat[t] <= age.beat[t] + 1
    BY <1>2, <1>3, AgeOfTick, OlderType, Bounds
  <2>3. millis' = Later(millis)
    BY <1>3 DEF Advance
  <2>4. YoungEnough(t)
    BY DEF TasksAreJudged
  <2>5. CASE age.beat[t] <= HeartbeatTimeout + MaxSkew + age.round
    BY <1>1, <1>2, <2>1, <2>2, <2>5, Bounds DEF YoungEnough
  <2>6. CASE /\ age.round <= millis /\ millis - age.round < StartupGrace
             /\ age.beat[t] <= HeartbeatTimeout + SupervisorPeriod + 2 * MaxSkew + millis
    <3>1. millis' = millis + 1
      BY <1>1, <2>1, <2>3, <2>6, Bounds DEF Later
    <3> QED
      BY <1>1, <1>2, <2>1, <2>2, <2>6, <3>1, Bounds DEF YoungEnough, InGrace
  <2> QED
    BY <2>4, <2>5, <2>6 DEF YoungEnough, InGrace
<1>4. CASE UNCHANGED <<millis, age, hung>>
  BY <1>4 DEF TasksAreJudged, YoungEnough, InGrace
<1>5. ASSUME NEW t \in Tasks, NEW succeeds \in BOOLEAN,
             Register(t, succeeds) \/ ReadForBeat(t)
      PROVE  UNCHANGED <<millis, age, hung>>
  BY <1>5 DEF Register, ReadForBeat
<1>6. ASSUME NEW t \in Tasks, Beat(t) PROVE TasksAreJudged'
  <2>1. /\ UNCHANGED <<millis, hung>>
        /\ age' = [age EXCEPT !.beat[t] = Elapsed(millis, stamp[t])]
    BY <1>6 DEF Beat
  <2>2. /\ age'.round = age.round /\ age'.beat[t] = Elapsed(millis, stamp[t])
        /\ \A u \in Tasks \ {t} : age'.beat[u] = age.beat[u]
    BY <2>1, AgeOfBeat
  <2>3. age'.beat[t] \in Nat /\ age'.beat[t] <= HeartbeatTimeout + MaxSkew + age.round
    BY <1>1, <1>6, <2>2, BeatIsRecent, Bounds
  <2> QED
    BY <2>1, <2>2, <2>3 DEF TasksAreJudged, YoungEnough, InGrace
<1>7. CASE CheckGrace
  <2>1. /\ UNCHANGED <<millis, hung>> /\ ~hung /\ at = "grace" /\ startup = 0
        /\ \/ age' = age
           \/ ~(Elapsed(millis, startup) >= StartupGrace) /\ age' = [age EXCEPT !.round = 0]
    BY <1>7 DEF CheckGrace, Sleep, RoundIsShort
  <2>2. CASE age' = age
    BY <1>4, <2>1, <2>2
  <2>3. CASE ~(millis >= StartupGrace) /\ age' = [age EXCEPT !.round = 0]
    <3>1. age'.round = 0 /\ age'.beat = age.beat
      BY <2>3, AgeOfRound
    <3>2. InGrace'
      BY <1>1, <2>1, <2>3, <3>1, Bounds DEF InGrace
    <3>3. ASSUME NEW t \in Tasks
          PROVE  age.beat[t] <= HeartbeatTimeout + SupervisorPeriod + 2 * MaxSkew + millis
      <4>1. age.round <= SupervisorPeriod + MaxSkew
        BY <2>1, RoundBound
      <4> QED
        BY <1>1, <1>2, <2>1, <4>1, Bounds DEF TasksAreJudged, YoungEnough
    <3> QED
      BY <2>1, <3>1, <3>2, <3>3 DEF TasksAreJudged, YoungEnough
  <2> QED
    BY <1>1, <2>1, <2>2, <2>3, ElapsedSinceZero
<1>8. CASE Judge
  <2>1. /\ UNCHANGED <<millis, hung>> /\ ~hung /\ at = "judge"
        /\ age' = age \/ (Stale(sampled) = {} /\ age' = [age EXCEPT !.round = 0])
    BY <1>8 DEF Judge, Sleep
  <2>2. CASE Stale(sampled) = {} /\ age' = [age EXCEPT !.round = 0]
    <3>1. age'.round = 0 /\ age'.beat = age.beat
      BY <2>2, AgeOfRound
    <3>2. ASSUME NEW t \in Tasks PROVE age.beat[t] <= HeartbeatTimeout + MaxSkew
      <4>1. Elapsed(sampled, last[t]) \in Nat /\ ~(Elapsed(sampled, last[t]) > HeartbeatTimeout)
        BY <1>1, <1>2, <2>2, ElapsedType DEF Stale
      <4>2. Elapsed(millis, sampled) \in 0 .. MaxSkew
        BY <2>1, JudgeIsRecent
      <4>3. Elapsed(millis, last[t]) <= HeartbeatTimeout + MaxSkew
        <5>1. /\ Elapsed(millis, sampled) + Elapsed(sampled, last[t])
                   <= HeartbeatTimeout + MaxSkew
              /\ Elapsed(millis, sampled) + Elapsed(sampled, last[t]) < Wrap
          BY <4>1, <4>2, Bounds
        <5>2. millis \in Millis /\ sampled \in Millis /\ last[t] \in Millis
          BY <1>1, <1>2
        <5> QED
          BY <5>1, <5>2, ElapsedAdds
      <4>4. age.beat[t] <= NoticeBound
        BY <2>1, AgeBound
      <4>5. Elapsed(millis, last[t]) = age.beat[t]
        BY <1>2, <4>4, Bounds DEF AgesAreReal
      <4> QED
        BY <4>3, <4>5
    <3> QED
      BY <1>2, <2>1, <3>1, <3>2, Bounds DEF TasksAreJudged, YoungEnough
  <2> QED
    BY <1>4, <2>1, <2>2
<1>9. CASE Wake
  BY <1>4, <1>9 DEF Wake
<1>10. CASE SupervisorHangs
  BY <1>10 DEF SupervisorHangs, TasksAreJudged
<1>11. CASE Restart \/ HardwareRestart
  BY <1>11, RebootInvariant DEF IInv
<1>12. CASE UNCHANGED vars
  BY <1>4, <1>12 DEF vars
<1> QED
  BY <1>3, <1>4, <1>5, <1>6, <1>7, <1>8, <1>9, <1>10, <1>11, <1>12 DEF Next

\* The timer of the task watchdog goes on waiting for a task that is silent.
LEMMA TimerWaitsStep ==
  ASSUME TypeOK, StartedMatches, ReadingsAreRecent, TimerWaits, [Next]_vars
  PROVE  TimerWaits'
<1>1. /\ timer \in 0 .. HardwareTimeout /\ resets \subseteq covered
      /\ covered \subseteq started /\ started \subseteq Tasks
      /\ \A t \in Tasks : age.beat[t] \in 0 .. AgeCap
  BY DEF TypeOK
<1>2. CASE Advance
  <2>1. /\ UNCHANGED <<covered, resets, started>> /\ timer < HardwareTimeout
        /\ timer' = IF covered = {} THEN 0 ELSE timer + 1
    BY <1>2 DEF Advance
  <2>2. ASSUME NEW t \in Tasks \ resets, t \in covered \/ t \notin started
        PROVE  timer' <= age'.beat[t]
    <3>1. timer <= age.beat[t] /\ age'.beat[t] = Older(age.beat[t])
      BY <1>2, <2>2, AgeOfTick DEF TimerWaits
    <3> QED
      BY <1>1, <2>1, <3>1, OlderType, Bounds
  <2> QED
    BY <2>1, <2>2 DEF TimerWaits
<1>3. ASSUME NEW t \in Tasks, NEW succeeds \in BOOLEAN, Register(t, succeeds)
      PROVE  TimerWaits'
  <2>1. /\ UNCHANGED <<age, resets, timer>> /\ t \notin started
        /\ started' = started \cup {t}
        /\ covered' = covered \cup {t} \/ covered' = covered
    BY <1>3 DEF Register
  <2>2. \A u \in Tasks \ resets' :
          u \in covered' \/ u \notin started' => u \in covered \/ u \notin started
    BY <2>1
  <2>3. (covered' = {} => timer' = 0) /\ (covered' # {} => resets' # covered')
    BY <1>1, <2>1 DEF TimerWaits
  <2> QED
    BY <2>1, <2>2, <2>3 DEF TimerWaits
<1>4. ASSUME NEW t \in Tasks, Beat(t) PROVE TimerWaits'
  <2>1. /\ age' = [age EXCEPT !.beat[t] = Elapsed(millis, stamp[t])]
        /\ started' = started /\ t \in started /\ ResetTaskWatchdog(t)
    BY <1>4 DEF Beat, StartedMatches
  <2>2. /\ age'.beat[t] \in Nat
        /\ \A u \in Tasks \ {t} : age'.beat[u] = age.beat[u]
    BY <1>4, <2>1, AgeOfBeat, BeatIsRecent
  <2>3. covered' = covered
    BY <2>1, ResetResult
  <2>4. CASE resets \cup {t} = covered /\ resets' = {} /\ timer' = 0
    <3>1. \A u \in Tasks : 0 <= age'.beat[u]
      BY <1>1, <2>2
    <3> QED
      BY <2>3, <2>4, <3>1 DEF TimerWaits
  <2>5. CASE /\ resets \cup {t} # covered
             /\ resets' = (resets \cup {t}) \cap covered /\ timer' = timer
    <3>1. covered # {} => resets' # covered
      BY <1>1, <2>5 DEF TimerWaits
    <3>2. \A u \in Tasks \ resets' : u \in covered \/ u \notin started =>
            u # t /\ u \notin resets
      BY <1>1, <2>1, <2>5
    <3> QED
      BY <2>1, <2>2, <2>3, <2>5, <3>1, <3>2 DEF TimerWaits
  <2> QED
    BY <2>1, <2>4, <2>5, ResetResult
<1>5. CASE UNCHANGED <<covered, resets, timer, started>> /\ age'.beat = age.beat
  BY <1>5 DEF TimerWaits
<1>6. ASSUME NEW t \in Tasks, ReadForBeat(t) PROVE TimerWaits'
  BY <1>5, <1>6 DEF ReadForBeat
<1>7. CASE CheckGrace \/ Judge \/ Wake \/ SupervisorHangs
  <2>1. /\ UNCHANGED <<covered, resets, timer, started>>
        /\ age' = age \/ age' = [age EXCEPT !.round = 0]
    BY <1>7 DEF CheckGrace, Judge, Wake, SupervisorHangs, Sleep
  <2> QED
    BY <1>5, <2>1, AgeOfRound
<1>8. CASE Restart \/ HardwareRestart
  BY <1>8, RebootInvariant DEF IInv
<1>9. CASE UNCHANGED vars
  BY <1>5, <1>9 DEF vars
<1> QED
  BY <1>2, <1>3, <1>4, <1>6, <1>7, <1>8, <1>9 DEF Next

\* Every task that the task watchdog covers goes on resetting it.
LEMMA ResetsAreRecentStep ==
  ASSUME TypeOK, StartedMatches, ReadingsAreRecent, ResetsAreRecent, [Next]_vars
  PROVE  ResetsAreRecent'
<1>1. /\ timer \in 0 .. HardwareTimeout /\ resets \subseteq covered /\ failures \in Nat
      /\ covered \subseteq started /\ seen \subseteq started /\ started \subseteq Tasks
      /\ \A t \in Tasks : age.beat[t] \in 0 .. AgeCap
  BY DEF TypeOK
<1>2. CASE Advance
  <2> SUFFICES ASSUME failures = 0 PROVE ResetsAreRecent'
    BY <1>2 DEF Advance, ResetsAreRecent
  <2>1. /\ UNCHANGED <<covered, resets, started, seen, failures>>
        /\ timer' = IF covered = {} THEN 0 ELSE timer + 1
    BY <1>2 DEF Advance
  <2>2. ASSUME NEW t \in seen
        PROVE  age'.beat[t] <= MaxSkew + timer'
                 + (IF t \in resets THEN 0 ELSE HardwareTimeout)
    <3>1. timer' = timer + 1
      BY <1>1, <2>1, <2>2 DEF ResetsAreRecent
    <3>2. age'.beat[t] <= age.beat[t] + 1 /\ age'.beat[t] \in Nat
      BY <1>1, <1>2, <2>2, AgeOfTick, OlderType, Bounds
    <3>3. age.beat[t] <= MaxSkew + timer + (IF t \in resets THEN 0 ELSE HardwareTimeout)
      BY <2>2 DEF ResetsAreRecent
    <3> QED
      BY <1>1, <2>2, <3>1, <3>2, <3>3, Bounds
  <2> QED
    BY <2>1, <2>2 DEF ResetsAreRecent
<1>3. ASSUME NEW t \in Tasks, NEW succeeds \in BOOLEAN, Register(t, succeeds)
      PROVE  ResetsAreRecent'
  <2>1. /\ UNCHANGED <<age, resets, timer, seen>> /\ started' = started \cup {t}
        /\ \/ covered' = covered \cup {t} /\ failures' = failures
           \/ failures' = failures + 1
    BY <1>3 DEF Register
  <2> QED
    BY <1>1, <2>1 DEF ResetsAreRecent
<1>4. ASSUME NEW t \in Tasks, Beat(t) PROVE ResetsAreRecent'
  <2> SUFFICES ASSUME failures = 0 PROVE ResetsAreRecent'
    BY <1>4 DEF Beat, ResetsAreRecent
  <2>1. /\ age' = [age EXCEPT !.beat[t] = Elapsed(millis, stamp[t])]
        /\ started' = started /\ failures' = failures /\ seen' = seen \cup {t}
        /\ t \in started /\ ResetTaskWatchdog(t)
    BY <1>4 DEF Beat, StartedMatches
  <2>2. /\ age'.beat[t] \in 0 .. MaxSkew
        /\ \A u \in Tasks \ {t} : age'.beat[u] = age.beat[u]
    BY <1>4, <2>1, AgeOfBeat, BeatIsRecent
  <2>3. covered' = covered /\ started \subseteq covered /\ t \in covered
    BY <2>1, ResetResult DEF ResetsAreRecent
  <2>4. \A u \in seen :
          age.beat[u] <= MaxSkew + timer + (IF u \in resets THEN 0 ELSE HardwareTimeout)
    BY DEF ResetsAreRecent
  <2>5. CASE resets \cup {t} = covered /\ resets' = {} /\ timer' = 0
    <3>1. ASSUME NEW u \in seen' PROVE age'.beat[u] <= MaxSkew + HardwareTimeout
      <4>1. CASE u = t
        BY <2>2, <4>1, Bounds
      <4>2. CASE u # t
        <5>1. u \in resets /\ u \in seen /\ u \in Tasks
          BY <1>1, <2>1, <2>3, <2>5, <3>1, <4>2
        <5>2. age.beat[u] <= MaxSkew + timer
          BY <1>1, <2>4, <5>1, Bounds
        <5> QED
          BY <1>1, <2>2, <4>2, <5>1, <5>2, Bounds
      <4> QED
        BY <4>1, <4>2
    <3> QED
      BY <1>1, <2>1, <2>3, <2>5, <3>1, Bounds DEF ResetsAreRecent
  <2>6. CASE /\ resets \cup {t} # covered
             /\ resets' = (resets \cup {t}) \cap covered /\ timer' = timer
    <3>1. t \in resets' /\ \A u \in seen \ {t} : u \in resets' <=> u \in resets
      BY <1>1, <2>3, <2>6
    <3>2. age'.beat[t] <= MaxSkew + timer
      BY <1>1, <2>2, Bounds
    <3>3. \A u \in seen' \ {t} :
            age'.beat[u] <= MaxSkew + timer + (IF u \in resets' THEN 0 ELSE HardwareTimeout)
      BY <1>1, <2>1, <2>2, <2>4, <3>1
    <3>4. age'.beat[t] <= MaxSkew + timer + (IF t \in resets' THEN 0 ELSE HardwareTimeout)
      BY <1>1, <3>1, <3>2, Bounds
    <3> QED
      BY <2>1, <2>3, <2>6, <3>3, <3>4 DEF ResetsAreRecent
  <2> QED
    BY <2>1, <2>5, <2>6, ResetResult
<1>5. CASE /\ UNCHANGED <<covered, resets, timer, started, seen, failures>>
           /\ age'.beat = age.beat
  BY <1>5 DEF ResetsAreRecent
<1>6. ASSUME NEW t \in Tasks, ReadForBeat(t) PROVE ResetsAreRecent'
  BY <1>5, <1>6 DEF ReadForBeat
<1>7. CASE CheckGrace \/ Judge \/ Wake \/ SupervisorHangs
  <2>1. /\ UNCHANGED <<covered, resets, timer, started, seen, failures>>
        /\ age' = age \/ age' = [age EXCEPT !.round = 0]
    BY <1>7 DEF CheckGrace, Judge, Wake, SupervisorHangs, Sleep
  <2> QED
    BY <1>5, <2>1, AgeOfRound
<1>8. CASE Restart \/ HardwareRestart
  BY <1>8, RebootInvariant DEF IInv
<1>9. CASE UNCHANGED vars
  BY <1>5, <1>9 DEF vars
<1> QED
  BY <1>2, <1>3, <1>4, <1>6, <1>7, <1>8, <1>9 DEF Next

-----------------------------------------------------------------------------
(***************************************************************************)
(* The theorems.                                                           *)
(***************************************************************************)

\* Every step keeps the inductive invariant.
LEMMA InvariantStep == IInv /\ [Next]_vars => IInv'
<1> SUFFICES ASSUME IInv, [Next]_vars PROVE IInv'
  OBVIOUS
<1>1. TypeOK' /\ StartedMatches' /\ ReadingsAreRecent' /\ AgesAreReal'
  BY TypeStep, StartedMatchesStep, ReadingsAreRecentStep, AgesAreRealStep DEF IInv
<1>2. RoundIsShort' /\ TasksAreJudged'
  BY RoundIsShortStep, TasksAreJudgedStep DEF IInv
<1>3. TimerWaits' /\ ResetsAreRecent'
  BY TimerWaitsStep, ResetsAreRecentStep DEF IInv
<1> QED
  BY <1>1, <1>2, <1>3 DEF IInv

\* The inductive invariant of the supervision holds at all times.
THEOREM Invariance == Spec => []IInv
BY InitInvariant, InvariantStep, PTL DEF Spec

\* Stamps, counters and sets keep to their types.
THEOREM TypeCorrect == Spec => []TypeOK
<1>1. IInv => TypeOK
  BY DEF IInv
<1> QED
  BY <1>1, Invariance, PTL

\* While WatchdogTask goes on, a task that is silent for more than NoticeBound has
\* been noticed: the controller is about to restart.
THEOREM SilenceIsNoticed == Spec => []SilentTaskIsNoticed
<1>1. IInv => SilentTaskIsNoticed
  <2> SUFFICES ASSUME IInv, ~hung, at # "restart", NEW t \in Tasks
               PROVE  ~(age.beat[t] > NoticeBound)
    BY DEF SilentTaskIsNoticed
  <2>1. age.beat[t] <= NoticeBound
    BY AgeBound DEF IInv
  <2>2. age.beat[t] \in Nat
    BY Bounds DEF IInv, TypeOK
  <2> QED
    BY <2>1, <2>2, Bounds
<1> QED
  BY <1>1, Invariance, PTL

\* Without a failed registration no task that has ever beaten is silent for more
\* than HangBound, WatchdogTask included: the task watchdog catches it.
THEOREM HangsAreCaught == Spec => []EveryHangIsCaught
<1>1. IInv => EveryHangIsCaught
  <2> SUFFICES ASSUME IInv, failures = 0, NEW t \in seen
               PROVE  age.beat[t] <= HangBound
    BY DEF EveryHangIsCaught
  <2>1. timer \in 0 .. HardwareTimeout /\ age.beat[t] \in Nat
    BY Bounds DEF IInv, TypeOK
  <2>2. age.beat[t] <= MaxSkew + timer + (IF t \in resets THEN 0 ELSE HardwareTimeout)
    BY DEF IInv, ResetsAreRecent
  <2> QED
    BY <2>1, <2>2, Bounds
<1> QED
  BY <1>1, Invariance, PTL

\* A restart by WatchdogTask has a cause in real time.
LEMMA RestartHasACauseStep == IInv /\ [Next]_vars => [RestartHasACause]_vars
<1> SUFFICES ASSUME IInv, Next, at = "judge", at' = "restart"
             PROVE  \E t \in Tasks : \/ age.beat[t] > HeartbeatTimeout
                                     \/ t \notin seen
                                     \/ age.beat[t] < Elapsed(millis, sampled)
  BY DEF RestartHasACause
<1>1. Judge
  BY DEF Next, Advance, Register, ReadForBeat, Beat, SupervisorHangs, CheckGrace, Wake,
         Restart, HardwareRestart, Reboot, Sleep
<1>2. PICK t \in Tasks : t \notin seen \/ Elapsed(sampled, last[t]) > HeartbeatTimeout
  BY <1>1 DEF Judge, Stale, Sleep
<1>3. /\ millis \in Millis /\ sampled \in Millis /\ last[t] \in Millis
      /\ age.beat[t] \in 0 .. AgeCap
  BY DEF IInv, TypeOK
<1>4. Elapsed(millis, sampled) \in 0 .. MaxSkew
  BY <1>1, JudgeIsRecent DEF IInv, Judge
<1>5. CASE /\ t \in seen /\ age.beat[t] <= HeartbeatTimeout
           /\ Elapsed(millis, sampled) <= age.beat[t]
  <2>1. Elapsed(millis, last[t]) = age.beat[t]
    BY <1>3, <1>5, Bounds DEF IInv, AgesAreReal
  <2>2. Elapsed(sampled, last[t]) = age.beat[t] - Elapsed(millis, sampled)
    BY <1>3, <1>5, <2>1, ElapsedSplits
  <2> QED
    BY <1>2, <1>3, <1>4, <1>5, <2>2, Bounds
<1> QED
  BY <1>3, <1>4, <1>5, Bounds

\* WatchdogTask restarts the controller only for a task that never beat, that was
\* silent for more than the timeout, or that beat after the time was read.
THEOREM RestartsHaveACause == Spec => RestartsForACause
BY Invariance, RestartHasACauseStep, PTL DEF Spec, RestartsForACause

\* When the timer of the task watchdog has run out, a task it covers has been
\* silent for that long: WatchdogTask would have noticed first.
LEMMA SecondLineStep == IInv /\ [Next]_vars => [IsSecondLine]_vars
<1> SUFFICES ASSUME IInv, Next, started # {}, started' = {}, at # "restart", ~hung
             PROVE  Elapsed(millis, startup)
                      <= StartupGrace + SupervisorPeriod + 2 * MaxSkew
  BY DEF IsSecondLine
<1>1. timer = HardwareTimeout
  BY DEF Next, Advance, Register, ReadForBeat, Beat, SupervisorHangs, CheckGrace, Judge,
         Wake, Restart, HardwareRestart
<1>2. /\ millis \in Millis /\ millis \in Nat /\ resets \subseteq covered
      /\ covered \subseteq Tasks
      /\ \A t \in Tasks : age.beat[t] \in Nat
  BY Bounds DEF IInv, TypeOK, Millis
<1>3. PICK t \in Tasks : t \in covered /\ t \notin resets
  BY <1>1, <1>2, Bounds DEF IInv, TimerWaits
<1>4. HardwareTimeout <= age.beat[t]
  BY <1>1, <1>3 DEF IInv, TimerWaits
<1>5. age.round \in 0 .. SupervisorPeriod + 2 * MaxSkew
  BY RoundBound DEF IInv
<1>6. age.round <= millis /\ millis - age.round < StartupGrace
  BY <1>2, <1>4, <1>5, Bounds DEF IInv, TasksAreJudged, YoungEnough, InGrace
<1>7. Elapsed(millis, startup) = millis
  BY <1>2, ElapsedSinceZero DEF IInv, RoundIsShort
<1> QED
  BY <1>2, <1>5, <1>6, <1>7, Bounds

\* Outside the startup grace and a round after it, the task watchdog restarts the
\* controller only when WatchdogTask itself hangs.
THEOREM TaskWatchdogIsSecond == Spec => HardwareIsSecondLine
BY Invariance, SecondLineStep, PTL DEF Spec, HardwareIsSecondLine
=============================================================================
