--------------------------- MODULE NetworkProofs ---------------------------
(***************************************************************************)
(* Proofs about Network, for every set of reports and all intervals and    *)
(* ranges of millis() that its assumptions allow.                          *)
(***************************************************************************)
EXTENDS Network, BasicLemmas

USE DEF outside, connection

\* A task that has just been created: its first MQTT attempt is due at once, for
\* which the time of the last one is put an interval before power-up.
LEMMA NewTaskType == NewTask \in TaskType /\ NoReport \in Topics /\ ~NewTask.timeSynchronized
<1>1. Elapsed(0, ReconnectInterval) \in Millis /\ 0 \in Millis
  <2>1. ReconnectInterval \in Millis
    BY NetworkAssumption, ClockAssumption DEF Millis
  <2> QED
    BY <2>1, ZeroIsMillis, ElapsedType
<1>2. NoReport \in AnyReport
  BY DEF AnyReport
<1>3. NoReport \in Topics
  <2>1. NoReport.state \in {r.state : r \in AnyReport}
    BY <1>2
  <2>2. NoReport.fault \in {r.fault : r \in AnyReport}
    BY <1>2
  <2> QED
    BY <2>1, <2>2 DEF NoReport, Topics
<1> QED
  BY <1>1, <1>2, <1>3 DEF NewTask, TaskType

\* Publishing keeps the topics what reports can say, on the broker and in the
\* task's memory of them.
LEMMA PublishType ==
  ASSUME TypeOK, NEW succeeds, Publish(succeeds)
  PROVE  broker' \in Topics /\ task' \in TaskType
<1>1. /\ broker \in Topics /\ task \in TaskType
      /\ DOMAIN broker = {"state", "fault"}
  BY DEF TypeOK, Topics
<1>2. task.snapshot \in AnyReport /\ task.published \in Topics
  BY <1>1 DEF TaskType
<1>3. /\ task.snapshot["state"] \in {r.state : r \in AnyReport}
      /\ task.snapshot["fault"] \in {r.fault : r \in AnyReport}
  BY <1>2
<1>4. broker' \in Topics
  BY <1>1, <1>3 DEF Publish, Topics
<1> DEFINE remembered == [f \in DOMAIN broker |->
                            IF Fresh \/ (Sends(f) /\ f \in succeeds)
                              THEN task.snapshot[f] ELSE task.published[f]]
<1>5. remembered \in Topics
  BY <1>1, <1>2, <1>3 DEF Topics
<1>6. task' = [task EXCEPT !.at = "wifi", !.snapshot = NoReport, !.published = remembered]
  BY DEF Publish
<1> HIDE DEF remembered
<1>7. NoReport \in AnyReport
  BY DEF AnyReport
<1> QED
  BY <1>1, <1>4, <1>5, <1>6, <1>7 DEF TaskType

\* Power-up and restart leave the task new and the time unknown to it.
LEMMA InitInvariant == Init => TimeIsKnown
<1> SUFFICES ASSUME Init PROVE TimeIsKnown
  OBVIOUS
<1>1. task \in TaskType /\ broker \in Topics /\ ~task.timeSynchronized
  BY NewTaskType DEF Init
<1>2. millis \in Millis
  BY ZeroIsMillis DEF Init
<1>3. /\ link \in BOOLEAN /\ clockValid \in BOOLEAN /\ session \in BOOLEAN
      /\ announced \in BOOLEAN /\ managerTime \in BOOLEAN
  BY DEF Init
<1> QED
  BY <1>1, <1>2, <1>3 DEF Init, TimeIsKnown, TypeOK

\* What happens outside the task, a restart included.
LEMMA OutsideStep ==
  ASSUME TimeIsKnown,
         \/ Advance \/ LinkChanges \/ NtpAnswers \/ SessionDrops \/ ProtectionChanges
         \/ Restart \/ UNCHANGED vars
  PROVE  TimeIsKnown'
<1>1. TypeOK
  BY DEF TimeIsKnown
<1>2. CASE Advance
  BY <1>1, <1>2, LaterType DEF Advance, TimeIsKnown, TypeOK
<1>3. CASE LinkChanges
  <2>1. link' \in BOOLEAN
    BY <1>3 DEF LinkChanges
  <2> QED
    BY <1>3, <2>1 DEF LinkChanges, TimeIsKnown, TypeOK
<1>4. CASE NtpAnswers
  BY <1>4 DEF NtpAnswers, TimeIsKnown, TypeOK
<1>5. CASE SessionDrops
  BY <1>5 DEF SessionDrops, TimeIsKnown, TypeOK
<1>6. CASE ProtectionChanges
  BY <1>6 DEF ProtectionChanges, TimeIsKnown, TypeOK
<1>7. CASE Restart
  <2>1. task' \in TaskType /\ ~task'.timeSynchronized
    BY <1>7, NewTaskType DEF Restart
  <2>2. /\ link' \in BOOLEAN /\ session' \in BOOLEAN
        /\ announced' \in BOOLEAN /\ managerTime' \in BOOLEAN
    BY <1>7 DEF Restart
  <2>5. clockValid' \in BOOLEAN
    <3>1. clockValid' = clockValid \/ clockValid' = FALSE
      BY <1>7 DEF Restart
    <3> QED
      BY <1>1, <3>1 DEF TypeOK
  <2>3. millis' \in Millis /\ protection' \in Reports /\ broker' = broker
    BY <1>7, ZeroIsMillis DEF Restart
  <2>4. TypeOK'
    BY <1>1, <2>1, <2>2, <2>3, <2>5 DEF TypeOK
  <2> QED
    BY <1>7, <2>1, <2>4 DEF Restart, TimeIsKnown
<1>8. CASE UNCHANGED vars
  BY <1>8 DEF vars, TimeIsKnown, TypeOK
<1> QED
  BY <1>2, <1>3, <1>4, <1>5, <1>6, <1>7, <1>8

\* A round of the task: it takes the time for known when NTP has set it, and opens
\* a session only then.
LEMMA RoundStep ==
  ASSUME TimeIsKnown, Round
  PROVE  TimeIsKnown'
<1>1. /\ TypeOK /\ task \in TaskType /\ millis \in Millis
      /\ session \in BOOLEAN /\ clockValid \in BOOLEAN
  BY DEF TimeIsKnown, TypeOK
<1>2. CASE LinkIsDown
  <2>1. /\ task' \in TaskType /\ managerTime' \in BOOLEAN
        /\ task'.timeSynchronized => task.timeSynchronized
        /\ managerTime' => managerTime
    <3>1. CASE task.wifiConnected
      BY <1>1, <1>2, <3>1 DEF LinkIsDown, TaskType
    <3>2. CASE ~task.wifiConnected
      <4>1. task' = [task EXCEPT !.now = millis] /\ managerTime' = managerTime
        BY <1>2, <3>2 DEF LinkIsDown
      <4>2. managerTime \in BOOLEAN
        BY <1>1 DEF TypeOK
      <4> QED
        BY <1>1, <4>1, <4>2 DEF TaskType
    <3> QED
      BY <3>1, <3>2
  <2> QED
    BY <1>1, <1>2, <2>1 DEF LinkIsDown, TimeIsKnown, TypeOK
<1>3. CASE LinkIsUp
  <2>1. PICK synchronized \in BOOLEAN, checked \in BOOLEAN :
          /\ synchronized => task.timeSynchronized \/ clockValid
          /\ managerTime' = synchronized
          /\ task' = [task EXCEPT !.at = "mqtt", !.now = millis, !.wifiConnected = TRUE,
                                  !.timeSynchronized = synchronized,
                                  !.lastNtpCheck = IF checked THEN millis ELSE @]
    <3> DEFINE known == task.wifiConnected /\ task.timeSynchronized
               checks == ~known /\ Elapsed(millis, task.lastNtpCheck) >= NtpCheckInterval
               synchronized == known \/ (checks /\ clockValid)
    <3>1. /\ task' = [task EXCEPT !.at = "mqtt", !.now = millis, !.wifiConnected = TRUE,
                                  !.timeSynchronized = synchronized,
                                  !.lastNtpCheck = IF checks THEN millis ELSE @]
          /\ managerTime' = synchronized
      BY <1>3 DEF LinkIsUp
    <3>2. synchronized => task.timeSynchronized \/ clockValid
      OBVIOUS
    <3>3. synchronized \in BOOLEAN /\ checks \in BOOLEAN
      OBVIOUS
    <3> HIDE DEF synchronized, checks
    <3> QED
      BY <3>1, <3>2, <3>3
  <2>2. task' \in TaskType /\ task'.timeSynchronized = synchronized
    BY <1>1, <2>1 DEF TaskType
  <2> QED
    BY <1>1, <1>3, <2>1, <2>2 DEF LinkIsUp, TimeIsKnown, TypeOK
<1>4. CASE NoAttempt \/ ServeSession
  <2>1. task' = [task EXCEPT !.at = "snapshot"]
    BY <1>4 DEF NoAttempt, ServeSession
  <2>2. task' \in TaskType /\ task'.timeSynchronized = task.timeSynchronized
    BY <1>1, <2>1 DEF TaskType
  <2> QED
    BY <1>1, <1>4, <2>2 DEF NoAttempt, ServeSession, TimeIsKnown, TypeOK
<1>5. ASSUME NEW success \in BOOLEAN, Connect(success) PROVE TimeIsKnown'
  <2>1. task' \in TaskType /\ task'.timeSynchronized = task.timeSynchronized
    BY <1>1, <1>5 DEF Connect, TaskType
  <2>2. session' \in BOOLEAN /\ task.timeSynchronized
    BY <1>5 DEF Connect
  <2> QED
    BY <1>1, <1>5, <2>1, <2>2 DEF Connect, TimeIsKnown, TypeOK
<1>6. ASSUME NEW report \in {protection, LockFailure}, TakeSnapshot(report)
      PROVE  TimeIsKnown'
  <2>1. report \in AnyReport
    BY <1>1 DEF TypeOK, AnyReport
  <2>2. task' \in TaskType /\ task'.timeSynchronized = task.timeSynchronized
    BY <1>1, <1>6, <2>1 DEF TakeSnapshot, TaskType
  <2> QED
    BY <1>1, <1>6, <2>2 DEF TakeSnapshot, TimeIsKnown, TypeOK
<1>7. ASSUME NEW succeeds, Publish(succeeds) PROVE TimeIsKnown'
  <2>1. broker' \in Topics /\ task' \in TaskType
    BY <1>1, <1>7, PublishType
  <2>2. task'.timeSynchronized = task.timeSynchronized
    BY <1>1, <1>7 DEF Publish, TaskType
  <2>3. announced' \in BOOLEAN
    BY <1>1, <1>7 DEF Publish
  <2>4. TypeOK'
    BY <1>1, <1>7, <2>1, <2>3 DEF Publish, TypeOK
  <2> QED
    BY <1>7, <2>2, <2>4 DEF Publish, TimeIsKnown
<1> QED
  BY <1>2, <1>3, <1>4, <1>5, <1>6, <1>7 DEF Round

\* The task and mqtt_manager.cpp never think they know the time before it is set.
THEOREM Invariance == Spec => []TimeIsKnown
<1>1. TimeIsKnown /\ [Next]_vars => TimeIsKnown'
  BY OutsideStep, RoundStep DEF Next
<1> QED
  BY <1>1, InitInvariant, PTL DEF Spec

\* The variables keep to their types; the topics only ever say what the protection
\* core, or a failed lock, reports.
THEOREM TypeCorrect == Spec => []TypeOK
<1>1. TimeIsKnown => TypeOK
  BY DEF TimeIsKnown
<1> QED
  BY <1>1, Invariance, PTL

\* No MQTT session is open while the system time is not valid, whatever Wi-Fi, NTP,
\* the broker and the restarts do.
THEOREM SessionsHaveValidTime == Spec => []SessionHasValidTime
<1>1. TimeIsKnown => SessionHasValidTime
  BY DEF TimeIsKnown, SessionHasValidTime
<1> QED
  BY <1>1, Invariance, PTL
=============================================================================
