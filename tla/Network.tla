------------------------------ MODULE Network ------------------------------
(***************************************************************************)
(* NetworkTask (main.cpp) with the session side of mqtt_manager.cpp:       *)
(* Wi-Fi, NTP and MQTT session, the publication of state and fault, and    *)
(* restarts of the controller at any point.                                *)
(*                                                                         *)
(* The link, the NTP clock, the MQTT session and the broker are external.  *)
(* The Wi-Fi and Blynk attempts change nothing that is modelled; they take *)
(* time, and time may pass between any two steps.  The commands that       *)
(* arrive are the subject of Commands, the telemetry that of Reporting.    *)
(***************************************************************************)
EXTENDS Clock

CONSTANTS
  ReconnectInterval,   \* MQTT_RECONNECT_INTERVAL_MS
  NtpCheckInterval,    \* NTP_CHECK_INTERVAL_MS
  MaxRound,            \* longest round of the task's loop, with its delay
  Reports              \* states and faults of the protection core

ASSUME NetworkAssumption ==
  /\ MaxRound \in Nat
  /\ ReconnectInterval \in Nat /\ NtpCheckInterval \in Nat
  /\ ReconnectInterval + MaxRound < Wrap /\ NtpCheckInterval + MaxRound < Wrap

VARIABLES
  millis,        \* millis()
  link,          \* WiFi.status() == WL_CONNECTED
  clockValid,    \* the system time has been set by NTP
  session,       \* mqttClient.connected()
  broker,        \* the retained state and fault topics
  protection,    \* what the protection core would report
  task,          \* NetworkTask: where it is and its variables
  managerTime,   \* timeSynchronized of mqtt_manager.cpp
  announced      \* this session has carried a round of publications

outside == <<link, clockValid, protection>>
connection == <<session, announced>>
vars == <<millis, outside, connection, broker, task, managerTime>>

NoReport == [state |-> "INIT", fault |-> "NONE"]

\* protectionGetSnapshot() when it cannot get the lock.
LockFailure == [state |-> "FAULT", fault |-> "PROTECTION_INTERNAL"]

\* Faulty variant: signed subtraction.
NewTaskBug ==
  [at |-> "wifi", now |-> 0, snapshot |-> NoReport,
   wifiConnected |-> FALSE, timeSynchronized |-> FALSE,
   lastNtpCheck |-> 0, lastMqttAttempt |-> 0 - ReconnectInterval,
   mqttWasConnected |-> FALSE, published |-> NoReport]

\* The task as setup() leaves it.
NewTask ==
  [at |-> "wifi", now |-> 0, snapshot |-> NoReport,
   wifiConnected |-> FALSE, timeSynchronized |-> FALSE,
   lastNtpCheck |-> 0, lastMqttAttempt |-> Elapsed(0, ReconnectInterval),
   mqttWasConnected |-> FALSE, published |-> NoReport]

Init ==
  /\ millis = 0 /\ link = FALSE /\ clockValid = FALSE
  /\ session = FALSE /\ announced = FALSE
  /\ broker = NoReport /\ protection \in Reports
  /\ task = NewTask /\ managerTime = FALSE

-----------------------------------------------------------------------------
(***************************************************************************)
(* The world outside the task.                                             *)
(***************************************************************************)

Advance ==
  /\ Elapsed(millis, task.now) < MaxRound
  /\ millis' = Later(millis)
  /\ UNCHANGED <<outside, connection, broker, task, managerTime>>

LinkChanges ==
  /\ link' = ~link
  /\ UNCHANGED <<millis, clockValid, protection, connection, broker, task, managerTime>>

NtpAnswers ==
  /\ link /\ task.wifiConnected /\ ~clockValid
  /\ clockValid' = TRUE
  /\ UNCHANGED <<millis, link, protection, connection, broker, task, managerTime>>

SessionDrops ==
  /\ session
  /\ session' = FALSE /\ announced' = FALSE
  /\ UNCHANGED <<millis, outside, broker, task, managerTime>>

ProtectionChanges ==
  /\ protection' \in Reports \ {protection}
  /\ UNCHANGED <<millis, link, clockValid, connection, broker, task, managerTime>>

\* The controller restarts.  The broker keeps what it retains; the system time
\* may survive.
Restart ==
  /\ millis' = 0 /\ link' = FALSE /\ clockValid' \in {clockValid, FALSE}
  /\ session' = FALSE /\ announced' = FALSE
  /\ protection' \in Reports
  /\ task' = NewTask /\ managerTime' = FALSE
  /\ UNCHANGED broker

-----------------------------------------------------------------------------
(***************************************************************************)
(* NetworkTask: link and time.                                             *)
(***************************************************************************)

\* A round without Wi-Fi ends here.
LinkIsDown ==
  /\ task.at = "wifi" /\ ~link
  /\ IF task.wifiConnected
       THEN /\ task' = [task EXCEPT !.now = millis, !.wifiConnected = FALSE,
                                    !.timeSynchronized = FALSE,
                                    !.mqttWasConnected = FALSE]
            /\ managerTime' = FALSE
       ELSE task' = [task EXCEPT !.now = millis] /\ UNCHANGED managerTime
  /\ UNCHANGED <<millis, outside, connection, broker>>

\* Faulty variant: the time counts as synchronized as soon as it is asked for.
LinkIsUpBug ==
  /\ task.at = "wifi" /\ link
  /\ task' = [task EXCEPT !.at = "mqtt", !.now = millis, !.wifiConnected = TRUE,
                          !.timeSynchronized = TRUE]
  /\ managerTime' = TRUE
  /\ UNCHANGED <<millis, outside, connection, broker>>

\* Faulty variant: mqtt_manager.cpp is told only when the time is lost.
LinkIsUpBugUntold ==
  /\ task.at = "wifi" /\ link
  /\ LET known == task.wifiConnected /\ task.timeSynchronized
         checks == ~known /\ Elapsed(millis, task.lastNtpCheck) >= NtpCheckInterval
     IN  task' = [task EXCEPT !.at = "mqtt", !.now = millis, !.wifiConnected = TRUE,
                              !.timeSynchronized = known \/ (checks /\ clockValid),
                              !.lastNtpCheck = IF checks THEN millis ELSE @]
  /\ UNCHANGED <<millis, outside, connection, broker, managerTime>>

\* A link that is new to the task starts NTP over; then the time is looked at.
LinkIsUp ==
  /\ task.at = "wifi" /\ link
  /\ LET known == task.wifiConnected /\ task.timeSynchronized
         checks == ~known /\ Elapsed(millis, task.lastNtpCheck) >= NtpCheckInterval
         synchronized == known \/ (checks /\ clockValid)
     IN  /\ task' = [task EXCEPT !.at = "mqtt", !.now = millis, !.wifiConnected = TRUE,
                                 !.timeSynchronized = synchronized,
                                 !.lastNtpCheck = IF checks THEN millis ELSE @]
         /\ managerTime' = synchronized
  /\ UNCHANGED <<millis, outside, connection, broker>>

-----------------------------------------------------------------------------
(***************************************************************************)
(* NetworkTask: MQTT session.                                              *)
(***************************************************************************)

NoAttempt ==
  /\ task.at = "mqtt" /\ ~session
  /\ ~(task.timeSynchronized
         /\ Elapsed(task.now, task.lastMqttAttempt) >= ReconnectInterval)
  /\ task' = [task EXCEPT !.at = "snapshot"]
  /\ UNCHANGED <<millis, outside, connection, broker, managerTime>>

\* Wi-Fi may be gone by now, and the broker may not answer.
Connect(success) ==
  /\ task.at = "mqtt" /\ ~session
  /\ task.timeSynchronized
  /\ Elapsed(task.now, task.lastMqttAttempt) >= ReconnectInterval
  /\ success => link /\ managerTime
  /\ session' = success
  /\ task' = [task EXCEPT !.at = "snapshot", !.lastMqttAttempt = task.now]
  /\ UNCHANGED <<millis, outside, announced, broker, managerTime>>

\* mqttManagerLoop(); the messages it handles are Commands's subject.
ServeSession ==
  /\ task.at = "mqtt" /\ session
  /\ task' = [task EXCEPT !.at = "snapshot"]
  /\ UNCHANGED <<millis, outside, connection, broker, managerTime>>

-----------------------------------------------------------------------------
(***************************************************************************)
(* NetworkTask: the publication of state and fault.                        *)
(***************************************************************************)

TakeSnapshot(report) ==
  /\ task.at = "snapshot"
  /\ report \in {protection, LockFailure}
  /\ task' = [task EXCEPT !.at = "publish", !.snapshot = report]
  /\ UNCHANGED <<millis, outside, connection, broker, managerTime>>

Fresh == session /\ ~task.mqttWasConnected
Sends(field) ==
  session /\ (Fresh \/ task.snapshot[field] # task.published[field])

\* Faulty variant: the connection is remembered, whatever became of the messages.
PublishBug(succeeds) ==
  /\ task.at = "publish"
  /\ broker' = [f \in DOMAIN broker |->
                  IF Sends(f) /\ f \in succeeds THEN task.snapshot[f] ELSE broker[f]]
  /\ task' = [task EXCEPT !.at = "wifi", !.snapshot = NoReport,
                !.mqttWasConnected = session, !.published = [f \in DOMAIN broker |->
                  IF Fresh \/ (Sends(f) /\ f \in succeeds)
                    THEN task.snapshot[f] ELSE task.published[f]]]
  /\ announced' = session
  /\ UNCHANGED <<millis, outside, session, managerTime>>

\* On a fresh connection the outcome is not looked at.  mqttWasConnected is
\* never set.
Publish(succeeds) ==
  /\ task.at = "publish"
  /\ broker' = [f \in DOMAIN broker |->
                  IF Sends(f) /\ f \in succeeds THEN task.snapshot[f] ELSE broker[f]]
  /\ task' = [task EXCEPT !.at = "wifi", !.snapshot = NoReport,
                !.published = [f \in DOMAIN broker |->
                  IF Fresh \/ (Sends(f) /\ f \in succeeds)
                    THEN task.snapshot[f] ELSE task.published[f]]]
  /\ announced' = session
  /\ UNCHANGED <<millis, outside, session, managerTime>>

-----------------------------------------------------------------------------
Round ==
  \/ LinkIsDown \/ LinkIsUp
  \/ NoAttempt \/ \E success \in BOOLEAN : Connect(success)
  \/ ServeSession
  \/ \E report \in {protection, LockFailure} : TakeSnapshot(report)
  \/ \E succeeds \in SUBSET {"state", "fault"} : Publish(succeeds)

Next ==
  \/ Advance \/ LinkChanges \/ NtpAnswers \/ SessionDrops \/ ProtectionChanges
  \/ Restart
  \/ Round

Spec == Init /\ [][Next]_vars

\* The task is scheduled and time goes on.  The rest is what makes progress
\* possible at all: NTP, broker and mutex do not fail for ever.
FairSpec ==
  /\ Spec
  /\ WF_vars(Round) /\ WF_vars(Advance) /\ WF_vars(NtpAnswers)
  /\ SF_vars(Connect(TRUE))
  /\ SF_vars(TakeSnapshot(protection))
  /\ SF_vars(task.snapshot = protection /\ Publish({"state", "fault"}))

-----------------------------------------------------------------------------
(***************************************************************************)
(* Properties.                                                             *)
(***************************************************************************)

AnyReport == Reports \cup {NoReport, LockFailure}

Topics == [state : {r.state : r \in AnyReport}, fault : {r.fault : r \in AnyReport}]
TaskType ==
  [at : {"wifi", "mqtt", "snapshot", "publish"}, now : Millis, snapshot : AnyReport,
   wifiConnected : BOOLEAN, timeSynchronized : BOOLEAN, lastNtpCheck : Millis,
   lastMqttAttempt : Millis, mqttWasConnected : BOOLEAN, published : Topics]

\* The variables hold what the code's types allow.
TypeOK ==
  /\ millis \in Millis
  /\ link \in BOOLEAN /\ clockValid \in BOOLEAN /\ protection \in Reports
  /\ session \in BOOLEAN /\ announced \in BOOLEAN /\ managerTime \in BOOLEAN
  /\ broker \in Topics /\ task \in TaskType

\* No session is opened before the system time is valid: the certificate of the
\* broker could not be checked (networkTask, mqttManagerConnect).
SessionHasValidTime == session => clockValid

\* What makes it inductive: a session is opened only on the word of the task and of
\* mqtt_manager.cpp, and these know the time from NTP.
TimeIsKnown ==
  /\ TypeOK
  /\ task.timeSynchronized \/ managerTime \/ session => clockValid

\* After the first round of a session, a topic is published only on a change.
PublishesOnlyChanges ==
  task.at = "publish" /\ announced =>
    \A f \in DOMAIN broker : Sends(f) => task.snapshot[f] # task.published[f]

\* While the session lasts and the protection state stays what it is, the broker
\* comes to hold it, also when some messages fail (networkTask).
BrokerCatchesUp ==
  \A r \in Reports :
    <>[](link /\ session /\ protection = r) => []<>(broker = r)

\* While Wi-Fi lasts, the session is opened again and again (networkTask).
SessionComesBack == <>[]link => []<>session
=============================================================================
