----------------------------- MODULE Reporting -----------------------------
(***************************************************************************)
(* How a sample of the meter gets to those who report it: SensorTask reads *)
(* the meter and stores the sample in latestMeasurement, under a mutex;    *)
(* Display-, Cli- and NetworkTask copy it and report it, NetworkTask as    *)
(* periodic telemetry, which may fail to be sent.                          *)
(*                                                                         *)
(* The meter is external.  A structure is copied in two parts, so that an  *)
(* unprotected copy can be seen to be torn.  The send to ControlTask is    *)
(* Controller's subject, the rest of NetworkTask's round Network's.        *)
(***************************************************************************)
EXTENDS Telemetry, Clock

CONSTANTS
  Loads,            \* what the meter may show
  Readers,          \* the tasks that report
  TelemetryPeriod,  \* TELEMETRY_PERIOD_MS
  MaxRound,         \* longest round of NetworkTask's loop
  MaxAge,           \* bound on the age of what a task holds, or has stored
  MaxLost           \* bound on the telemetry reports lost in a row

ASSUME ReportingAssumption ==
  /\ Loads \subseteq [Fields -> Int \cup {NaN}]
  /\ "network" \in Readers /\ Readers \subseteq {"network", "display", "cli"}
  /\ TelemetryPeriod \in Nat \ {0} /\ MaxRound \in Nat
  /\ TelemetryPeriod + 3 * MaxRound <= Wrap
  /\ MaxAge \in Millis /\ MaxLost \in Nat

VARIABLES
  millis,    \* millis()
  source,    \* kMeasurementSource: fixed by the build
  sensor,    \* SensorTask: where it is, and its sample
  latest,    \* latestMeasurement
  holder,    \* who holds measurementMutex
  reader,    \* each reporting task: where it is, and its copy
  network,   \* NetworkTask: now, lastTelemetry
  whole,     \* the last sample stored completely
  age,       \* real ages: of the sample, of latest, of each copy; 0 for none
  steady,    \* what the meter showed for the sample, if it was one thing
  quiet,     \* real time since telemetry was last sent, or a round had no Wi-Fi
  lost,      \* telemetry reports that were not sent since then
  gap        \* real time since lastTelemetry was set, up to TelemetryPeriod

data == <<latest, whole, holder>>
counts == <<quiet, lost, gap>>
ghosts == <<age, steady, counts>>
vars == <<millis, source, sensor, data, reader, network, ghosts>>

Nobody == "nobody"
FieldOrder == <<"voltage", "current", "power", "energy", "powerFactor">>
Waiting == [at |-> "read", sample |-> NoSample]
IdleReader == [at |-> "idle", copy |-> NoSample]
Copied == {"sensor", "latest"} \cup Readers

Init ==
  /\ millis = 0 /\ source \in Sources
  /\ sensor = Waiting /\ latest = NoSample /\ whole = NoSample /\ holder = Nobody
  /\ reader = [r \in Readers |-> IdleReader]
  /\ network = [now |-> 0, lastTelemetry |-> 0]
  /\ age = [c \in Copied |-> 0] /\ steady = {} /\ quiet = 0 /\ lost = 0 /\ gap = 0

\* How long n reports lost in a row, each repeated only a period later, may delay the
\* next; and how long there may be no telemetry then.
Delay(n) == n * (TelemetryPeriod + MaxRound)
LongestQuiet(n) == Delay(n + 1) + 2 * MaxRound
QuietCap == LongestQuiet(MaxLost)

\* Where a sample is.
Held ==
  {"latest"} \cup {r \in Readers : reader[r].at = "report"}
    \cup (IF sensor.at = "read" THEN {} ELSE {"sensor"})

\* From one round to the next NetworkTask takes MaxRound at most.  A task that hangs
\* leads to a restart (Watchdog): until then nothing gets older than MaxAge.
Advance ==
  /\ \A c \in Copied : age[c] < MaxAge
  /\ Elapsed(millis, network.now) < MaxRound
  /\ millis' = Later(millis)
  /\ age' = [c \in Copied |-> IF c \in Held THEN age[c] + 1 ELSE 0]
  /\ quiet' = IF quiet < QuietCap THEN quiet + 1 ELSE quiet
  /\ gap' = IF gap < TelemetryPeriod THEN gap + 1 ELSE gap
  /\ UNCHANGED <<source, sensor, data, reader, network, steady, lost>>

-----------------------------------------------------------------------------
(***************************************************************************)
(* SensorTask.                                                             *)
(***************************************************************************)

\* readPzem() asks for one value after the other; in between the meter may change
\* what it shows, once: late are the fields asked for after that.  The sample is
\* stamped after the last value; nothing shared is touched before.
ReadPzem(before, after, late) ==
  /\ source = "PZEM" /\ sensor.at = "read"
  /\ LET raw == [f \in Fields |-> IF f \in late THEN after[f] ELSE before[f]]
     IN  sensor' = [at |-> "store", sample |-> BuildMeasurement(raw, source, millis)]
  /\ age' = [age EXCEPT !["sensor"] = 0]
  /\ steady' = IF late = {} THEN {before} ELSE {}
  /\ UNCHANGED <<millis, source, data, reader, network, counts>>

Simulate ==
  /\ source = "SIMULATION" /\ sensor.at = "read"
  /\ sensor' = [at |-> "store", sample |-> SimulationSample(millis)]
  /\ age' = [age EXCEPT !["sensor"] = 0]
  /\ UNCHANGED <<millis, source, data, reader, network, steady, counts>>

Lock(task) == holder = Nobody /\ holder' = task
IsLockedOut(task) == holder \notin {Nobody, task}

\* Faulty variant: the mutex is not needed for an assignment.
StoreFirstBug ==
  /\ sensor.at = "store"
  /\ sensor' = [sensor EXCEPT !.at = "stored"]
  /\ latest' = [latest EXCEPT !.value = sensor.sample.value,
                              !.apparentPower = sensor.sample.apparentPower]
  /\ UNCHANGED <<millis, source, whole, holder, reader, network, ghosts>>

\* The first part of latestMeasurement = measurement.
StoreFirst ==
  /\ sensor.at = "store" /\ Lock("sensor")
  /\ sensor' = [sensor EXCEPT !.at = "stored"]
  /\ latest' = [latest EXCEPT !.value = sensor.sample.value,
                              !.apparentPower = sensor.sample.apparentPower]
  /\ UNCHANGED <<millis, source, whole, reader, network, ghosts>>

\* The rest of it, and the mutex is given back.
StoreRest ==
  /\ sensor.at = "stored"
  /\ latest' = [sensor.sample EXCEPT !.value = latest.value,
                                     !.apparentPower = latest.apparentPower]
  /\ whole' = sensor.sample
  /\ age' = [age EXCEPT !["latest"] = age["sensor"], !["sensor"] = 0]
  /\ holder' = IF holder = "sensor" THEN Nobody ELSE holder
  /\ sensor' = Waiting /\ steady' = {}
  /\ UNCHANGED <<millis, source, reader, network, counts>>

\* The sample is not stored.
StoreTimeout ==
  /\ sensor.at = "store" /\ IsLockedOut("sensor")
  /\ sensor' = Waiting /\ steady' = {}
  /\ age' = [age EXCEPT !["sensor"] = 0]
  /\ UNCHANGED <<millis, source, data, reader, network, counts>>

-----------------------------------------------------------------------------
(***************************************************************************)
(* The tasks that report.                                                  *)
(***************************************************************************)

\* DisplayTask's period, or a line for CliTask.
Ask(r) ==
  /\ r # "network" /\ reader[r].at = "idle"
  /\ reader' = [reader EXCEPT ![r].at = "copy"]
  /\ UNCHANGED <<millis, source, sensor, data, network, ghosts>>

\* Faulty variant: the time of the next report is computed, in more bits than millis()
\* has.
NetworkRoundBug(up) ==
  /\ reader["network"].at = "idle"
  /\ LET due == up /\ millis >= network.lastTelemetry + TelemetryPeriod
     IN  /\ reader' = [reader EXCEPT !["network"].at = IF due THEN "copy" ELSE "idle"]
         /\ network' = [now |-> millis,
                        lastTelemetry |-> IF due THEN millis ELSE network.lastTelemetry]
         /\ gap' = IF due THEN 0 ELSE gap
  /\ quiet' = (IF up THEN quiet ELSE 0) /\ lost' = (IF up THEN lost ELSE 0)
  /\ UNCHANGED <<millis, source, sensor, data, age, steady>>

\* Faulty variant: a late report is followed by an early one, to keep the pace.
NetworkRoundBugPace(up) ==
  /\ reader["network"].at = "idle"
  /\ LET due == up /\ Elapsed(millis, network.lastTelemetry) >= TelemetryPeriod
     IN  /\ reader' = [reader EXCEPT !["network"].at = IF due THEN "copy" ELSE "idle"]
         /\ network' = [now |-> millis,
                        lastTelemetry |-> IF due THEN (network.lastTelemetry + TelemetryPeriod) % Wrap ELSE network.lastTelemetry]
         /\ gap' = IF due THEN 0 ELSE gap
  /\ quiet' = (IF up THEN quiet ELSE 0) /\ lost' = (IF up THEN lost ELSE 0)
  /\ UNCHANGED <<millis, source, sensor, data, age, steady>>

\* A round of NetworkTask, with Wi-Fi or without.
NetworkRound(up) ==
  /\ reader["network"].at = "idle"
  /\ LET due == up /\ Elapsed(millis, network.lastTelemetry) >= TelemetryPeriod
     IN  /\ reader' = [reader EXCEPT !["network"].at = IF due THEN "copy" ELSE "idle"]
         /\ network' = [now |-> millis,
                        lastTelemetry |-> IF due THEN millis ELSE network.lastTelemetry]
         /\ gap' = IF due THEN 0 ELSE gap
  /\ quiet' = (IF up THEN quiet ELSE 0) /\ lost' = (IF up THEN lost ELSE 0)
  /\ UNCHANGED <<millis, source, sensor, data, age, steady>>

\* copyLatestMeasurement(), in two parts.
CopyFirst(r) ==
  /\ reader[r].at = "copy" /\ Lock(r)
  /\ reader' = [reader EXCEPT ![r] = [at |-> "copied",
       copy |-> [NoSample EXCEPT !.value = latest.value,
                                 !.apparentPower = latest.apparentPower]]]
  /\ UNCHANGED <<millis, source, sensor, latest, whole, network, ghosts>>

CopyRest(r) ==
  /\ reader[r].at = "copied"
  /\ reader' = [reader EXCEPT ![r] = [at |-> "report",
       copy |-> [latest EXCEPT !.value = reader[r].copy.value,
                               !.apparentPower = reader[r].copy.apparentPower]]]
  /\ holder' = Nobody
  /\ age' = [age EXCEPT ![r] = age["latest"]]
  /\ UNCHANGED <<millis, source, sensor, latest, whole, network, steady, counts>>

\* The copy stays as it was initialised.
CopyTimeout(r) ==
  /\ reader[r].at = "copy" /\ IsLockedOut(r)
  /\ reader' = [reader EXCEPT ![r].at = "report"]
  /\ UNCHANGED <<millis, source, sensor, data, network, ghosts>>

\* Faulty variant: NetworkTask takes the time its round began.
ReportedAgeBug(r) ==
  Elapsed(IF r = "network" THEN network.now ELSE millis, reader[r].copy.timestamp)

\* measurement_age_ms and the age that "measure" prints.
ReportedAge(r) == Elapsed(millis, reader[r].copy.timestamp)

\* The LCD, or the serial line.
Report(r) ==
  /\ r # "network" /\ reader[r].at = "report"
  /\ reader' = [reader EXCEPT ![r] = IdleReader]
  /\ age' = [age EXCEPT ![r] = 0]
  /\ UNCHANGED <<millis, source, sensor, data, network, steady, counts>>

\* No more than the limits of defaultMeasurementLimits(), and their product.
IsWithinLimits(sample) ==
  /\ \A f \in Fields : sample.value[f] <= Limit[f]
  /\ sample.apparentPower <= Limit.voltage * Limit.current

\* mqttManagerPublishTelemetry(): whether the report is sent.  Without a session
\* nothing is built, without room nothing is published, and the client may not
\* take what is published.
PublishTelemetry(session, fits, taken) == session /\ fits /\ taken

\* NetworkTask tries once: what is not sent is not tried again before the next period.
\* That every report fits is not assumed here: see EveryReportFits.
NetworkReports(session, fits, taken) ==
  /\ reader["network"].at = "report"
  /\ reader' = [reader EXCEPT !["network"] = IdleReader]
  /\ age' = [age EXCEPT !["network"] = 0]
  /\ \/ /\ PublishTelemetry(session, fits, taken)
        /\ quiet' = 0 /\ lost' = 0
     \/ /\ ~PublishTelemetry(session, fits, taken)
        /\ lost < MaxLost /\ lost' = lost + 1
        /\ UNCHANGED quiet
  /\ UNCHANGED <<millis, source, sensor, data, network, steady, gap>>

-----------------------------------------------------------------------------
Next ==
  \/ Advance
  \/ \E before, after \in Loads, n \in 1 .. Len(FieldOrder) + 1 :
       ReadPzem(before, after, Range(SubSeq(FieldOrder, n, Len(FieldOrder))))
  \/ Simulate
  \/ StoreFirst \/ StoreRest \/ StoreTimeout
  \/ \E up \in BOOLEAN : NetworkRound(up)
  \/ \E r \in Readers :
       Ask(r) \/ CopyFirst(r) \/ CopyRest(r) \/ CopyTimeout(r) \/ Report(r)
  \/ \E session, fits, taken \in BOOLEAN : NetworkReports(session, fits, taken)

Spec == Init /\ [][Next]_vars

-----------------------------------------------------------------------------
(***************************************************************************)
(* Properties.                                                             *)
(***************************************************************************)

Sample ==
  [value : [Fields -> Int], apparentPower : Nat, valid : BOOLEAN,
   status : Statuses, source : Sources, timestamp : Millis]

\* The variables hold what the code's types allow; no sample holds a value that is
\* not finite, and it is valid exactly when its status is OK.
TypeOK ==
  /\ millis \in Millis /\ source \in Sources
  /\ sensor \in [at : {"read", "store", "stored"}, sample : Sample]
  /\ sensor.sample.valid <=> sensor.sample.status = "OK"
  /\ {latest, whole} \subseteq Sample /\ steady \subseteq Loads
  /\ holder \in Readers \cup {"sensor", Nobody}
  /\ reader \in [Readers -> [at : {"idle", "copy", "copied", "report"}, copy : Sample]]
  /\ network \in [now : Millis, lastTelemetry : Millis]
  /\ age \in [Copied -> 0 .. MaxAge]
  /\ quiet \in 0 .. QuietCap /\ lost \in 0 .. MaxLost /\ gap \in 0 .. TelemetryPeriod

\* What a meter in order may show: no value beyond its limit, the limits included, and
\* no more active than apparent power.
IsPossible(load) ==
  /\ \A f \in Fields : load[f] # NaN /\ load[f] >= 0 /\ ~(load[f] > Limit[f])
  /\ load.power <= load.voltage * load.current

\* SensorTask marks a sample invalid, which trips the protection at once, only when
\* the meter was silent or showed the impossible, or its values changed while they
\* were read; it never does so in a simulation build.
RejectedForACause ==
  sensor.at = "read" /\ sensor'.at = "store" /\ ~sensor'.sample.valid =>
    source = "PZEM" /\ ~\E load \in Loads : steady' = {load} /\ IsPossible(load)

RejectsForACause == [][RejectedForACause]_vars

\* What a task copies to report is the last sample stored, never parts of two, and
\* never older than the one it reported before.
CopyIsWhole ==
  \A r \in Readers : reader[r].at = "copied" /\ reader'[r].at = "report" =>
    reader'[r].copy = whole

CopiesAreWhole == [][CopyIsWhole]_vars

\* The age that is reported with a valid sample is the time since it was read,
\* also across the wrap of millis().
AgeIsReal ==
  \A r \in Readers :
    reader[r].at = "report" /\ reader[r].copy.valid =>
      ReportedAge(r) = age[r]

\* While Wi-Fi lasts, less than a period and three rounds pass from one telemetry
\* message to the next, and a period and a round more for each report in between that
\* was not sent, for want of an MQTT session, of room, or because the client did not
\* take it.  It is so across the wrap of
\* millis(), and after an outage of Wi-Fi, in which the timer may seem to have started
\* anew.
TelemetryIsRegular == quiet < LongestQuiet(lost)

\* NetworkTask never reports twice within a period, also after a failure, after an
\* outage, and across the wrap: it does not flood the broker.
IsSpaced ==
  reader["network"].at = "idle" /\ reader'["network"].at = "copy" =>
    gap >= TelemetryPeriod

TelemetryIsSpaced == [][IsSpaced]_vars

\* No report is too long for its buffers: what passed the limits of
\* defaultMeasurementLimits() is no longer than the longest report, and that fits
\* the payload buffer and, as a message, the MQTT client's.
EveryReportFits ==
  reader["network"].at = "report" =>
    IsWithinLimits(reader["network"].copy) /\ LongestFits

-----------------------------------------------------------------------------
(***************************************************************************)
(* The inductive invariant behind the type, the copies, their ages and the *)
(* telemetry timer.                                                        *)
(***************************************************************************)

\* Who is in the middle of a copy holds the mutex, and nobody else does.
MutexIsHeld ==
  /\ sensor.at = "stored" <=> holder = "sensor"
  /\ \A r \in Readers : reader[r].at = "copied" <=> holder = r

\* Only while SensorTask stores is latest not the last sample stored; then its first
\* part is the new one's.
StoreIsHalfway ==
  IF sensor.at = "stored"
    THEN /\ latest.value = sensor.sample.value
         /\ latest.apparentPower = sensor.sample.apparentPower
    ELSE latest = whole

CopyIsHalfway ==
  \A r \in Readers : reader[r].at = "copied" =>
    /\ reader[r].copy.value = latest.value
    /\ reader[r].copy.apparentPower = latest.apparentPower

\* The unsigned subtraction is the real age, wherever a sample is.
StampsAreReal ==
  /\ sensor.at # "read" => Elapsed(millis, sensor.sample.timestamp) = age["sensor"]
  /\ latest.valid => Elapsed(millis, latest.timestamp) = age["latest"]
  /\ \A r \in Readers : reader[r].at \in {"idle", "copy"} => ~reader[r].copy.valid
  /\ AgeIsReal

\* NetworkTask begins its next round in time.
RoundIsShort == Elapsed(millis, network.now) <= MaxRound

\* Since the last round that found no Wi-Fi, or the last report sent, at most a round
\* has passed; or the timer has been running since, but for the reports lost; or it
\* has just gone off.
TimerRuns ==
  LET round == Elapsed(millis, network.now)
      timer == Elapsed(network.now, network.lastTelemetry)
  IN  IF reader["network"].at = "idle"
        THEN \/ quiet <= round
             \/ timer < TelemetryPeriod /\ quiet <= MaxRound + timer + round + Delay(lost)
        ELSE /\ timer = 0
             /\ quiet < TelemetryPeriod + 2 * MaxRound + round + Delay(lost)

\* Within a period of its start the timer shows the real time.
GapIsReal == gap < TelemetryPeriod => Elapsed(millis, network.lastTelemetry) = gap

SamplesAreWithinLimits ==
  /\ IsWithinLimits(sensor.sample) /\ IsWithinLimits(latest)
  /\ \A r \in Readers : IsWithinLimits(reader[r].copy)

IInv ==
  /\ TypeOK
  /\ MutexIsHeld /\ StoreIsHalfway /\ CopyIsHalfway
  /\ StampsAreReal
  /\ RoundIsShort /\ TimerRuns /\ GapIsReal
  /\ SamplesAreWithinLimits
=============================================================================
