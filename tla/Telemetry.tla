----------------------------- MODULE Telemetry -----------------------------
(***************************************************************************)
(* telemetry_json.cpp: the bounded writer, and the length of the longest   *)
(* report.  A piece is the number of characters of one append, or of the   *)
(* several that make a member: the writer's answer is that of their sum.   *)
(***************************************************************************)
EXTENDS Measurements, SequencesExt

CONSTANTS
  DeviceIdLength,   \* of MQTT_DEVICE_ID
  VersionLength,    \* of FIRMWARE_VERSION
  PayloadSize,      \* payload[] of mqttManagerPublishTelemetry()
  PacketSize        \* mqttClient.setBufferSize()

ASSUME TelemetryAssumption ==
  /\ DeviceIdLength \in 1 .. 32 /\ VersionLength \in Nat
  /\ PayloadSize \in Nat /\ PacketSize \in Nat

NewWriter == [len |-> 0, ok |-> TRUE]

\* Writer::raw(): there must be room for the NUL too, and once something did not
\* fit, nothing is written.
Write(w, n, size) ==
  IF ~w.ok \/ w.len + n + 1 > size
    THEN [w EXCEPT !.ok = FALSE] ELSE [w EXCEPT !.len = @ + n]

\* buildTelemetryJson(): the length, or -1 and an empty string.
BuildTelemetry(pieces, size) ==
  LET w == FoldLeft(LAMBDA v, n : Write(v, n, size), NewWriter, pieces)
  IN  IF size = 0 \/ ~w.ok THEN -1 ELSE w.len

-----------------------------------------------------------------------------
(***************************************************************************)
(* The longest report.                                                     *)
(***************************************************************************)

\* Faulty variant: the characters that need no escape are escaped.
StrBug(n) == 1 + 6 * n + 1

\* Writer::str() where nothing is escaped; Writer::key() is one between a comma and a
\* colon.
Str(n) == 1 + n + 1
Key(n) == 1 + Str(n) + 1

Digits(n) == CHOOSE d \in 1 .. 9 : n < 10^d /\ (d = 1 \/ 10^(d - 1) <= n)

\* Writer::num(): a value up to this many units, with its decimals.
Num(limit, unit, decimals) == Digits(limit \div unit) + 1 + decimals
U32 == 10
Boolean == 5

\* The length of each key and the longest value it may have; the numbers are those
\* of a valid sample.
LongestReport ==
  << <<14, 1>>,                                       \* schema_version
     <<9, Str(DeviceIdLength)>>,                      \* device_id
     <<16, Str(VersionLength)>>,                      \* firmware_version
     <<6, Str(10)>>,                                  \* source: SIMULATION
     <<9, Boolean>>,                                  \* simulated
     <<9, U32>>,                                      \* uptime_ms
     <<5, Boolean>>,                                  \* valid
     <<18, Str(15)>>,                                 \* status: NOT_INITIALIZED
     <<18, U32>>,                                     \* measurement_age_ms
     <<7, Num(Limit.voltage, 1, 2)>>,
     <<7, Num(Limit.current, 100, 3)>>,
     <<5, Num(Limit.power, 100, 2)>>,
     <<6, Num(Limit.energy, 1, 3)>>,
     <<14, Num(Limit.voltage * Limit.current, 100, 2)>>,
     <<12, Num(Limit.powerFactor, 100, 3)>>,
     <<5, Str(7)>>,                                   \* state: WARNING
     <<5, Str(19)>>,                                  \* fault: PROTECTION_INTERNAL
     <<12, Boolean>>, <<18, Boolean>>,                \* fault_active, _acknowledged
     <<17, Str(28)>>,                                 \* REJECTED_INVALID_MEASUREMENT
     <<18, Boolean>>, <<20, Boolean>> >>              \* relay_commanded_on, _enabled

\* The members and the closing brace; the first key has the opening brace where the
\* others have a comma.
PiecesOf(report) ==
  Append([i \in DOMAIN report |-> Key(report[i][1]) + report[i][2]], 1)

\* The topic energy/<id>/telemetry.
TopicLength == DeviceIdLength + 17

\* What PubSubClient puts around a payload.
PacketOverhead == 5 + 2 + TopicLength

-----------------------------------------------------------------------------
(***************************************************************************)
(* What is asked of the writer, whichever sample is reported.              *)
(***************************************************************************)

Total(pieces) == FoldLeft(+, 0, pieces)

\* The longest report fits the payload buffer, and its message the client's.
LongestFits ==
  LET length == BuildTelemetry(PiecesOf(LongestReport), PayloadSize)
  IN  length # -1 /\ length + PacketOverhead <= PacketSize
=============================================================================
