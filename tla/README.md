# TLA+ verification of the ESP32 real-time energy controller

The firmware measures a mains load once a second, and a relay may stay closed
only while the measurements allow it. This directory holds TLA+ models of the
parts that decide over the relay, the TLC runs that check them on small
instances, and TLAPS proofs, for all values of the constants, of every safety
and action property that holds in a run. The code is the reference; every
definition names in `PROJECT.json` ("map") the lines it models. Paths below are
relative to the repository.

## The system

| Component | Source | State | Operations |
|---|---|---|---|
| Protection core | `lib/energy_core/src/protection_core.*` | state, latched fault, confirmation timer, last sample, silence clock, re-arm gate | `begin`, `update`, `tick`, `requestReset`, `acknowledge`, `raiseInternalFault` |
| Protection wrapper | `src/protection.cpp` | mutex, `internalFaultPending` | the same calls under the lock, a fail-closed answer without it, snapshots |
| Actuator | `src/actuator.cpp`, `actuator_policy.*` | relay pin, `commandedOn`, LEDs | `drive` behind `actuatorApplyState/Result` |
| SensorTask, ControlTask, setup | `src/main.cpp` | measurement queue, command queue, latest sample, locals | read, enqueue, store; judge, drive, take commands; create the tasks, or stop |
| Heartbeat supervision | `heartbeat_monitor.*`, `src/watchdog_manager.cpp`, WatchdogTask | heartbeat table, failed registrations; the task watchdog of ESP-IDF | register, beat, judge, safe output, restart |
| NetworkTask, MQTT | `src/main.cpp`, `src/mqtt_manager.cpp`, `remote_command.*` | Wi-Fi/NTP/MQTT flags and timers, what was published, time of subscribing | reconnect, publish, accept remote commands, telemetry |
| Measurement | `measurement_core.*`, `src/measurement.cpp` | none (pure) | `readPzem`, `buildMeasurement`, `simulationSample` |
| Telemetry | `telemetry_json.*` | none (pure) | bounded JSON writer |
| CLI, display, diagnostics | `src/main.cpp`, `src/diagnostics.cpp` | line buffer, LCD | edit, parse, request, copy and print |

Samples go SensorTask -> `measurementQueue` -> ControlTask -> core -> relay.
Commands go from CliTask and the MQTT callback through `commandQueue` to
ControlTask. Display-, Network- and CliTask read snapshots under the same mutex,
and copies of the latest sample under another. All tasks beat; WatchdogTask, on
the other core, drives the safe output itself and restarts; behind it the task
watchdog of ESP-IDF restarts without a safe output. `setup()` creates the tasks
one by one while those it has created run. There is no persistent state: a
restart forgets the latch.

What is hard: two cores, one mutex with a 50 ms timeout whose failure must still
end in an open relay; a relay output without a lock and with three writers;
samples that are old when they are judged; `millis()` that wraps; a watchdog
that must notice a hung task but not restart for nothing; MQTT messages that
fail, are retained, or arrive late. `PROJECT.json` ("hazards") lists each at its
line with the properties that watch it, and those that none covers yet.

What makes each part correct:
- core: a fault is latched with its first cause; nothing but a fresh, valid,
  powered sample from after the re-arm point permits the relay; an overload and
  stale data are bounded in time; a fault for silence means silence;
- wrapper, tasks, actuator: the pin follows the core; when `update` or `tick` does not
  get the lock the relay opens, and the failure stays recorded until it is
  latched; samples stay in order; a hung ControlTask still ends with an open relay;
- supervision: every silent task is noticed in bounded time, WatchdogTask
  included, only a silent task causes a restart, and the one with the safe output
  comes first;
- network: the broker ends up with the current state and fault, a lost session
  returns, TLS is tried only with valid time;
- commands: what was typed is requested and nothing else, retained messages do
  not act, live ones do;
- reporting: a sample is rejected only for a cause; it is reported whole and with
  its real age, regularly but not twice in a period, and fits the buffers.

## Modules

| Module | Models | How |
|---|---|---|
| `ProtectionCore` | `protection_core.cpp` | functions from one object state to the next; no variables. Faulty variants of some of them, named `...Bug...`, stand before the definition they vary; they are used for checking that the properties notice |
| `LatchedRelay` | what the class comment and the fault documentation promise | abstract specification: permit and latch |
| `ProtectionMachine` | one core object over time | `core`, the wrapping `millis`, and `age`, the real times no code knows; one action per operation, with samples delayed in the queue |
| `Clock` | `millis()` and unsigned ages | functions, used by the four modules whose clock wraps; `ProtectionCore` has its own |
| `Actuator` | `drive()` | one action per access to the shared flag and pin, per calling task |
| `Controller` | SensorTask, ControlTask, `protection.cpp`, `setup()`, the reaction of WatchdogTask | composes `ProtectionCore` and `Actuator` with queues, mutex and the pending fault; a step lasts from one shared access to the next. `setup()` takes part when `"setup"` is among the `Writers` |
| `Watchdog` | heartbeats, WatchdogTask's loop, the task watchdog | the time is read before the critical section, as in the code; `timer`, `covered` and `resets` are ESP-IDF's |
| `Network` | NetworkTask's connections and the publication of state and fault | one action per stage of the loop; link, NTP, session and broker are environment; the controller may restart at any point |
| `Commands` | CliTask's line editor and parser, `mqttCallback`, `remote_command.cpp` | one action per key, line, message; the serial line, session and broker are environment |
| `Measurements` | `measurement_core.cpp` | functions from a reading to a sample; no variables |
| `Telemetry` | `telemetry_json.cpp` | the writer as a fold over the lengths of the pieces it appends; no variables |
| `Reporting` | SensorTask's reading and storing, the copies and the reports | composes `Measurements` and `Telemetry` with `measurementMutex` and the telemetry timer; a structure is copied in two parts |
| `MC...` | | constants for TLC |
| `CoreLemmas`, `BasicLemmas` | | lemmas about the functions of `ProtectionCore`; about `Clock`, and induction over the naturals |
| `ProtectionProofs`, `ControllerProofs`, `WatchdogProofs`, `NetworkProofs`, `CommandsProofs`, `ReportingProofs` | | the theorems about the machine in the name (`ProtectionMachine` for the first) |

Abstractions. Voltage and power are naturals, of which only the order to the
thresholds matters; fields that are only reported are left out
(`activeSince`, `lastFaultTime`, `lastFault`, `lastReset`). `timerActive_` and
`timerStart_` are one field. In `Controller` time does not wrap (that is
`ProtectionMachine`'s subject), and a lock attempt times out only while another
task holds the mutex. `commandedOn` is a plain `bool` written and read by several
tasks; `ChooseLevel` allows both values the compiled code may use. In `Network`
a publication that succeeds reaches the broker; Wi-Fi attempts and Blynk only
take time. In `Commands` a message is a topic and a payload, and a character of
a line is a model value; the commands that print reports act in `Reporting`.
In `Measurements` floats are integers in units that make voltage times current a
power, one value stands for NaN and the infinities, and rounding is left out. In
`Telemetry` only lengths count, and a member counts as one piece, since the writer's
answer is that of the sum (`WriterIsExact`): no text of the firmware has a character
that is escaped. In `Watchdog` the idle tasks, which the task watchdog covers too, never
hang.

## Runs

All bounds are constants in the `.cfg` files.

| Run | Shows | Bounds |
|---|---|---|
| `protection` | all invariants and action properties of the core, the inductive invariant, and the refinement of `LatchedRelay` | `millis()` wraps at 8, confirmation 2, freshness 1, samples up to 2 late, counter wraps at 2. The clock wraps at every point of the operations, and the ages reach past half its range, where the signed comparison turns over |
| `protection_wrap` | violation: `AlwaysStaleIsGenuine` | the same |
| `controller` | pin against core, order of samples, verdict before closing, lock failures, and the refinement of `LatchedRelay` at the pin | queue 2, commands 1, one snapshot reader, times 0..2: enough for a full queue, a lock failure in every call, confirmation and staleness |
| `controller_live` | every latched fault opens the relay, and one that stays latched keeps it open; the safe output when ControlTask hangs | ControlTask, WatchdogTask and `setup()` in `drive()`, one reader; time stands still and samples are good: lock failures latch, no timeout is needed; the only command is the reset |
| `controller_erase` | violation: `ResetCannotErasePendingFault` | queue 1, times 0..1 |
| `controller_restart` | violation: `SafeOutputBeforeRestart` | the same, with WatchdogTask as second writer |
| `watchdog` | bounded detection of silent tasks and of a hung WatchdogTask, causes and order of restarts | one task beside the watchdog's own; timeout 2, round 1, task watchdog 7, grace 7, one tick of skew, for the code's 6 s, 1 s, 8 s and 10 s: the task watchdog can run out at the end of the grace, and is not reached after it; the clock wraps at 18, just above the detection bounds |
| `watchdog_skew` | violation: `RestartMeansSilence` | the same |
| `network` | sessions have valid time; the broker catches up, the session returns | wrap 4, two reports of the core beside those of boot and of a lock failure, restarts |
| `network_republish` | violation: `PublishesOnlyChanges` | rounds of up to 2 ticks, one report |
| `commands` | typed lines, retained and live messages | a buffer of 3, four keys a line, words of one and two letters: full, erased and overflowing lines; two messages under way, a command queue of 1; wrap 5, hold-off 2 |
| `reporting` | rejected samples, whole copies, ages, telemetry neither too rare nor too frequent, buffer sizes | the limits, texts and buffer sizes of the code; two loads (just at the limits, so that the range is met at its boundary; beyond the limit of current, with no answer for the energy), which may change once during a reading; NetworkTask and CliTask; wrap 5, telemetry period 2, round 1, ages up to 2, one report lost in a row |

`PROJECT.json` ("mutants") gives, for every property of a passing run, a faulty
variant of the code's model under which TLC finds it violated.

`SafeOutputIfControlHangs` and `RelayFollowsCore` divide the watchdog case:
with a hung ControlTask the relay is open at the restart; when another task is
stale, ControlTask keeps running and the finding below applies.
`SafeOutputIfControlHangs` asks this once `setup()` is complete: until then
`fatalStop()` may write the relay too, and so is a third party to the same race.
`LatchedFaultKeepsRelayOpen` is what remains of such a race: a drive that is lost
is made up for by the next result. The run has `CHECK_DEADLOCK FALSE` because
the system may really stop: `fatalStop()` before the first task leaves nothing
that runs.

`RetainedCommandsAreDropped` assumes `MaxDelivery < Holdoff`: the broker delivers,
and NetworkTask handles, a retained command before the hold-off ends. Neither
the code nor the broker guarantees it, and without the assumption it fails.

`HardwareIsSecondLine` needs `WatchdogAssumption`: the heartbeat timeout, a round
of WatchdogTask and the skew are together less than the timeout of the task
watchdog (6 s + 1 s < 8 s). It allows the task watchdog to be first during the
start-up grace, when WatchdogTask judges nothing: the grace (10 s) is longer than
the timeout of the task watchdog (8 s), and it opens again at every wrap of
`millis()`. `EveryHangIsCaught` speaks of tasks that have beaten, while
`registrationFailures` is 0.

In `Reporting` what the meter shows changes at most once during a reading, the
rounds of NetworkTask are bounded by `MaxRound`, and nothing gets older than
`MaxAge`, below the range of `millis()`: a task that hangs longer is `Watchdog`'s
subject. A telemetry report is sent only with an MQTT session, if it fits, and if
the client takes it; nothing repeats one that is not sent before the next period.
The model leaves all three open, and `lost` counts the reports that failed in a
row: `TelemetryIsRegular` allows a period and a round more for each, so it promises
nothing while the session is down, and `TelemetryIsSpaced` says that failures do not
make NetworkTask try more often. `MaxLost` bounds `lost`; the proofs hold for any
bound. Without a failure `TelemetryIsRegular` allows three rounds beyond the period,
where two would seem enough: after an outage of Wi-Fi over which `millis()` wrapped,
the timer can be found as if it had just started, and the round it started in
counts too. The proof of the smaller bound failed there, and TLC has the
counterexample with rounds of two ticks. `EveryReportFits` asks two things: that no
published sample has a value beyond the limits the longest report is made with, at
every report, and that the longest report, with a device id of 32 characters, fits
the buffers, which is a calculation with the writer.

### Fairness

- `Controller!FairSpec`: ControlTask runs unless it hangs (it has the highest
  priority on its core, and a lock attempt ends with the lock or its timeout);
  a hung ControlTask stops beating, so WatchdogTask, of the highest priority on
  the other core, acts, or, where it is not created, the task watchdog
  (`Watchdog` shows when). Readers and `setup()` need no fairness. One
  assumption is about the world: commands do not arrive faster than ControlTask
  takes them (`main.cpp:202` loops until the queue is empty, without bound, and
  takes no sample meanwhile). The two writers of commands wait 20 ms and 10 ms
  between their rounds.
- `Network!FairSpec`: NetworkTask runs its loop and time passes (weak fairness).
  That the broker, the mutex and NTP do not fail for ever is an assumption
  about the world (strong fairness of a successful connection, snapshot and
  publication), without which nothing can be promised. Link, session and core
  change freely; the properties ask for a stable phase.

## What the runs found

1. **Silence that is none** (`protection_wrap`, `protection_core.cpp:157`). The
   re-arm comparison is signed. With no mains for more than 2^31 ms (24.9 days)
   every new sample is ignored and `SENSOR_STALE` is latched, though the
   documentation calls all timing correct across the wrap.
   `StaleFaultIsGenuine` holds, and is proved, up to that time.
2. **An erased internal fault** (`controller_erase`, `protection.cpp:105`). The
   reset that follows a lock failure latches `PROTECTION_INTERNAL` and clears it
   at once, though `protection.cpp:24-26` and docs/architecture.md:76 promise that the
   next call with the lock latches it. The relay is open meanwhile
   (`RecordedFailureIsNotLost`).
3. **The relay may close before a watchdog restart** (`controller_restart`,
   `main.cpp:508`). WatchdogTask sleeps 100 ms after the safe output while
   ControlTask goes on driving.
4. **A restart without a silent task** (`watchdog_skew`,
   `watchdog_manager.cpp:120`). A beat between reading the time and taking the
   critical section has the age 2^32 - 1. In the counterexample no task is late,
   now or at its previous beat. `RestartsForACause` shows that there
   is no other spurious cause.
5. **Publication in every round** (`network_republish`, `main.cpp:417`).
   `mqttWasConnected` is never set. `BrokerCatchesUp` depends on it: its mutant
   sets the flag, and then a failed first publication is never repeated, because
   its result is ignored (`main.cpp:419-422`). A repair has to change both.

Seen while modelling, without a run of its own:
- A copy of the latest sample that times out leaves `Measurement{}`, whose source
  is `PZEM`, also in a simulation build (`main.cpp:445`, `Reporting!CopyTimeout`);
  docs/mqtt-protocol.md:68 says the source is the one compiled in.
- The `watchdog` report and the status before a restart read `millis()` before the
  heartbeat, as in finding 4: one that is newer reads as `NO HEARTBEAT`
  (`watchdog_manager.cpp:104`).
- `protection.cpp:24-26` also says "any call failed to take the mutex", but only
  `update` and `tick` record the failure: a reset, an acknowledgement or a snapshot
  without the lock leaves no trace (lines 97-100, 115-118, 132-138), and an
  acknowledgement or snapshot that gets the lock does not latch a recorded one
  (lines 120, 140).
  `Controller` models them so, and `RecordedFailureIsNotLost` speaks of recorded
  failures only.
- A failed subscription is only logged, and the session stays up without
  commands (`mqtt_manager.cpp:139`, `Commands!Subscribe`).

## Proofs

For all values of the constants that satisfy the modules' named assumptions:

| Module | Theorem | Property |
|---|---|---|
| `ProtectionProofs` | `TypeCorrect`, `Invariance` | `TypeOK`, `IInv` |
| | `FaultRecordConsistent` | `FaultConsistent` |
| | `OverloadBounded` | `OverloadIsBounded` |
| | `EnergisedDataRecent` | `EnergisedDataIsRecent` |
| | `EnergiseOnGoodSample` | `EnergiseOnlyOnGoodSample` |
| | `FaultLatched` | `FaultIsLatched` |
| | `StaleGenuine` | `StaleFaultIsGenuine` |
| | `Refinement` | `RefinesLatchedRelay` |
| `ControllerProofs` | `TypeCorrect` | `TypeOK` |
| | `SamplesStayInOrder` | `SamplesInOrder` |
| | `RelayFollows` | `RelayFollowsCore` |
| | `SafeOutputOnHang` | `SafeOutputIfControlHangs` |
| | `RelayClosesOnly` | `RelayClosesOnVerdict` |
| | `RecordedFailureIsKept` | `RecordedFailureIsNotLost` |
| | `PinRefinement` | `PinIsLatchedRelay` |
| `WatchdogProofs` | `TypeCorrect` | `TypeOK` |
| | `SilenceIsNoticed` | `SilentTaskIsNoticed` |
| | `HangsAreCaught` | `EveryHangIsCaught` |
| | `RestartsHaveACause` | `RestartsForACause` |
| | `TaskWatchdogIsSecond` | `HardwareIsSecondLine` |
| `NetworkProofs` | `TypeCorrect` | `TypeOK` |
| | `SessionsHaveValidTime` | `SessionHasValidTime` |
| `CommandsProofs` | `TypeCorrect` | `TypeOK` |
| | `LinesAreMeant` | `CliRequestsWhatWasTyped` |
| | `RetainedIsHeldOff` | `RetainedCommandsAreDropped` |
| | `HoldoffEnds` | `LiveCommandsAct` |
| `ReportingProofs` | `TypeCorrect` | `TypeOK` |
| | `ReportedAgesAreReal` | `AgeIsReal` |
| | `TelemetryGoesOn` | `TelemetryIsRegular` |
| | `TelemetryKeepsItsPeriod` | `TelemetryIsSpaced` |
| | `CopiesAreNeverTorn` | `CopiesAreWhole` |
| | `RejectionsHaveACause` | `RejectsForACause` |
| | `WriterIsExact` | none: the writer's answer, for all pieces and buffers |
| | `ReportsFit` | `EveryReportFits` |

### Assumptions

Of the protection core (`ConfigAssumption`, `TimingAssumption`): the thresholds
are ordered, the confirmation time is positive, the control loop calls at least
every `MaxCallGap`, a sample waits at most `MaxSampleDelay` (less than half the
range of `millis()`), the sensor is heard within `MaxSilence` (else the watchdog
restarts), and ages are counted far enough, but to less than the range of
`millis()`. Of the supervision (`WatchdogAssumption`): the timeouts are ordered as
the code's 6 s, 1 s and 8 s are. Of reporting: a telemetry period and three rounds
are within the range of `millis()`, and `ProfileAssumption`: the limits leave room
for the simulated profile. TLC evaluates all of these on the runs.

Three theorems have a hypothesis of their own. `PinRefinement` has
`Writers = {"control"}`: WatchdogTask only supervises and `setup()` is through; with
more writers the relay may close for a moment after a fault (finding 3).
`RetainedIsHeldOff` has
`MaxDelivery < Holdoff` (see Runs). `ReportsFit` has `LongestFits`, which is a
calculation with the lengths of the firmware's texts; the run `reporting` makes it.

### The arguments

Every machine has an inductive invariant `IInv` (`TimeIsKnown` in `Network`), stated
in its own module in named parts; TLC has checked each on the constants of the
module's run. The initial state and each action get a proof step; action
properties follow from `IInv` in the first state.

*Protection core.* The bounds on overload and data are about real time, the code
only has wrapping stamps. `StampsExact` ties them together: the elapsed time to
the last sample is its real age, the re-arm stamp is exact while its age is
counted, and the silence clock is exact for half the range of `millis()` after a
re-arm. It cannot be exact for ever: a sample is then wrongly ignored (finding
1). `EnergisedStrong` is what an energised state owes to its last accepted
sample and its last call, and relates the confirmation timer to the first
overload sample; it does not need the re-arm bound, because an energised state
has passed the gate. The refinement maps every action to a step of `LatchedRelay`
or a stutter.

*Controller.* What is said of the pin holds between two rounds; in the middle of
`drive()` it is not true yet. `ControlDrivesItsResult` and `WatchdogDrivesOff` say
for each point of `drive()` how far a lone caller has got, and `CallsMatch` who can be
inside. `VerdictStands` keeps the object as it was judged while its verdict is
driven: nothing but ControlTask's critical section changes it, and a lock
failure opens the relay. That a closing relay rests on a good sample
(`EnergisedOnGoodSample`) needs `SamplesInOrder`, since the signed comparison with
the re-arm point orders only samples that come in order. With two writers the
shared flag may be anything; `OnlyControlWrites` is therefore part of the
properties, and `SafeOutputIfControlHangs` the case where WatchdogTask is alone.
`PinRefinement` maps the permit to the pin, and the latch to what the object and a
pending failure have recorded, except while ControlTask is on its way to open
the relay. `RelayFollowsCore` makes sure that nothing is cleared meanwhile; each step
of the tasks is then one of `LatchedRelay`, or shows nothing at the pin (`PinStep`,
which holds with other writers too, until they write).

*Watchdog.* `ReadingsAreRecent` bounds what passes between reading the time and
using it, `AgesAreReal` ties the stored stamps to real ages, and `RoundIsShort` says
at each point of WatchdogTask's loop how long the round has lasted. Then each task
is either young enough for the next judgement to come before the bound, or in the
start-up grace (`TasksAreJudged`). For the second line: the timer of the task
watchdog goes on until every covered task has reset it, so a covered task that
is silent keeps it waiting (`TimerWaits`), and no task's last reset is older than
the timer allows (`ResetsAreRecent`).

*Network.* `TimeIsKnown`: NetworkTask and `mqtt_manager.cpp` believe in the time, or
have a session, only after NTP has set it. It survives restarts because a new
task believes nothing.

*Commands.* `EditorFollows` compares the code's buffer with all keys pressed since
the line began. What those keys mean is a recursive function; that it exists and
is extended by one more key is shown by induction over its length.
`HoldoffIsReal` makes the unsigned age of the session its real one until that is
the whole range, `RetainedComesSoon` places each retained message in the first
`MaxDelivery` of its session, and `InboxIsOfSession` keeps messages from outliving it.

*Reporting.* `MutexIsHeld` lets one task be in the middle of a copy, and
`StoreIsHalfway` and `CopyIsHalfway` say what it has copied by then. `StampsAreReal`
follows a sample's age from the meter through the store to each reader. `TimerRuns` is
the disjunction behind the telemetry bound: a round without Wi-Fi, or a report
sent, was at most a round ago, or the timer has been running since but for the
reports lost, or it has just gone off. `GapIsReal` makes the timer exact within a
period of its start, which is what the spacing needs. `WriterIsExact` is by induction over the pieces: the community modules' fold is a
recursive function over sets of positions, which has to be shown to exist first.

Only model-checked: liveness under fairness, which is out of the prover's reach
(`LatchedFaultOpensRelay`, `LatchedFaultKeepsRelayOpen`, `BrokerCatchesUp`,
`SessionComesBack`), and `LongestFits`, which is a calculation.

## Not modelled

Blynk; the availability topic and the will message; the LCD, LEDs and the
wording of the diagnostics; topic names, build guards and the certificate, which
are compile-time constants. The creation of the protection mutex, which halts
inside `protectionBegin()` before any task exists. Durations inside the client
libraries, which are not in the repository: `Watchdog` lets any task be silent
for as long as it likes, and `Network` lets time pass between any two steps.
Whether the protection snapshot, the sample and the relay flag of one telemetry
report agree: they are read at different moments, and nothing promises that they
do.

## Plan

Done, in this order: `ProtectionCore`, `LatchedRelay`, `ProtectionMachine`, its
proofs; `Actuator`, `Controller`; `Watchdog`; `Network`; then `setup()` in
`Controller`, the task watchdog in `Watchdog`, restarts in `Network`, and
`Commands`, `Measurements`, `Telemetry`, `Reporting`.

Then the proofs: the core's; and with an inductive invariant each, those of
`Controller`, `Watchdog`, `Network`, `Commands` and `Reporting`.

To come:
1. The bounds on overload and data of `ProtectionMachine` for the composed
   `Controller`: a bound on the time between two rounds of ControlTask, as `Watchdog`
   gives it, has to become part of the composition.
2. What reaches the broker (`Network`) as an abstract specification of its own.
