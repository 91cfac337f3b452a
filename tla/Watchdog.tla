------------------------------ MODULE Watchdog ------------------------------
(***************************************************************************)
(* The two lines of supervision.  The first: heartbeat_monitor.cpp, the    *)
(* critical sections of watchdog_manager.cpp around it, and the loop of    *)
(* WatchdogTask.  The second: the task watchdog of ESP-IDF, configured and *)
(* fed through watchdog_manager.cpp; its timer starts over whenever every  *)
(* task it covers has reset it since the last time.                        *)
(*                                                                         *)
(* Every call reads millis() first and enters the critical section after;  *)
(* with the tasks on two cores, up to MaxSkew passes in between.  As in    *)
(* ProtectionMachine, millis() wraps and real ages are kept beside it.     *)
(***************************************************************************)
EXTENDS Clock

CONSTANTS
  Tasks,             \* the slots of the heartbeat table
  Supervisor,        \* WatchdogTask, which has a slot too
  HeartbeatTimeout,  \* HEARTBEAT_TIMEOUT_MS
  StartupGrace,      \* WATCHDOG_STARTUP_GRACE_MS
  SupervisorPeriod,  \* WATCHDOG_SUPERVISOR_PERIOD_MS
  HardwareTimeout,   \* WATCHDOG_TIMEOUT_MS
  MaxSkew            \* from reading millis() to the critical section

\* The longest a silent task can go unnoticed: the timeout, the grace period that
\* reopens when millis() wraps, and a supervision round before and after it.
NoticeBound ==
  HeartbeatTimeout + StartupGrace + 2 * (SupervisorPeriod + 2 * MaxSkew)

\* The longest a covered task can be silent at all: the timer starts over at most
\* once after its last reset.
HangBound == 2 * HardwareTimeout + MaxSkew

Cap == IF NoticeBound < HangBound THEN HangBound ELSE NoticeBound

ASSUME WatchdogAssumption ==
  /\ Supervisor \in Tasks
  /\ HeartbeatTimeout \in Nat /\ StartupGrace \in Nat
  /\ SupervisorPeriod \in Nat \ {0} /\ MaxSkew \in Nat
  /\ HardwareTimeout \in Nat
  /\ HeartbeatTimeout + SupervisorPeriod + 3 * MaxSkew < HardwareTimeout
  /\ Cap + MaxSkew + 1 < Wrap

VARIABLES
  millis,   \* millis()
  last,     \* last_: the stamp of each task's last beat
  seen,     \* seen_: the tasks that have beaten
  stamp,    \* the tasks inside watchdogManagerHeartbeat, with the time they read
  at,       \* where WatchdogTask is in its loop
  sampled,  \* the time watchdogManagerHealthy read
  startup,  \* when WatchdogTask started
  age,      \* real ages: of each task's last beat, of WatchdogTask's last round
  late,     \* the tasks whose last beat was late, or their first
  hung,     \* WatchdogTask hangs
  started,  \* the tasks that have called watchdogManagerRegisterCurrentTask
  failures, \* registrationFailures
  covered,  \* the tasks the task watchdog knows
  resets,   \* those that have reset it since its timer started over
  timer     \* the time since then

heartbeats == <<last, seen, stamp, late>>
supervisor == <<at, sampled, startup>>
hardware == <<covered, resets, timer>>
registration == <<started, failures>>
vars == <<millis, heartbeats, supervisor, age, hung, registration, hardware>>

NoStamp == -1

\* Only a restart is left after the bounds.
AgeCap == Cap + MaxSkew + 1
Older(a) == IF a < AgeCap THEN a + 1 ELSE a

Init ==
  /\ millis = 0 /\ startup = 0 /\ sampled = 0
  /\ last = [t \in Tasks |-> 0] /\ seen = {}
  /\ stamp = [t \in Tasks |-> NoStamp]
  /\ at = "start" /\ late = {} /\ hung = FALSE
  /\ age = [beat |-> [t \in Tasks |-> 0], round |-> 0]
  /\ started = {} /\ failures = 0
  /\ covered = {} /\ resets = {} /\ timer = 0

\* A reading of millis() that is not used yet.
Readings ==
  {stamp[t] : t \in {u \in Tasks : stamp[u] # NoStamp /\ ~(hung /\ u = Supervisor)}}
    \cup (IF at = "judge" /\ ~hung THEN {sampled} ELSE {})

\* WatchdogTask has the highest priority: unless it hangs, time passes only while
\* it sleeps or is inside a call.
SupervisorIsPrompt ==
  IF at = "sleep" THEN age.round < SupervisorPeriod
  ELSE at = "judge" \/ stamp[Supervisor] # NoStamp

Advance ==
  /\ \A r \in Readings : Elapsed(millis, r) < MaxSkew
  /\ hung \/ SupervisorIsPrompt
  /\ timer < HardwareTimeout
  /\ millis' = Later(millis)
  /\ age' = [beat |-> [t \in Tasks |-> Older(age.beat[t])], round |-> Older(age.round)]
  /\ timer' = IF covered = {} THEN 0 ELSE timer + 1
  /\ UNCHANGED <<heartbeats, supervisor, hung, registration, covered, resets>>

-----------------------------------------------------------------------------
(***************************************************************************)
(* A task starts, and beats at any time, or never.                         *)
(***************************************************************************)

\* Faulty variant: an error of esp_task_wdt_add() is reported as success.
RegisterBug(t, succeeds) ==
  /\ t \notin started
  /\ started' = started \cup {t}
  /\ covered' = IF succeeds THEN covered \cup {t} ELSE covered
  /\ IF t = Supervisor
       THEN at' = "beat" /\ startup' = millis /\ UNCHANGED sampled
       ELSE UNCHANGED supervisor
  /\ UNCHANGED <<millis, heartbeats, age, hung, failures, resets, timer>>

\* watchdogManagerRegisterCurrentTask(): a task that the task watchdog does not
\* accept is counted and goes on.
Register(t, succeeds) ==
  /\ t \notin started
  /\ started' = started \cup {t}
  /\ IF succeeds
       THEN covered' = covered \cup {t} /\ UNCHANGED failures
       ELSE failures' = failures + 1 /\ UNCHANGED covered
  /\ IF t = Supervisor
       THEN at' = "beat" /\ startup' = millis /\ UNCHANGED sampled
       ELSE UNCHANGED supervisor
  /\ UNCHANGED <<millis, heartbeats, age, hung, resets, timer>>

ReadForBeat(t) ==
  /\ t \in started /\ stamp[t] = NoStamp
  /\ t = Supervisor => at = "beat" /\ ~hung
  /\ stamp' = [stamp EXCEPT ![t] = millis]
  /\ UNCHANGED <<millis, last, seen, late, supervisor, age, hung, registration, hardware>>

\* esp_task_wdt_reset(), after every heartbeat.
ResetTaskWatchdog(t) ==
  IF resets \cup {t} = covered
    THEN resets' = {} /\ timer' = 0 /\ UNCHANGED covered
    ELSE resets' = (resets \cup {t}) \cap covered /\ UNCHANGED <<covered, timer>>

\* The end of watchdogManagerHeartbeat().
Beat(t) ==
  /\ stamp[t] # NoStamp
  /\ t = Supervisor => ~hung
  /\ last' = [last EXCEPT ![t] = stamp[t]]
  /\ seen' = seen \cup {t}
  /\ stamp' = [stamp EXCEPT ![t] = NoStamp]
  /\ at' = IF t = Supervisor THEN "grace" ELSE at
  /\ age' = [age EXCEPT !.beat[t] = Elapsed(millis, stamp[t])]
  /\ late' = IF t \in seen /\ age.beat[t] <= HeartbeatTimeout
               THEN late \ {t} ELSE late \cup {t}
  /\ ResetTaskWatchdog(t)
  /\ UNCHANGED <<millis, sampled, startup, hung, registration>>

-----------------------------------------------------------------------------
(***************************************************************************)
(* The rest of WatchdogTask's loop.                                        *)
(***************************************************************************)

SupervisorHangs ==
  /\ ~hung
  /\ hung' = TRUE
  /\ UNCHANGED <<millis, heartbeats, supervisor, age, registration, hardware>>

Sleep == at' = "sleep" /\ age' = [age EXCEPT !.round = 0]

\* During the startup grace nothing is judged.
CheckGrace ==
  /\ at = "grace" /\ ~hung
  /\ IF Elapsed(millis, startup) >= StartupGrace
       THEN at' = "judge" /\ sampled' = millis /\ UNCHANGED age
       ELSE Sleep /\ UNCHANGED sampled
  /\ UNCHANGED <<millis, heartbeats, startup, hung, registration, hardware>>

\* Faulty variant: a slot that never beat counts as healthy.
StaleBug(now) ==
  {t \in Tasks : t \in seen /\ Elapsed(now, last[t]) > HeartbeatTimeout}

\* Faulty variant: the operands of the subtraction swapped.
StaleBugSwapped(now) ==
  {t \in Tasks : t \notin seen \/ Elapsed(last[t], now) > HeartbeatTimeout}

\* Faulty variant: judged by the timeout of the task watchdog.
StaleBugHardware(now) ==
  {t \in Tasks : t \notin seen \/ Elapsed(now, last[t]) > HardwareTimeout}

\* ageMs() and firstStale(): a slot that never beat is stale too.
Stale(now) ==
  {t \in Tasks : t \notin seen \/ Elapsed(now, last[t]) > HeartbeatTimeout}

\* The safe output that is driven before the restart is Controller's subject.
Judge ==
  /\ at = "judge" /\ ~hung
  /\ IF Stale(sampled) = {}
       THEN Sleep
       ELSE at' = "restart" /\ UNCHANGED age
  /\ UNCHANGED <<millis, heartbeats, sampled, startup, hung, registration, hardware>>

Wake ==
  /\ at = "sleep" /\ ~hung
  /\ at' = "beat"
  /\ UNCHANGED <<millis, heartbeats, sampled, startup, age, hung, registration, hardware>>

Reboot ==
  /\ millis' = 0 /\ startup' = 0 /\ sampled' = 0
  /\ last' = [t \in Tasks |-> 0] /\ seen' = {}
  /\ stamp' = [t \in Tasks |-> NoStamp]
  /\ at' = "start" /\ late' = {} /\ hung' = FALSE
  /\ age' = [beat |-> [t \in Tasks |-> 0], round |-> 0]
  /\ started' = {} /\ failures' = 0
  /\ covered' = {} /\ resets' = {} /\ timer' = 0

\* The first line: safe output, delay, esp_restart().
Restart == at = "restart" /\ ~hung /\ Reboot

\* The second line: the panic of the task watchdog, without a safe output.
HardwareRestart == timer = HardwareTimeout /\ Reboot

Next ==
  \/ Advance
  \/ \E t \in Tasks, succeeds \in BOOLEAN : Register(t, succeeds)
  \/ \E t \in Tasks : ReadForBeat(t) \/ Beat(t)
  \/ SupervisorHangs
  \/ CheckGrace \/ Judge \/ Wake \/ Restart \/ HardwareRestart

Spec == Init /\ [][Next]_vars

-----------------------------------------------------------------------------
(***************************************************************************)
(* Properties.                                                             *)
(***************************************************************************)

\* The variables hold what the code's types allow.
TypeOK ==
  /\ millis \in Millis /\ startup \in Millis /\ sampled \in Millis
  /\ last \in [Tasks -> Millis] /\ seen \subseteq Tasks
  /\ stamp \in [Tasks -> Millis \cup {NoStamp}]
  /\ at \in {"start", "beat", "grace", "judge", "sleep", "restart"}
  /\ age \in [beat : [Tasks -> 0 .. AgeCap], round : 0 .. AgeCap]
  /\ late \subseteq seen /\ hung \in BOOLEAN
  /\ started \subseteq Tasks /\ seen \cup covered \subseteq started
  /\ failures \in Nat /\ resets \subseteq covered /\ timer \in 0 .. HardwareTimeout

\* While WatchdogTask runs, a task that stops beating, or never starts, is noticed
\* within NoticeBound, also across the wrap of millis(), where the grace period
\* opens again.
SilentTaskIsNoticed ==
  ~hung => \A t \in Tasks : age.beat[t] > NoticeBound => at = "restart"

\* As long as no registration is reported to have failed, no task that has once
\* beaten stays silent for longer than HangBound, WatchdogTask included
\* (docs/architecture.md: the task watchdog is the second line).
EveryHangIsCaught ==
  failures = 0 => \A t \in seen : age.beat[t] <= HangBound

\* The task watchdog, which restarts without a safe output, comes first only when
\* WatchdogTask itself hangs, or in the startup grace and the supervision round
\* after it; the grace opens again when millis() wraps.
IsSecondLine ==
  started # {} /\ started' = {} /\ at # "restart" =>
    hung \/ Elapsed(millis, startup) <= StartupGrace + SupervisorPeriod + 2 * MaxSkew

HardwareIsSecondLine == [][IsSecondLine]_vars

\* The controller is restarted only when some task has been silent for more than
\* the timeout, or beat after WatchdogTask had read the time.
RestartHasACause ==
  at = "judge" /\ at' = "restart" =>
    \E t \in Tasks :
      \/ age.beat[t] > HeartbeatTimeout
      \/ t \notin seen
      \/ age.beat[t] < Elapsed(millis, sampled)

RestartsForACause == [][RestartHasACause]_vars

\* The controller is restarted only when a task has missed its heartbeat,
\* this one or the one before (docs/troubleshooting.md).
RestartHasASilentTask ==
  at = "judge" /\ at' = "restart" =>
    \E t \in Tasks : t \notin seen \/ t \in late \/ age.beat[t] > HeartbeatTimeout

RestartMeansSilence == [][RestartHasASilentTask]_vars

-----------------------------------------------------------------------------
(***************************************************************************)
(* The inductive invariant, in named parts.                                *)
(***************************************************************************)

\* Who has started, and where WatchdogTask reads the time for its own beat.
StartedMatches ==
  /\ at = "start" <=> Supervisor \notin started
  /\ \A t \in Tasks : stamp[t] # NoStamp => t \in started
  /\ stamp[Supervisor] # NoStamp => at = "beat"

\* A reading of millis() is used MaxSkew after it was taken, or before.
ReadingsAreRecent == \A r \in Readings : Elapsed(millis, r) <= MaxSkew

\* Real ages are what the stamps say, until they are capped.
AgesAreReal ==
  \A t \in Tasks : age.beat[t] < AgeCap => Elapsed(millis, last[t]) = age.beat[t]

\* WatchdogTask starts at power-up and is not long in any part of its loop.
RoundIsShort ==
  ~hung =>
    /\ startup = 0
    /\ at = "start" => millis = 0
    /\ at \in {"start", "sleep"} => age.round <= SupervisorPeriod
    /\ at = "beat" =>
         age.round <= SupervisorPeriod
           + (IF stamp[Supervisor] = NoStamp THEN 0 ELSE Elapsed(millis, stamp[Supervisor]))
    /\ at = "grace" => age.round <= SupervisorPeriod + MaxSkew
    /\ at = "judge" => age.round <= SupervisorPeriod + MaxSkew + Elapsed(millis, sampled)

\* The last round began in a startup grace.
InGrace == age.round <= millis /\ millis - age.round < StartupGrace

\* A task was young enough when the last round began, or that was in a startup
\* grace and it was young enough when this one opened.
YoungEnough(t) ==
  \/ age.beat[t] <= HeartbeatTimeout + MaxSkew + age.round
  \/ /\ InGrace
     /\ age.beat[t] <= HeartbeatTimeout + SupervisorPeriod + 2 * MaxSkew + millis

TasksAreJudged == ~hung => \A t \in Tasks : YoungEnough(t)

\* The timer of the task watchdog waits for a task it covers, and that one has not
\* beaten since the timer started over, no more than a task that has not started.
TimerWaits ==
  /\ covered = {} => timer = 0
  /\ covered # {} => resets # covered
  /\ \A t \in Tasks \ resets : t \in covered \/ t \notin started => timer <= age.beat[t]

\* Without a failed registration a task has reset the timer since it started over,
\* or within the time before.
ResetsAreRecent ==
  failures = 0 =>
    /\ started \subseteq covered
    /\ \A t \in seen :
         age.beat[t] <= MaxSkew + timer + (IF t \in resets THEN 0 ELSE HardwareTimeout)

IInv ==
  /\ TypeOK /\ StartedMatches /\ ReadingsAreRecent /\ AgesAreReal
  /\ RoundIsShort /\ TasksAreJudged /\ TimerWaits /\ ResetsAreRecent
=============================================================================
