------------------------------ MODULE Actuator ------------------------------
(***************************************************************************)
(* The relay output of actuator.cpp.  drive() has no lock: ControlTask and *)
(* WatchdogTask, which run on different cores, may be inside it together,  *)
(* so it is cut into the accesses to what they share: the commandedOn flag *)
(* and the relay pin.  The LEDs and the mismatch counter are left out: no  *)
(* decision reads them.                                                    *)
(***************************************************************************)
CONSTANTS
  Writers,      \* the tasks that call the actuator
  FollowState   \* RelayOutputMode::FOLLOW_STATE; FALSE is HOLD_OFF

ASSUME ModeAssumption == FollowState \in BOOLEAN

VARIABLES
  relay,        \* the pin: TRUE is the ON level
  commandedOn,  \* the shared flag
  drive         \* where each writer is in drive(), and its locals

actuatorVars == <<relay, commandedOn, drive>>

DriveSteps == {"idle", "level", "write", "check", "retry", "done"}

\* on: the command; level: what this call writes to the pin; FALSE when they are
\* no longer read.
Drive == [at : DriveSteps, on : BOOLEAN, level : BOOLEAN]
NotDriving == [at |-> "idle", on |-> FALSE, level |-> FALSE]

ActuatorTypeOK ==
  relay \in BOOLEAN /\ commandedOn \in BOOLEAN /\ drive \in [Writers -> Drive]

\* actuatorBegin(): OFF before anything else runs.
ActuatorInit ==
  relay = FALSE /\ commandedOn = FALSE /\ drive = [w \in Writers |-> NotDriving]

ActuatorRestart ==
  relay' = FALSE /\ commandedOn' = FALSE /\ drive' = [w \in Writers |-> NotDriving]

-----------------------------------------------------------------------------
\* Faulty variant: only INIT opens the relay.
RelayCommandedOnBug(state) == state # "INIT"

\* outputsForState: the relay is commanded on in the two operating states only.
RelayCommandedOn(state) == state \in {"NORMAL", "WARNING"}

\* In a simulation build the pin only ever receives the OFF level.
RelayPinDrivenOn(commanded) == commanded /\ FollowState

\* drive() is entered; a task is in it at most once.
StartDrive(w, state) ==
  /\ drive[w].at = "idle"
  /\ commandedOn' = RelayCommandedOn(state)
  /\ drive' = [drive EXCEPT ![w] =
                 [at |-> "level", on |-> RelayCommandedOn(state), level |-> FALSE]]
  /\ UNCHANGED relay

\* The flag is a plain bool: the compiler may read it back, or use the value
\* it has just stored.
ChooseLevel(w) ==
  /\ drive[w].at = "level"
  /\ \E seen \in {commandedOn, drive[w].on} :
       drive' = [drive EXCEPT ![w] =
                      [at |-> "write", on |-> FALSE, level |-> RelayPinDrivenOn(seen)]]
  /\ UNCHANGED <<relay, commandedOn>>

WriteRelay(w) ==
  /\ drive[w].at = "write"
  /\ relay' = drive[w].level
  /\ drive' = [drive EXCEPT ![w].at = "check"]
  /\ UNCHANGED commandedOn

\* The pin is read back after the LEDs were written.
CheckRelay(w) ==
  /\ drive[w].at = "check"
  /\ drive' = IF relay = drive[w].level
                THEN [drive EXCEPT ![w] = [NotDriving EXCEPT !.at = "done"]]
                ELSE [drive EXCEPT ![w].at = "retry"]
  /\ UNCHANGED <<relay, commandedOn>>

RetryRelay(w) ==
  /\ drive[w].at = "retry"
  /\ relay' = drive[w].level
  /\ drive' = [drive EXCEPT ![w] = [NotDriving EXCEPT !.at = "done"]]
  /\ UNCHANGED commandedOn

\* drive() returns to its caller.
Return(w) ==
  /\ drive[w].at = "done"
  /\ drive' = [drive EXCEPT ![w] = NotDriving]
  /\ UNCHANGED <<relay, commandedOn>>

DriveStep(w) == ChooseLevel(w) \/ WriteRelay(w) \/ CheckRelay(w) \/ RetryRelay(w)
=============================================================================
