SPECIFICATION FairSpec
CONSTANTS
  Half = 8
  CountWrap = 1
  WarningPowerW = 1
  FaultPowerW = 1
  MinOperatingVoltageV = 0
  FaultConfirmMs = 1
  MaxMeasurementAgeMs = 0
  Readings <- MCGoodReadings
  Commands = {"RESET"}
  Readers = {"display"}
  Writers = {"control", "watchdog", "setup"}
  FollowState = TRUE
  QueueLength = 1
  CommandQueueLength = 1
  MaxNow = 0
INVARIANTS
  SafeOutputIfControlHangs
PROPERTIES
  LatchedFaultOpensRelay
  LatchedFaultKeepsRelayOpen
CHECK_DEADLOCK FALSE
