SPECIFICATION Spec
CONSTANTS
  Half = 8
  CountWrap = 1
  WarningPowerW = 1
  FaultPowerW = 1
  MinOperatingVoltageV = 0
  FaultConfirmMs = 1
  MaxMeasurementAgeMs = 0
  Readings <- MCFewReadings
  Commands = {"RESET", "ACK"}
  Readers = {"display"}
  Writers = {"control"}
  FollowState = TRUE
  QueueLength = 2
  CommandQueueLength = 1
  MaxNow = 2
INVARIANTS
  TypeOK
  RelayFollowsCore
  SamplesInOrder
PROPERTIES
  RelayClosesOnVerdict
  RecordedFailureIsNotLost
  PinIsLatchedRelay
