SPECIFICATION Spec
CONSTANTS
  NaN = NaN
  Limit <- MCLimit
  RatioPercent = 10
  Margin = 200
  Segment = 1
  DeviceIdLength = 32
  VersionLength = 5
  PayloadSize = 768
  PacketSize = 1024
  Loads <- MCLoads
  Readers = {"network", "cli"}
  Wrap = 5
  TelemetryPeriod = 2
  MaxRound = 1
  MaxAge = 2
  MaxLost = 1
INVARIANTS
  TypeOK
  AgeIsReal
  TelemetryIsRegular
  EveryReportFits
PROPERTIES
  RejectsForACause
  CopiesAreWhole
  
