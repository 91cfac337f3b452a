SPECIFICATION Spec
CONSTANTS
  Half = 4
  CountWrap = 2
  WarningPowerW = 1
  FaultPowerW = 2
  MinOperatingVoltageV = 0
  FaultConfirmMs = 2
  MaxMeasurementAgeMs = 1
  Readings <- MCReadings
  MaxCallGap = 1
  MaxSampleDelay = 2
  MaxSilence = 3
  AgeCap = 5
PROPERTIES
  AlwaysStaleIsGenuine
