SPECIFICATION Spec
CONSTANTS
  Tasks = {"control", "watchdog"}
  Supervisor = "watchdog"
  Wrap = 18
  HeartbeatTimeout = 2
  StartupGrace = 7
  SupervisorPeriod = 1
  HardwareTimeout = 7
  MaxSkew = 1
PROPERTIES
  RestartMeansSilence
