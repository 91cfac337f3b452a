SPECIFICATION FairSpec
CONSTANTS
  Wrap = 4
  ReconnectInterval = 2
  NtpCheckInterval = 1
  MaxRound = 1
  Reports <- MCReports
INVARIANTS
  TypeOK
  SessionHasValidTime
PROPERTIES
  BrokerCatchesUp
  SessionComesBack
