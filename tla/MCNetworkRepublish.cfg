SPECIFICATION Spec
CONSTANTS
  Wrap = 4
  ReconnectInterval = 1
  NtpCheckInterval = 1
  MaxRound = 2
  Reports <- MCOneReport
INVARIANTS
  PublishesOnlyChanges
