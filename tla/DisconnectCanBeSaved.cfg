CONSTANTS
  Secret = Secret
  None = None
  Calls <- TwoCalls
  PoolSize = 2
  LoginModes <- TwoModes
  MaxLogins = 2
  MaxSockets = 2
SPECIFICATION FairSpec
PROPERTIES
  DisconnectCanBeSaved
CHECK_DEADLOCK FALSE
