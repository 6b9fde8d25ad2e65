SPECIFICATION PageSpec
CHECK_DEADLOCK FALSE
CONSTANTS
  AlertCount = 3
  Severities <- MCSeverities
  SeverityOf <- MCSeverityOf
  MayBeInfinite = {1}
  Limit = 2
  MaxUnread = 1
  FetchCount = 2
  MaxPushes = 1
  Socket = {1, 2, 3, 4}
  MaxMissed = 3
  MaxFaults = 3
  MaxCalls = 3
INVARIANTS
  PageTypeOK
  OneOfEach
  NeverStranded
  NoDuplicates
  BadgeNeverHides
PROPERTIES
  ComesBack
  CatchesUp
