SPECIFICATION Safety
CHECK_DEADLOCK FALSE
CONSTANTS
  WorkerCount = 2
  QueueSize = 1
  Capacity = 1
  Check = {"podCheck", "metricsCheck"}
  Alert = {"oom", "restarts", "cpu"}
  Owner <- MCOwner
  AlertsOf <- MCAlertsOf
  EmailEnabled = FALSE
  Request = {}
  None = None
INVARIANTS
  TypeOK
  NoPanic
  DatabaseOutlivesWork
  NoneSkipped
PROPERTY
  ImplementsFlow
