SPECIFICATION Spec
CHECK_DEADLOCK FALSE
CONSTANTS
  WorkerCount = 1
  QueueSize = 1
  Capacity = 1
  Check = {"podCheck"}
  Alert = {"oom"}
  Owner <- MCOwner
  AlertsOf <- MCAlertsOf
  EmailEnabled = TRUE
  Request = {r1}
  None = None
PROPERTIES
  ShutdownEnds
  StoredIsTold
