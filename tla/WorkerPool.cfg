SPECIFICATION Spec
CHECK_DEADLOCK FALSE
CONSTANTS
  WorkerCount = 2
  QueueSize = 1
  Task = {t1, t2, t3}
  CtxTask = {t1}
  Stopper = {s1, s2}
  TimedStopper = {s2}
  NoTask = NoTask
INVARIANTS
  TypeOK
  AtMostOnce
  Accounted
  StopIsQuiescent
PROPERTIES
  ImplementsService
  StopReturns
  AcceptedRuns
