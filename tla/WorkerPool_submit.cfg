SPECIFICATION Safety
CHECK_DEADLOCK FALSE
CONSTANTS
  WorkerCount = 0
  QueueSize = 2
  Task = {t1, t2}
  CtxTask = {}
  Stopper = {s1}
  TimedStopper = {}
  NoTask = NoTask
INVARIANT
  SubmitReturns
