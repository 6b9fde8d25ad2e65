SPECIFICATION CollectorsSpec
CHECK_DEADLOCK FALSE
CONSTANTS
  RestartThreshold = 1
  ContainerCount = 2
  MaxRestarts = 2
  MaxEvents = 2
  ResourceCount = 2
  Shape <- MCShape
  FileThreshold = 55
  EnvThreshold = 75
  MaxChanges = 2
INVARIANTS
  CollectorsTypeOK
  NoneMasked
  OOMSurvivesRestart
  NamesOneInTrouble
  SilenceIsOneAlert
  StableLoadsReported
