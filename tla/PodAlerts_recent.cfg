SPECIFICATION Spec
CONSTANTS
  RestartThreshold = 1
  ContainerCount = 2
  MaxRestarts = 2
  MaxEvents = 2
PROPERTY
  RestartsAreRecent
