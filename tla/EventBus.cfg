SPECIFICATION Spec
CHECK_DEADLOCK FALSE
CONSTANTS
  Event = {e1, e2, e3}
  Observer = {hub, email}
  Capacity = 1
  NoEvent = NoEvent
INVARIANT
  FanOut
PROPERTY
  Isolation
