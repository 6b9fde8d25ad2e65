SPECIFICATION SpecResponsive
CHECK_DEADLOCK FALSE
CONSTANTS
  Client = {c1}
  Msg = {m1}
  Capacity = 1
  None = None
PROPERTY
  StopsOnCancel
