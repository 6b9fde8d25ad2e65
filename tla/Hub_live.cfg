SPECIFICATION SpecResponsive
CHECK_DEADLOCK FALSE
CONSTANTS
  Client = {c1, c2}
  Msg = {m1}
  Capacity = 1
  None = None
PROPERTIES
  Delivered
  Reaped
