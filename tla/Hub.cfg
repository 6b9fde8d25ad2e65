SPECIFICATION Safety
CHECK_DEADLOCK FALSE
CONSTANTS
  Client = {c1, c2}
  Msg = {m1, m2}
  Capacity = 1
  None = None
INVARIANTS
  TypeOK
  OneWriter
  NoGhosts
  Gapless
