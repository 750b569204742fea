SPECIFICATION Spec
CONSTANTS
  t1 = t1
  t2 = t2
  r1 = r1
  r2 = r2
  i1 = i1
  i2 = i2
  i3 = i3
  b1 = b1
  b2 = b2
  k1 = k1
  k2 = k2
  k3 = k3
  None = None
  Types = {t1}
  Rooms = {r1}
  Ids = {i1}
  Blocks = {b1}
  Clients = {k1, k2}
  LastNight = 1
  MaxAlloc = 1
  Commands <- CancelCommands
  Edits = {}
  Overrides = FALSE
CHECK_DEADLOCK FALSE
SYMMETRY Symmetry
INVARIANTS
  CancelledGroupHoldsNothing
