SPECIFICATION Spec
CONSTANTS
  r1 = r1
  r2 = r2
  s1 = s1
  s2 = s2
  k1 = k1
  k2 = k2
  None = None
  Rooms = {r1, r2}
  Tended = {r1}
  Blockable = {r2}
  Stays = {s1, s2}
  Clerks = {k1, k2}
  LastDate = 2
  Kinds = {"OUT_OF_ORDER"}
  Slots = 1
  RequireInspected = FALSE
CHECK_DEADLOCK TRUE
INVARIANTS
  OccupancyAgrees
  OutOfOrderKept
PROPERTIES
  LeftRoomQueued ImplementsLodging
SYMMETRY Symmetry
