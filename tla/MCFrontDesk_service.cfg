SPECIFICATION Spec
CONSTANTS
  r1 = r1
  r2 = r2
  s1 = s1
  s2 = s2
  k1 = k1
  k2 = k2
  None = None
  Rooms = {r1}
  Tended = {}
  Blockable = {r1}
  Stays = {s1}
  Clerks = {}
  LastDate = 2
  Kinds = {"OUT_OF_ORDER", "OUT_OF_SERVICE"}
  Slots = 2
  RequireInspected = FALSE
CHECK_DEADLOCK FALSE
INVARIANT ServiceAgrees
