SPECIFICATION RefreshSpec
CONSTANTS
  t1 = t1
  t2 = t2
  t3 = t3
  Tabs = {t1, t2, t3}
  Life = 2
  Grace = 2
  Patience = 1
  Nothing = Nothing
CHECK_DEADLOCK FALSE
SYMMETRY Symmetry
INVARIANT RaceTolerated
