SPECIFICATION Spec
CONSTANTS
  c1 = c1
  c2 = c2
  k1 = k1
  k2 = k2
  k3 = k3
  k4 = k4
  i1 = i1
  i2 = i2
  i3 = i3
  i4 = i4
  p1 = p1
  p2 = p2
  None = None
  Clients = {c1, c2}
  Keys = {k1, k2}
  Items = {i1, i2, i3, i4}
  Payments = {p1}
  Taxes = 1
  Prices <- Charges
  Rate <- Untaxed
  Complimentary <- LastNightFree
  LastDate = 3
  LastNight = 2
  MaxLives = 2
  RequireZero = TRUE
CHECK_DEADLOCK FALSE
SYMMETRY Symmetry
INVARIANTS
  TypeOK Corrected NightOnce BalanceIsLedger
PROPERTIES
  CreditExact ImplementsAccount
