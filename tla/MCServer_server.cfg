SPECIFICATION Spec
CHECK_DEADLOCK FALSE
CONSTANTS
  Jobs = {j1, j2}
  Concurrency = 2
  MaxAttempts = 2
  MaxErrors = 1
  None = None
  MaxVersion = 2
  MaxWire = 2
  Reports = {r1, r2, r3, r4}
  Heavy = {r1, r2, r3}
  Limit = 1
INVARIANTS TypeOK NotForgotten StopsClaiming Fresh SlotsExact
PROPERTIES Served Answered
