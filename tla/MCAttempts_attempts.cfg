SPECIFICATION AttemptsSpec
CONSTANTS
  w1 = w1
  w2 = w2
  j1 = j1
  r1 = r1
  None = None
  Workers = {w1, w2}
  Jobs = {j1}
  Key <- SameKey
  Runs = {r1}
  Clerks = {}
  MaxAttempts = 2
  LastDate = 2
  ClockSkew = TRUE
CHECK_DEADLOCK FALSE
INVARIANTS
  FencedLock
  GiveUpSound
PROPERTIES
  ImplementsFencedWork EndsEventually AuditEnds
