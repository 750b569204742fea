SPECIFICATION DatabaseSpec
CONSTANTS
  w1 = w1
  w2 = w2
  j1 = j1
  j2 = j2
  c1 = c1
  c2 = c2
  q1 = q1
  q2 = q2
  q3 = q3
  h1 = h1
  h2 = h2
  h3 = h3
  h4 = h4
  l1 = l1
  l2 = l2
  l3 = l3
  t1 = t1
  t2 = t2
  t3 = t3
  None = None
  Null = Null
  Nothing = Nothing
  Workers = {w1, w2}
  Jobs = {j1, j2}
  MaxAttempts = 1
  Key <- SameKey
  Clients = {c1, c2}
  Stays = {1, 2}
  Rooms = {1, 2}
  Cells = {1, 2}
  Spans = {{1, 2}}
  Blocks = {1, 2}
  RatePlans = {1, 2}
  Keys = {1}
  MaxRow = 4
  Calls = {q1, q2, q3}
  Hashes = {h1, h2, h3, h4}
  Links = {l1, l2, l3}
  Threshold = 2
  MaxFailures = 4
  Tabs = {t1, t2, t3}
  Life = 2
  Grace = 2
  Patience = 1
CHECK_DEADLOCK FALSE
SYMMETRY Symmetry
CONSTRAINT WellBehaved
INVARIANTS
  DatabaseTypeOK KeyExclusive OnlyInvertedDeadlock
  SessionsCurrent AttemptsCounted StaysSignedIn
