SPECIFICATION BackOfficeSpec
CONSTANTS
  w1 = w1
  w2 = w2
  r1 = r1
  r2 = r2
  c1 = c1
  None = None
  Workers = {w1, w2}
  Runs = {r1, r2}
  Clerks = {c1}
  MaxAttempts = 1
  LastDate = 3
  ClockSkew = TRUE
  u1 = u1
  u2 = u2
  u3 = u3
  k1 = k1
  k2 = k2
  admin = admin
  manager = manager
  property = property
  Users = {u1, u2, u3}
  Supers = {}
  Roles = {admin, manager}
  Permits <- RolePermits
  Properties = {property}
  Org = "organization"
  Permissions = {"users:manage", "roles:manage"}
  Manage = "users:manage"
  Administrative = {"users:manage", "roles:manage"}
  Founder = u1
  FirstRole = admin
  Offers <- RoleOffers
  Requests = {k1, k2}
  Nobody = Nobody
CHECK_DEADLOCK FALSE
INVARIANTS
  ClosedFrozen
  CommitSafe
  ChosenDateOnly
  AuditHeld
  JobAgrees
PROPERTIES
  ImplementsBusinessDay
  ImplementsAuthority
SYMMETRY Symmetry
