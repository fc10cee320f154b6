CONSTANTS
  u1 = u1
  u2 = u2
  p1 = p1
  r1 = r1
  r2 = r2
  Users = {u1, u2}
  Admins = {u2}
  Paths = {p1}
  Reqs = {r1, r2}
  PoolSize = 2
  Ttls = {}
  DefaultTtl = 1
  Never = Never
  None = None
  MaxTime = 1
  MaxGrants = 3
SYMMETRY Slots
SPECIFICATION Spec
PROPERTY NoOverwrite
CHECK_DEADLOCK FALSE
