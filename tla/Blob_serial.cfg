CONSTANTS
  c1 = c1
  c2 = c2
  p1 = p1
  p2 = p2
  h1 = h1
  g1 = g1
  Hashes = {h1}
  Paths = {p1, p2}
  Clients = {c1, c2}
  Content <- Shared
  Collectors = {g1}
  PoolSize = 1
  TokenTtl = 2
  Grace = 1
  None = None
  MaxTime = 2
  MaxPrepares = 2
  MaxAdmin = 2
  MaxCrashes = 1
SPECIFICATION Spec
INVARIANT UploadsKept
PROPERTY CollectsGarbage
CHECK_DEADLOCK FALSE
