CONSTANTS
  c1 = c1
  c2 = c2
  p1 = p1
  p2 = p2
  h1 = h1
  g1 = g1
  Hashes = {h1}
  Paths = {p1, p2}
  Clients = {c1, c2}
  Content <- Shared
  Collectors = {g1}
  PoolSize = 2
  TokenTtl = 1
  Grace = 1
  None = None
  MaxTime = 1
  MaxPrepares = 1
  MaxAdmin = 2
  MaxCrashes = 1
SPECIFICATION Spec
INVARIANT TypeOK
INVARIANT CountExact
INVARIANT QueuedAreUnreferenced
CHECK_DEADLOCK FALSE
