CONSTANTS
  u1 = u1
  u2 = u2
  c1 = c1
  c2 = c2
  c3 = c3
  p1 = p1
  r1 = r1
  r2 = r2
  Users = {u1, u2}
  Paths = {p1}
  Commits = {c1, c2, c3}
  Author <- Authors
  Changed <- Files
  Reqs = {r1, r2}
  TokenTtl = 1
  None = None
  MaxTime = 1
  MaxTokens = 2
SYMMETRY Slots
SPECIFICATION Spec
CHECK_DEADLOCK FALSE
INVARIANT TypeOK
INVARIANT LinearHistory
INVARIANT OneRevisionPerCommit
INVARIANT OneTokenPerCommit
PROPERTY ImplementsLog
