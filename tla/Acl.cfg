CONSTANTS
  None = None
  Users = {ann, root}
  SysAdmins = {root}
  RuleDirs <- RulePaths
  LevelsUsed = {0, 3}
  HeadTree <- SmallTree
  History <- SmallHistory
  Requests = {r1}
  PoolSize = 1
  MaxRuleId = 2
  MaxGroupId = 2
SPECIFICATION Spec
INVARIANT TypeOK
INVARIANT LevelIsNearest
INVARIANT TraceAgrees
INVARIANT ReadersAgree
PROPERTY WritesAreDelegated
