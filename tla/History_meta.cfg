CONSTANTS
  a = a
  a_b = a_b
  a_b_f = a_b_f
  a_bc = a_bc
  h1 = h1
  h2 = h2
  Root = Root
  Paths = {a, a_b, a_b_f, a_bc}
  Parent <- ParentOf
  Ancestors <- AncestorsOf
  Order <- TextOrder
  StartsWith <- TextRange
  Hashes = {h1, h2}
  NamedDirs <- TopDir
  Null = Null
  None = None
  MaxRev = 4
  MaxBatch = 2
  MaxRows = 5
  MaxPurges = 1
SPECIFICATION Spec
INVARIANT EveryFileRemembered
CHECK_DEADLOCK FALSE
SYMMETRY HashSymmetry
