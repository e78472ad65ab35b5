CONSTANTS
  Commands = {c1, c2}
  Jobs = {j1, j2, j3}
  Base = Base
  N = 2
  Generations = {g1, g2}
  None = None
  MaxAncestry = 64
SPECIFICATION Spec
INVARIANTS LineageIsConsistent
CHECK_DEADLOCK FALSE
