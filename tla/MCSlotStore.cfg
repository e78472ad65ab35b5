CONSTANTS
  Procs = {p1, p2, p3}
  Keys = {k1}
  Values = {v1, v2}
  Absent = Absent
  Pending = Pending
  None = None
SPECIFICATION Spec
SYMMETRY Symmetry
INVARIANTS ToldIsDurable
PROPERTIES ConflictIsReal ImplementsWriteOnce
