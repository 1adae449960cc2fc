CONSTANTS
  Tasks = {t1, t2, t3, t4}
  ZeroTimeouts = 0
SPECIFICATION Spec
SYMMETRY Interchangeable
INVARIANTS
  ExclusiveWriters
