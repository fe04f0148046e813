CONSTANTS
  MaxObj = 3
  MaxParents = 3
  Task = {t1, t2}
  Workloads <- MCWorkloads
SPECIFICATION Spec
INVARIANTS
  HierarchiesSound
SYMMETRY TaskSymmetry
CHECK_DEADLOCK FALSE
