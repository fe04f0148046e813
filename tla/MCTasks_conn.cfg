CONSTANTS
  Queue = {1, 2, 3}
  InputHiwat = 2
  TaskId = {1, 2, 3}
  User = {"u1", "u2"}
  Conn = {"c1", "c2"}
  Workloads <- Clients
  Durations = {0}
  TaskLimit <- NoLimit
  Spare = 0
  MaxDrift = 1
  MaxTime = 1
  MaxUsage = 0
SPECIFICATION Spec
INVARIANTS
  NobodyForgotten
  UniquePlayer
PROPERTIES
  ReaderNeverFreed
CHECK_DEADLOCK FALSE
