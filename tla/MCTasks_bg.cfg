CONSTANTS
  Queue = {1, 2}
  InputHiwat = 2
  TaskId = {1, 2, 3}
  User = {"u1", "u2"}
  Conn = {}
  Workloads <- Programmers
  Durations = {0, 1}
  TaskLimit = 2
  Spare = 1
  MaxDrift = 1
  MaxTime = 2
  MaxUsage = 1
SPECIFICATION FairSpec
INVARIANTS
  QueuesSound
  CountsRight
  NoStrandedWork
  TasksListed
PROPERTIES
  ReadyTaskRuns
