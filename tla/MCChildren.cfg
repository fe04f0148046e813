CONSTANTS
  Slot = {1, 2}
  Pid = {p1, p2, p3}
  MaxCheckpoints = 2
  Calls = {"exec", "kill"}
  Faults = {"fork", "write", "dump"}
SPECIFICATION FairSpec
INVARIANTS
  WaiterServed
  NoDanglingVm
  NoLeakedSlot
PROPERTIES
  ExecReturns
