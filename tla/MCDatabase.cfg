CONSTANTS
  MaxObj = 3
  Owner = {0, 1}
  PropName = {"p", "q"}
  VerbName = {"v"}
  MaxParents = 2
  MaxProps = 2
  MaxVerbs = 2
  MaxCalls = 3
  Workloads <- MCWorkloads
  Shapes <- MCShapes
SPECIFICATION Spec
INVARIANTS
  ValuesSound
  VerbFound
PROPERTIES
  ValuesKept
CHECK_DEADLOCK FALSE
