SPECIFICATION FairSpec
CONSTANTS
  MaxInt = 7
  Base = 16
  ReadyVars = 9
  VRSlots = {2, 3}
  OptimNums = {0, 1, 2, 3}
  Objects <- MCObjects
  Parents <- MCParents
  Verbs <- MCVerbs
  Texts <- MCTexts
  FirstProps <- MCProps
  BuiltIns <- MCBuiltIns
  ProtectedProps = {}
  ProtectedFuncs = {"task_perms"}
  Players = {1}
  NoQuota = {3}
  NumVars = 11
  FgTicks = 60
  BgTicks = 40
  MaxDepth = 4
  MaxLen = 4
  Catchable = TRUE
  MaxRounds = 20
  Sources <- MCSources
  Stored <- MCStored
  Keywords <- MCKeywords
  Answers <- MCAnswers
  Taken <- MCTaken
INVARIANTS
  SameMeaning
  TextKept
  MachineSound
  TracebacksRight
PROPERTIES
  TurnEnds
CHECK_DEADLOCK FALSE
