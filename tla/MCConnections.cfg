SPECIFICATION FairSpec
CONSTANTS
  MAX_QUEUED_OUTPUT = 4
  LineLength = 2
  NoticeLength = 2
  Faults = {"slow", "killed", "nofork"}
  User = {1, 2}
  Port = {1, 2}
  NotifierCalls = {"notify", "boot", "listen", "binary", "dump", "recycle", "open"}
  Workloads <- Work
  ConnectTimeout = 1
  DumpInterval = 2
  OutboundTimeout = 1
  TaskSeconds = 1
  MaxFds = 3
  MaxConn = 2
  MaxRoom = 5
  MaxSent = 5
  MaxBytes = 3
  MaxTasks = 1
  MaxCalls = 1
  MaxFaults = 3
  MaxRestarts = 1
INVARIANTS
  OnlineKnown
  HandlesSound
  OutputTold
  LinesFramed
  AnswersMatch
  TimersKept
PROPERTIES
  NobodyLingers
