SPECIFICATION Spec
CONSTANTS
  Address = {1, 2, 3}
  Slot = {"a", "b"}
  Calls = {"recycle", "abort", "orphan"}
  Files <- MCFiles
  FilesV4 <- MCFiles4
  Pairs <- MCPairs
  MaxCount = 2
  MaxMade = 3
  MaxAnon = 2
  MaxSpoiled = 2
  MaxShared = 1
  MaxRanged = 3
  FILE_IO_MAX_FILES = 2
  FILE_IO_BUFFER_LENGTH = 2
  Path = {"p", "q"}
  BadPath = {".."}
  ModeString <- MCModeString
  Written <- MCWritten
  LineSpan <- MCLineSpan
  RecordLength <- MCRecordLength
  Seek <- MCSeek
  Chmod <- MCChmod
  Disk <- MCDisk
  MaxSize = 4
  MaxCalls = 4
  Work = {"heap", "load", "maps", "files"}
INVARIANTS
  HeapSound
  GarbageFound
  DumpFaithful
  LoadedSound
  MapsAgree
  FilesSound
PROPERTIES
  ReadsRight
CHECK_DEADLOCK FALSE
