CONSTANTS
  ChunkSize = 2
  NumChunks = 14
  DirSize = 4
  NumDirs = 7
  Absent = Absent
  PageSize = 2
  MM = 4
  BLOCK_MAX = 2
  MemoryMaps <- MCMaps
  KernelStartPage = 2
  KernelEndPage = 4
  DirPages = 2
  MaxAlloc = 3
  FirmwareRuns <- MCFirmware
  DebugBuild = TRUE
SPECIFICATION Spec
INVARIANTS
  TypeOK
  NoAliasing
  CountersExact
  LockStep
  NoInternalAbort
  ScansAreFirstFit
PROPERTIES
  FreeReturnsFrames
  OwnershipSpec
CHECK_DEADLOCK FALSE
