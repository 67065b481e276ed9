SPECIFICATION Spec
CONSTANTS
  RamNodes = 4
  NsfsNodes = {11, 12}
  NsfsRoot = 11
  InitialCapacity = 2
  MaxSize = 3
  Tables = {t1, t2}
  MaximumFds = 2
  OpenFiles = 2
  Paths <- MCPaths
  OpenFlags <- MCOpenFlags
  SpawnLists <- MCSpawnLists
  Archives <- MCArchives
  Counts = {0, 1, 2}
  MaxDepth = 2
  MaxDevices = 1
  MaxCalls <- MCMaxCalls
  MaxAllCalls = 5
INVARIANTS TypeOK ReferencesExact MountsAnchored ContentsAsWritten
CHECK_DEADLOCK FALSE
SYMMETRY Symmetry
