SPECIFICATION Spec
CONSTANTS
  TotalInodes = 4
  TotalBlocks = 4
  NSFS_DIRECT_BLOCKS = 1
  NSFS_INDIRECT_BLOCKS = 2
  BlockCells = 2
  BlockUnits = 10
  Names = {"a", "bb"}
  NameUnits <- MCNameUnits
  MaxWrite = 2
  MaxSize = 3
  MaxDataOps = 3
INVARIANTS TypeOK FsckClean ReadsMatchWrites
CHECK_DEADLOCK FALSE
