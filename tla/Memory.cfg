SPECIFICATION Spec
CONSTANTS
  p1 = p1
  p2 = p2
  c1 = c1
  c2 = c2
  zero = zero
  Proc <- MCProc
  Client <- MCClient
  NoBytes = zero
  Sub = 2
  Word = 128
  E820 <- MCE820
  BootRegions <- MCBoot
  DirectMap = 62
  LowReserve = 2
  KernelRoot = 1
  Levels = 4
  Fan = 3
  PageSize = 24
  MinAlign = 2
  Header = 4
  Tag = 2
  HeapBase = 27
  ArenaPages = 3
  InitialPages = 1
  GrowthPages = 1
  Programs <- MCPrograms
  UserMin = 14
  DynamicBias = 2
  MaxImage = 8
  MaxArgs = 4
  MaxHeap = 6
  StackTop = 27
  StackPages = 2
  SpaceSize = 2
  FilesSize = 5
  KmallocSizes = {1, 13}
  Alignments = {8}
  Increments <- MCIncrements
  DmaPages = {1, 3}
  DmaLimit = 20
  MaxSteps = 5
INVARIANTS TypeOK MemoryIntact
SYMMETRY Symmetry
CHECK_DEADLOCK FALSE
