SPECIFICATION Spec
CONSTANTS
  Home = {bm, dir}
  Bitmap = bm
  S0 = s0
  S1 = s1
  Capacity = 4
  Faults = {"images", "imgflush", "header", "homes", "homeflush", "clear", "clearflush", "super", "sync"}
  MaxGen = 5
  MaxStamp = 2
  MaxFaults = 1
  MaxCrashes = 2
INVARIANTS TypeOK RecoverySucceeds JournalIntact CleanNeedsNoReplay AcknowledgedIsDurable
PROPERTIES GenerationNeverRegresses ImplementsAtomicStore
