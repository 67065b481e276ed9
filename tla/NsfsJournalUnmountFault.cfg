SPECIFICATION Spec
CONSTANTS
  Home = {bm, dir}
  Bitmap = bm
  S0 = s0
  S1 = s1
  Capacity = 4
  Faults = {"uflush"}
  MaxGen = 5
  MaxStamp = 2
  MaxFaults = 1
  MaxCrashes = 1
INVARIANT CleanNeedsNoReplay
