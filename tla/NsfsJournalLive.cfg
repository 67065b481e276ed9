SPECIFICATION FairSpec
CONSTANTS
  Home = {bm, dir}
  Bitmap = bm
  S0 = s0
  S1 = s1
  Capacity = 4
  Faults = {"images", "homes", "clearflush", "super", "uflush"}
  MaxGen = 5
  MaxStamp = 1
  MaxFaults = 1
  MaxCrashes = 1
PROPERTIES MountCompletes
