SPECIFICATION Spec
CONSTANTS
  p1 = p1
  p2 = p2
  p3 = p3
  o1 = o1
  Thread <- MCThread
  Pipe <- MCPipe
  Key <- MCKey
  Idle = idle
  NoThread = none
  NoKey = nokey
  Init1 = p1
  Quantum = 1
  MaxSleep = 1
  MaxDepth = 0
  Capacity = 2
  NS_PIPE_ATOMIC_MAX = 2
  ReadSizes = {1, 2}
  WriteSizes = {2, 3}
INVARIANTS TypeOK NoLostWakeup PipeLifetime StreamIntact ProcessTree DeadStayDead
SYMMETRY Symmetry
