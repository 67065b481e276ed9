SPECIFICATION Spec
CONSTANTS
  Thread = {t1, t2, t3}
  Idle = idle
  NoThread = none
  Key = {k1}
  NoKey = nokey
  Quantum = 1
  MaxSleep = 2
  MaxDepth = 1
INVARIANTS TypeOK QueuesCoherent NoThreadLost SleepersOnTime
PROPERTIES RescheduleNotForgotten NoOvertaking
