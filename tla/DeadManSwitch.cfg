SPECIFICATION Spec
CONSTANTS
  Second = 3
  PingFreq = 15
  TimerPeriod = 1
  Latency = 2
  MaxOutage = 3
  MaxDrops = 2
  MaxTime = 40
CHECK_DEADLOCK FALSE
INVARIANTS
  NeverCancelled
