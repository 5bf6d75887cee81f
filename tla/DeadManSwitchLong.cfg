SPECIFICATION Spec
CONSTANTS
  Second = 1
  PingFreq = 240
  TimerPeriod = 1
  Latency = 1
  MaxOutage = 1
  MaxDrops = 0
  MaxTime = 100
CHECK_DEADLOCK FALSE
INVARIANTS
  CancelledOnDisconnectOnly
