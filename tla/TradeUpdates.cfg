SPECIFICATION Spec
CONSTANTS
  Keys = {k1, k2}
  NoKey = none
  MaxTime = 2
  MaxItems = 4
CHECK_DEADLOCK FALSE
INVARIANTS
  TypeOK
  EveryFillOnce
  OneOrderEach
  OwnTime
