SPECIFICATION Spec
CONSTANTS
  Orders = {o1}
  Sockets = {c1, c2}
  LateServer = FALSE
  MaxVersion = 3
  MaxCancelAll = 1
  MaxDrops = 1
CHECK_DEADLOCK FALSE
INVARIANTS
  TypeOK
  ToldOnce
  ToldTheTruth
  Accounted
  CancelAllReaches
  InOrder
