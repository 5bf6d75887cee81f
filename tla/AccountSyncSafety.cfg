SPECIFICATION Spec
CONSTANTS
  Orders = {o1, o2}
  Batches = {1, 2, 3}
  TradesLookback = TRUE
  RetryLogon = TRUE
  EagerCommit = FALSE
  Faults = {"subscribe", "login", "forget"}
  MaxSessions = 2
  MaxRestDrops = 1
  MaxStale = 2
SYMMETRY OrderSymmetry
INVARIANTS
  TypeOK
  CounterIsInFlight
  NoAckUnexpected
  LostOrdersAreQueued
  LostOrdersComplete
  NoDownloadUnexpected
  SubscribedInSession
  NothingLeftQueued
PROPERTIES
  ImplementsAccountStream
