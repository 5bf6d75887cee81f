SPECIFICATION FairSpec
CONSTANTS
  Orders = {o1}
  Batches = {1, 2}
  TradesLookback = FALSE
  RetryLogon = TRUE
  EagerCommit = FALSE
  Faults = {"login"}
  MaxSessions = 2
  MaxRestDrops = 1
  MaxStale = 3
PROPERTIES
  LoginLeadsToReady
  StaleIsResolved
