SPECIFICATION Spec
CONSTANTS
  Orders = {o1}
  Batches = {1, 2}
  TradesLookback = FALSE
  RetryLogon = TRUE
  EagerCommit = FALSE
  Faults = {}
  MaxSessions = 2
  MaxRestDrops = 0
  MaxStale = 0
INVARIANTS
  SnapshotFollowsSubscription
