SPECIFICATION FairSpec
CONSTANTS
  Symbols = {s1, s2, s3}
  Discarded = {s3}
  MaxPerSlice = 2
  MaxRequests = 3
  MaxDrops = 2
CHECK_DEADLOCK FALSE
INVARIANTS
  TypeOK
  SubscribedOnce
  SlicedOnce
  ReadyKnowsInstruments
PROPERTIES
  Streamed
