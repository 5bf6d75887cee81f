SPECIFICATION StreamsSpec
CONSTANTS
  Keys = {k1}
  MaxQuantity = 2
  MaxEvents = 3
  MaxSessions = 2
  Symbols = {s1, s2}
  Bids = {1}
  Asks = {2}
  MaxLots = 1
  MaxChanges = 2
  MaxTrades = 2
  MaxBatch = 2
  MaxDrops = 1
SYMMETRY StreamsSymmetry
CHECK_DEADLOCK FALSE
INVARIANTS
  TypesOK
  ShownAsHeld
  SettledIsLatest
  TopAgrees
  TradesOnce
PROPERTY
  ImplementsMarketView
