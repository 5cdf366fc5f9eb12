SPECIFICATION Spec
CONSTANTS
  Asset = {"BTC", "ETH"}
  Task = {"pipeline", "rebalance"}
  Prices = {1}
  Sizes = {1}
  Events = {"stop"}
  MaxActive = 1
  MaxResub = 2
  QueueCap = 2
  MinTrade = 1
  AccelPct = 2
  SeveritySet = FALSE
  ImmediateFills = FALSE
  PartialFills = FALSE
  Refusable = {}
  Losable = {"sweepcancel", "cancelpair", "query", "cancel"}
  InitPos = 2
  InitCash = 1
  MaxOrders = 3
  MaxPlaced = 1
PROPERTIES
  CriticalDrained
INVARIANTS
  ActiveBound
