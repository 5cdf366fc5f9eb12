SPECIFICATION Spec
CONSTANTS
  Asset = {"BTC","ETH"}
  Task = {"pipeline"}
  Prices = {1, 2}
  Sizes = {}
  Events = {"stop", "warn"}
  MaxActive = 2
  MaxResub = 2
  QueueCap = 2
  MinTrade = 1
  AccelPct = 2
  SeveritySet = TRUE
  ImmediateFills = TRUE
  PartialFills = TRUE
  Refusable = {"place", "market"}
  Losable = {"market"}
  InitPos = 2
  InitCash = 4
  MaxOrders = 2
  MaxPlaced = 3
INVARIANTS
  NoOrphans
  OneOpenPerDecision
  FillsBookedOnce
  QueuedOnce
PROPERTIES
  MarketReplacesLimit
  PlacementsBounded
