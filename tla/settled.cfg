SPECIFICATION FairSpec
CONSTANTS
  Asset = {"BTC"}
  Task = {"pipeline", "rebalance", "monitor"}
  Prices = {1}
  Sizes = {1}
  Events = {"stop"}
  MaxActive = 1
  MaxResub = 2
  QueueCap = 2
  MinTrade = 1
  AccelPct = 2
  SeveritySet = FALSE
  ImmediateFills = FALSE
  PartialFills = FALSE
  Refusable = {}
  Losable = {"place"}
  InitPos = 2
  InitCash = 4
  MaxOrders = 1
  MaxPlaced = 2
PROPERTIES  EventuallyResolved 
