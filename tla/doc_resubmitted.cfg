SPECIFICATION Spec
CONSTANTS
  Asset = {"BTC","ETH"}
  Task = {"pipeline"}
  Prices = {1}
  Sizes = {}
  Events = {"stop"}
  MaxActive = 2
  MaxResub = 2
  QueueCap = 2
  MinTrade = 1
  AccelPct = 2
  SeveritySet = FALSE
  ImmediateFills = FALSE
  PartialFills = FALSE
  Refusable = {}
  Losable = {"query"}
  InitPos = 2
  InitCash = 4
  MaxOrders = 2
  MaxPlaced = 5
PROPERTIES
  ResubmissionsBounded
