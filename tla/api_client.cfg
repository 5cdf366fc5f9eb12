SPECIFICATION FairSpec
CONSTANTS
  Task = {"pipeline", "rebalance", "monitor"}
  Endpoint = {"/v3/ticker", "/v3/place_order"}
  Limit = 6
  Reserve = 4
  Threshold = 2
INVARIANTS RateKept
PROPERTY CallsEnd
