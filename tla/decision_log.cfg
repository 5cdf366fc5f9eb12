SPECIFICATION FairSpec
CONSTANTS
  Entry = {e1, e2, e3}
  Trade = {e1}
  Threshold = 2
  MaxBreaks = 2
INVARIANTS
  SpoiledBounded
  ReplayBounded
  CleanStopComplete
PROPERTIES
  KeepsPromise
  WrittenEventually
CHECK_DEADLOCK FALSE
