SPECIFICATION Spec
CONSTANTS
  Asset <- OneAsset
  BaseStop <- MajorStop
  Schedule <- ConfiguredSchedule
  Steps = {0, 40}
  Restarts = TRUE
  Prices = {92, 100, 103, 107}
  RoundLeft = 200
  FinalSell = 1
  Floor = 200
  MidGain = 250
  HighGain = 500
  MidPct = 80
  HighPct = 60
PROPERTIES
  StopRatchets
  Guarded
