SPECIFICATION FairFeatureSpec
CONSTANTS
  Market = {100, 101, 104, 112}
  Window = 5
  MinBars = 4
  Sigmas = 2
  MinMovePct = 1
  FillLimit = 2
  MaxAge = 2
  MaxBars = 3
  Kept = 4
  VolWindow = 2
  SampleEvery = 2
  MinSamples = 2
  MaxAgain = 2
INVARIANTS
  BlindBounded
  StatusAgrees
  ReturnsFollow
  RepeatsBounded
PROPERTIES
  VolLearned
