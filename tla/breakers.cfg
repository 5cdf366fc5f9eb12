SPECIFICATION LogSpec
CONSTANTS
  Navs = {0, 94, 97, 103}
  DdSoft = 5
  DdHard = 8
  DailySoft = 3
  DailyHard = 5
  FullPct = 4
  ResumePct = 50
  Cooldown = 1
  DayLength = 1
  Steps = {0, 1}
  MaxTime = 3
  MaxFaults = 1
INVARIANTS
  DeepHalted
  OncePerDay
  LossBounded
  ReturnsChain
  DrawdownIsLargest
PROPERTIES
  HaltUntilPeak
