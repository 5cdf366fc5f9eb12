SPECIFICATION FairSpec
CONSTANTS
  Asset = {"BTC", "AVAX", "PEPE", "PAXG"}
  UpgradeBars = 2
  ExitBars = 2
  SmallSize = 6
  RatioPct = 80
  LossBp = 100
  SmallRatioPct = 90
  SmallLossBp = 150
  Nav = 200
  Listed <- MCListed
  Universe <- MCUniverse
  TierCap <- MCTierCap
  CapOverride <- MCOverride
  PreTierCap <- MCPreTierCap
  PreCapOverride <- MCOverride
  Exposure <- MCExposure
  Holdings <- MCHoldings
  MaxCrypto = 200
  MaxTurnover = 70
  MinTrade = 2
  VolMultiplier = 5
  Penalty = 3
  BroadPenalty = 1
  BroadPct = 70
  Memes = {"PEPE"}
  MemeRegimes = {"TREND_BULL"}
  MemeTop = 2
  MemeWeight = 6
  PaxgWeight = 10
  Schedule <- MCSchedule
  FinalSell = 1
  Bars <- MCBars
  Markets <- MCMarkets
  Instants = {192, 16, 1}
  Exitable = {"PEPE"}
  MaxExits = 1
INVARIANT TypeOK
PROPERTIES WithinExposure UpgradeEarned CrisisExitEarned  RegimeFollows
CHECK_DEADLOCK FALSE
