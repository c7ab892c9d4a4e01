SPECIFICATION Spec
CONSTANTS
  Unit = 100
  FeeRate = 1
  Slippage = 1
  RiskPerTrade = 2
  PositionFraction = 30
  DailyLossLimit = 2
  MaxLeverage = 300
  MaxOpenPositions = 3
  StopAtrMultiple = 2
  TargetRiskReward = 2
  DayLength = 2
  InitialEquity = 100000
  Shapes = {"flat", "dip"}
  Candles <- MCCandles
  Atrs <- MCAtrs
  None = None
  Window = 3
  MinHistory = 2
  ReliableFeed = TRUE
  MaxCandles = 5
  MaxCrashes = 1
INVARIANTS
  BreachStaysHalted
  AuditCoversState
PROPERTIES
  EntryWithinDailyLoss
  HaltFreezesBook
