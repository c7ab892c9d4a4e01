SPECIFICATION FaultSpec
CONSTANTS
  Unit = 100
  FeeRate = 1
  Slippage = 1
  RiskPerTrade = 2
  PositionFraction = 30
  DailyLossLimit = 2
  MaxLeverage = 300
  MaxOpenPositions = 3
  StopAtrMultiple = 2
  TargetRiskReward = 2
  DayLength = 2
  InitialEquity = 100000
  Shapes = {"flat"}
  Candles <- MCCandles
  Atrs = {100}
  None = None
  Faults <- MCFaults
  MaxFaults = 1
  Window = 3
  MinHistory = 2
  ReliableFeed = TRUE
  MaxCandles = 4
  MaxCrashes = 0
INVARIANTS
  EveryFillAudited
