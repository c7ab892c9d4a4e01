SPECIFICATION FairSpecWalk
CONSTANTS
  Unit = 100
  FeeRate = 1
  Slippage = 1
  RiskPerTrade = 2
  PositionFraction = 30
  DailyLossLimit = 3
  MaxLeverage = 300
  MaxOpenPositions = 3
  StopAtrMultiple = 2
  TargetRiskReward = 2
  DayLength = 2
  InitialEquity = 100000
  Candles <- MCCandles
  Atrs <- MCAtrs
  None = None
  Length = 5
  MinHistory = 2
  FundingRates <- MCFundingRates
  Histories <- MCHistories
  Grid <- MCGrid
  TrainSize = 3
  TestSize = 2
  StepSize = 0
CHECK_DEADLOCK FALSE
INVARIANTS
  TypeOKWalk
  Balanced
  AllAccountedFor
  DrawdownCoversLoss
  TestsTheBest
PROPERTIES
  TestsMoveOn
  WalkEnds
  WithinFraction
