SPECIFICATION Spec
CONSTANTS
  Unit = 1000
  Periods <- MCPeriods
  MinimumHistory = 4
  BreakoutLookback = 2
  BreakoutVolume = 1500
  PullbackDistance = 500
  HighVolatility = 35
  TrendSpread = 5
  Multiple = 2
  Shapes <- MCShapes
  Window = 6
  Confidences = {64, 65, 101}
  MinConfidence = 65
  None = None
  NaN = NaN
  Failure = Failure
  MaxCandles = 7
  MaxGaps = 1
CHECK_DEADLOCK FALSE
INVARIANTS
  TypeOK
  Corroborated
  SidesAlike
  WholeCandles
PROPERTIES
  NoRepainting
