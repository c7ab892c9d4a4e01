SPECIFICATION TrackSpec
CONSTANTS
  btc = btc
  None = None
  Intents <- MCIntents
  Symbols <- MCSymbols
  RulesOf <- MCRulesOf
  MaxOrders = 3
  MaxCrashes = 1
INVARIANTS
  TrackTypeOK
  AtMostOneOrder
  AcceptedAtItsLeverage
  WithinIntents
PROPERTIES
  ReportStopsOrders
  DoneStaysDone
