SPECIFICATION TrackSpec
CONSTANTS
  btc = btc
  None = None
  Intents <- MCIntents
  Symbols <- MCSymbols
  RulesOf <- MCRulesOf
  MaxOrders = 3
  MaxCrashes = 1
PROPERTIES
  SightStopsOrders
