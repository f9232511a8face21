SPECIFICATION FairSpec
CONSTANTS
  Symbols = {"AAPL"}
  Followed = {"AAPL"}
  Prices = {100, 110, 140}
  Requests = {r1}
  StaleAfter = 0
  Screens = {c1}
  MaxQueue = 1
  MaxTime = 1
INVARIANTS TypeOK OldPricesStayClose
PROPERTIES PriceFollowsProvider ScreenFollowsProvider
