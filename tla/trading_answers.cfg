SPECIFICATION FairSpec
CONSTANTS
  Users = {u1}
  Symbols = {s1}
  Requests = {r1, r2}
  NoRequest = NoRequest
  NoJob = NoJob
  Prices = {0, 10}
  Quantities = {0, 1, 2}
  Actions = {"BUY", "SELL", "buy"}
  InitialBalance = 30
  MaxPosition = 2
  MaxExposure = 45
  MaxDailyLoss = 5
  InFlightPerUser = 2
  MaxStarts = 4
  Resets = TRUE
INVARIANTS
  NeverOverdrawn
  PositionReadsAreCurrent
  LockedBuysStayWithinLimit
PROPERTIES
  EveryRequestIsAnswered
