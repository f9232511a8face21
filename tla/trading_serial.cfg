SPECIFICATION Spec
CONSTANTS
  Users = {u1, u2}
  Symbols = {s1, s2}
  Requests = {r1, r2}
  NoRequest = NoRequest
  NoJob = NoJob
  Prices = {10, 20}
  Quantities = {1, 2}
  Actions = {"BUY", "SELL"}
  InitialBalance = 50
  MaxPosition = 3
  MaxExposure = 45
  MaxDailyLoss = 5
  InFlightPerUser = 1
  MaxStarts = 3
  Resets = TRUE
SYMMETRY FullSymmetry
INVARIANTS
  TypeOK
  CashIsConserved
  PositionsStayWithinLimit
  NoTradingAfterDailyLoss
PROPERTIES
  ResetLeavesCleanSlate
  ImplementsLedger
