SPECIFICATION Spec
CONSTANTS
  Users = {u1}
  Symbols = {s1}
  Requests = {r1, r2}
  NoRequest = NoRequest
  NoJob = NoJob
  Prices = {10, 20}
  Quantities = {1, 2}
  Actions = {"BUY", "SELL"}
  InitialBalance = 30
  MaxPosition = 2
  MaxExposure = 45
  MaxDailyLoss = 5
  InFlightPerUser = 2
  MaxStarts = 3
  Resets = FALSE
INVARIANTS
  CashIsConserved
