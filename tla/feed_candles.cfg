SPECIFICATION Spec
CONSTANTS
  Symbols = {"AAPL"}
  Prices = {100, 110, 120}
  Timeframes = {"1m", "5m"}
  Width <- Widths
  MaxCandles = 2
  MaxTime = 7
INVARIANTS TypeOK OneCandlePerBucket NestedCandlesAgree
