\* Only the candles: a backfill from OKX, page by page.
CONSTANTS
  CandleTicks = 2
  PageCandles = 2
  Froms = {0}
  Tos = {8}
  LastTick = 9
  MaxPageErrs = 0
  Listings = {{0, 2, 4, 6, 8}}
SPECIFICATION CandlesSpec
INVARIANT OkxLeavesNoGap
CHECK_DEADLOCK FALSE
