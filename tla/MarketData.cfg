\* Each part with its own small instance; see the README for the bounds.
CONSTANTS
  Parts = {"candles", "trades", "chainlink", "clusters", "loop", "paging", "discovery", "feeds"}
  CandleTicks = 2
  PageCandles = 2
  Froms = {0, 1}
  Tos = {7}
  LastTick = 8
  MaxPageErrs = 1
  Listings <- MCListings
  FlushAt = 3
  MaxTradeMsgs = 7
  MaxTradeDrops = 2
  MaxStaleStreak = 3
  MaxPolls = 9
  LookBack = 1
  SpotWalk = 1
  Quoted = {1}
  LastMinute = 3
  Mkts = {a, b, c}
  ListedAt <- MCListedAt
  ClosesAt <- MCClosesAt
  Fifteen = {b}
  NoTokens = {c}
  FailBudget = 2
  FailWindow = 3
  LoopEnd = 4
  MaxLoopErrs = 4
  MaxStreams = 5
  TradePage = 2
  MaxTape = 5
  WinStart = 1
  WinEnd = 2
  LastStamp = 3
  MaxFetchErrs = 1
  LastEvent = 4
  Families <- MCFamilies
  Options <- MCOptions
  EventPage = 2
  PageCap = 3
  MaxGammaErrs = 1
  MaxDiscoveries = 2
  FMarkets = {a, b}
  Closes <- MCCloses
  Window <- MCWindow
  Series1 = {a}
  Series2 = {}
  LeadTime = 1
  CaptureTime = 1
  GraceTime = 1
  PagesPerRefresh = 1
  FeedEnd = 4
  MaxFeedDrops = 1
  MaxRefreshErrs = 1
  MaxRefreshes = 2
SPECIFICATION MarketDataSpec
INVARIANTS BackfillComplete FinalUnlessOpen MarketsStreamed FetchersSkipNothing RowsAccounted OpenPriceStable BooksOfKnownMarkets
PROPERTIES BackfillEnds FeedsRecover
CHECK_DEADLOCK FALSE
