\* Two consecutive markets in one day, operators pausing and arming the kill
\* switch, a dropped subscription; no crash and no failing statement.
SPECIFICATION Spec
CONSTANTS
  Markets = {"m1", "m2"}
  WindowOpen <- TwoOpen
  WindowClose <- TwoClose
  SettleT = 3
  EarliestEntryT = 1
  LatestEntryT = 2
  LateEntryGuard = 0
  WatchdogGrace = 0
  OhlcvAge = 1
  GiveUpAge = 2
  IdleAge = 2
  RehydrateWindow = 8
  WinPnl = 1
  LossPnl = 2
  DailyPauseLoss = 2
  CandleTimes = {}
  StoreOutcomes = {TRUE}
  PauseStates = {TRUE, FALSE}
  KillStates = {TRUE}
  MaxTime = 7
  MaxInbox = 1
  MaxCrashes = 0
  MaxDbErrs = 0
  MaxDrops = 1
  DayLen = 20
  CooldownSeconds = 1
  DailyLossLimit = 4
  DailyTradeLimit = 10
  LossPauseThreshold = 0
  LossPauseWindow = 6
  LossPauseDuration = 6
CHECK_DEADLOCK FALSE
INVARIANTS OneEntryPerMarket LedgerMatchesDb LedgersAgree SettleAfterEntry
PROPERTIES NoEntryBelowDailyPause
