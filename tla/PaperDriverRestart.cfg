\* A restart in the middle of a window.
SPECIFICATION Spec
CONSTANTS
  Markets = {"m1"}
  WindowOpen <- OneOpen
  WindowClose <- ShortClose
  SettleT = 3
  EarliestEntryT = 1
  LatestEntryT = 2
  LateEntryGuard = 0
  WatchdogGrace = 0
  OhlcvAge = 1
  GiveUpAge = 2
  IdleAge = 2
  RehydrateWindow = 8
  WinPnl = 1
  LossPnl = 2
  DailyPauseLoss = 2
  CandleTimes = {}
  StoreOutcomes = {TRUE}
  PauseStates = {FALSE}
  KillStates = {FALSE}
  MaxTime = 7
  MaxInbox = 2
  MaxCrashes = 1
  MaxDbErrs = 0
  MaxDrops = 0
  DayLen = 20
  CooldownSeconds = 1
  DailyLossLimit = 4
  DailyTradeLimit = 10
  LossPauseThreshold = 0
  LossPauseWindow = 6
  LossPauseDuration = 6
CHECK_DEADLOCK FALSE
INVARIANTS OneEntryPerMarket
