\* One 5-minute market; a crash, a failing statement, lost tick rows, late candles.
SPECIFICATION Spec
CONSTANTS
  Markets = {"m1"}
  WindowOpen <- OneOpen
  WindowClose <- OneClose
  SettleT = 4
  EarliestEntryT = 1
  LatestEntryT = 3
  LateEntryGuard = 1
  WatchdogGrace = 0
  OhlcvAge = 1
  GiveUpAge = 2
  IdleAge = 2
  RehydrateWindow = 8
  WinPnl = 1
  LossPnl = 2
  DailyPauseLoss = 2
  CandleTimes = {0, 4}
  StoreOutcomes = {TRUE, FALSE}
  PauseStates = {FALSE}
  KillStates = {FALSE}
  MaxTime = 7
  MaxInbox = 2
  MaxCrashes = 1
  MaxDbErrs = 1
  MaxDrops = 0
  DayLen = 20
  CooldownSeconds = 1
  DailyLossLimit = 4
  DailyTradeLimit = 10
  LossPauseThreshold = 0
  LossPauseWindow = 6
  LossPauseDuration = 6
CHECK_DEADLOCK FALSE
INVARIANTS TypeOK FillsBacked
PROPERTIES RefinesTradeLedger
