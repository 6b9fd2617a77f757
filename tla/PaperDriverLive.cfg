\* A market whose window outlasts SettleT, with lost tick rows and a failing
\* statement: ticks arrive past SettleT, so tick path and watchdog race for the
\* same position; midnight falls between entry and settlement.  Liveness of
\* settlement and of the buffer sweep.
SPECIFICATION FairSpec
CONSTANTS
  Markets = {"m1"}
  WindowOpen <- LongOpen
  WindowClose <- LongClose
  SettleT = 3
  EarliestEntryT = 1
  LatestEntryT = 2
  LateEntryGuard = 0
  WatchdogGrace = 0
  OhlcvAge = 0
  GiveUpAge = 1
  IdleAge = 1
  RehydrateWindow = 8
  WinPnl = 1
  LossPnl = 2
  DailyPauseLoss = 2
  CandleTimes = {}
  StoreOutcomes = {TRUE, FALSE}
  PauseStates = {FALSE}
  KillStates = {FALSE}
  MaxTime = 6
  MaxInbox = 1
  MaxCrashes = 0
  MaxDbErrs = 1
  MaxDrops = 0
  DayLen = 3
  CooldownSeconds = 1
  DailyLossLimit = 4
  DailyTradeLimit = 10
  LossPauseThreshold = 0
  LossPauseWindow = 6
  LossPauseDuration = 6
CHECK_DEADLOCK FALSE
INVARIANTS SettledOnce EntryAccounted
PROPERTIES PositionsLeave BuffersReclaimed
