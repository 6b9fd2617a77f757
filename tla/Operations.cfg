\* What surrounds the engine, each part with its own small instance; see the README.
SPECIFICATION OperationsSpec
CONSTANTS
  Parts = {"control", "guard", "alerts", "jobs", "copilot", "bot", "backtest", "settles", "walk", "registry"}
  Requests = {r1, r2, r3}
  MaxInFlight = 1
  MaxCrashes = 2
  MaxDrops = 1
  MaxErrs = 1
  RatioMax = 1
  RatioWindow = 2
  BreachGap = 2
  KillThreshold = 2
  KillWindow = 4
  ResumeAfter = 3
  AutoKill = TRUE
  SafetyEnd = 7
  MaxSafetyEvents = 5
  LostAfter = 2
  DedupeTime = 3
  BreakerWindow = 2
  BreakerMax = 1
  Cooldown = 2
  AlertEnd = 3
  AlertDay = 4
  MaxSendErrs = 1
  MaxToggles = 2
  JobIds = {j1, j2}
  Threads = 1
  ChildLimit = 2
  FollowLimit = 3
  JobEnd = 4
  MaxApiCrashes = 1
  MaxJobErrs = 1
  Turns = {t1, t2, t3}
  Sessions = {s1, s2}
  CostCap = 1
  SessionCap = 1
  TokenCap = 2
  MaxTurnErrs = 1
  MaxResets = 1
  Users = {"u", "v", "stranger"}
  Authorized = {"u", "v"}
  Mail <- MCMail
  PromptTtl = 1
  AskTtl = 1
  MaxUpdates = 3
  MaxBotDeaths = 1
  MaxCallErrs = 1
  BotEnd = 2
  Tapes <- MCTapes
  Ranges <- MCRanges
  EarliestEntry = 0
  LatestEntry = 2
  DayLen = 8
  CooldownSeconds = 1
  DailyLossLimit = 2
  DailyTradeLimit = 2
  LossPauseThreshold = 2
  LossPauseWindow = 4
  LossPauseDuration = 2
  PaperOrders = {"o1", "o2", "o3"}
  MakerOrders = {"o3"}
  ScriptRuns = {b1, b2}
  CloseTime <- MCCloseTime
  SettleEnd = 4
  WfPlans <- MCPlans
  AucValues = {50, 54, 56}
  StableWindow = 3
  DriftWindow = 5
  PromoteAuc = 55
  MinFolds = 3
  Trainers = {m1, m2}
  TrainMarkets = {k1, k2, k3}
  Resolved = {k1, k2}
  Complete = {k1, k2}
  Priced = {k1}
  MinSamples = 1
  MaxTrainDeaths = 1
  MaxBoots = 1
INVARIANTS
  FollowsRowUnlessMissed GuardSound AlertsSound JobsSound CopilotSound CommandsSound
  BacktestSound WalkForwardSound SettlesSound RegistrySound
PROPERTY RestartRestoresPause
CHECK_DEADLOCK FALSE
