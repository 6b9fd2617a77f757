\* Quotes that expire, aggregate drops, a kill by the guard, a crash, a failing persist, a lost tick, pauses.
SPECIFICATION Spec
CONSTANTS
  Markets = {"m1"}
  WindowOpen <- OneOpen
  WindowClose <- ShortClose
  Lead = 1
  EntryStart = 1
  TauTerminal = 2
  Zone = {2, 3}
  One = 5
  Cent = 2
  Stake = 6
  InventoryCap = 12
  GlobalCap = 8
  Ttl = 2
  AutoKill = TRUE
  PauseStates = {TRUE, FALSE}
  KillStates = {TRUE, FALSE}
  MaxTime = 7
  MaxCrashes = 1
  MaxDbErrs = 2
  MaxDrops = 1
CHECK_DEADLOCK FALSE
INVARIANTS TypeOK OneQuotePerSide BookTracked CancelledNeverFills
