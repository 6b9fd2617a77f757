\* The global cap against two quotes that rest side by side.
SPECIFICATION Spec
CONSTANTS
  Markets = {"m1"}
  WindowOpen <- OneOpen
  WindowClose <- OneClose
  Lead = 1
  EntryStart = 1
  TauTerminal = 2
  Zone = {2, 3}
  One = 5
  Cent = 2
  Stake = 6
  InventoryCap = 100
  GlobalCap = 9
  Ttl = 0
  AutoKill = FALSE
  PauseStates = {FALSE}
  KillStates = {FALSE}
  MaxTime = 8
  MaxCrashes = 0
  MaxDbErrs = 0
  MaxDrops = 0
CHECK_DEADLOCK FALSE
INVARIANT RestingWithinGlobalCap
