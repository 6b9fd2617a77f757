\* Two markets from open to close, no faults, no operators.
SPECIFICATION Spec
CONSTANTS
  Markets = {"m1", "m2"}
  WindowOpen <- TwoOpen
  WindowClose <- TwoClose
  Lead = 1
  EntryStart = 1
  TauTerminal = 2
  Zone = {3}
  One = 5
  Cent = 2
  Stake = 6
  InventoryCap = 12
  GlobalCap = 100
  Ttl = 0
  AutoKill = FALSE
  PauseStates = {FALSE}
  KillStates = {FALSE}
  MaxTime = 7
  MaxCrashes = 0
  MaxDbErrs = 0
  MaxDrops = 0
CHECK_DEADLOCK FALSE
INVARIANTS LedgerRests RowsFollowBook InventoryMatchesFills WithdrawnAtClose
