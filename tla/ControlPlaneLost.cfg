\* One request and one dropped subscription, nothing else goes wrong.
SPECIFICATION ControlFairSpec
CONSTANTS
  Requests = {r1}
  MaxInFlight = 1
  MaxCrashes = 0
  MaxDrops = 1
  MaxErrs = 0
CHECK_DEADLOCK FALSE
PROPERTIES AcceptedPauseTakesEffect
