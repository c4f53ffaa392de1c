SPECIFICATION Spec
CONSTANTS
  Executes = {}
  Cancels = {c1}
  NumNodes = 1
  PolicyGate = FALSE
  RunTimeout = FALSE
  MaxStalls = 1
  MaxCrashes = 0
  MaxBeats = 0
  MaxFaults = 0
INVARIANT CancelledRunsSaySo
