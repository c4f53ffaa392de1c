SPECIFICATION Spec
CONSTANTS
  Executes = {}
  Cancels = {c1}
  NumNodes = 1
  PolicyGate = FALSE
  RunTimeout = FALSE
  MaxStalls = 1
  MaxCrashes = 1
  MaxBeats = 2
  MaxFaults = 1
PROPERTY WorkerLeavesTheEnd
