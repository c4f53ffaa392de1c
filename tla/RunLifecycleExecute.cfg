SPECIFICATION Spec
CONSTANTS
  Executes = {e1, e2}
  Cancels = {}
  NumNodes = 1
  PolicyGate = FALSE
  RunTimeout = FALSE
  MaxStalls = 1
  MaxCrashes = 0
  MaxBeats = 0
  MaxFaults = 0
INVARIANT QueuedOnce
