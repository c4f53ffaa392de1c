SPECIFICATION Spec
CONSTANTS
  Executes = {}
  Cancels = {c1}
  NumNodes = 2
  PolicyGate = TRUE
  RunTimeout = TRUE
  MaxStalls = 1
  MaxCrashes = 2
  MaxBeats = 0
  MaxFaults = 1
INVARIANT TypeOK
INVARIANT LoggedOnce
INVARIANT OkIsEarned
INVARIANT CancelHolds
