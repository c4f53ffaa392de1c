SPECIFICATION FairSpec
CONSTANTS
  Executes = {e1}
  Cancels = {c1}
  NumNodes = 1
  PolicyGate = FALSE
  RunTimeout = FALSE
  MaxStalls = 1
  MaxCrashes = 1
  MaxBeats = 0
  MaxFaults = 0
INVARIANT StatusIsVerdict
PROPERTY EventuallyCompletes
