CONSTANTS
  Models <- Unnamed
  Requests = {m1}
  Episodes = 1
  Procedures = {p1}
  MaxDeliveries = 2
  MaxChanges = 1
  MaxFaults = 1
  MaxRestarts = 1
SPECIFICATION Spec
INVARIANTS TypeOK UpIsReady LogIsBacked
PROPERTY PointsAreKept
CHECK_DEADLOCK FALSE
