CONSTANTS
  Runs = {r1, r2}
  Templates = {1}
  MaxStalls = 1
  MaxCrashes = 1
  MaxFaults = 1
  MaxDay = 1
SPECIFICATION Spec
INVARIANTS TypeOK EpisodeOncePerRun RewardReadBack WrittenHasEpisode TrustMovesOnce
INVARIANTS OneDagPerRun BlockedStays
SYMMETRY Symmetry
CHECK_DEADLOCK FALSE
