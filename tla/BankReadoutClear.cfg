SPECIFICATION Spec
CONSTANTS
  Wrap = 6
  Rate = 4
  FailedAfter = 2
  MaxHits = 2
  MaxRuns = 1
  MaxFaults = 0
  PowerOn = {0}
  HostFaults = FALSE
  UserClears = TRUE
INVARIANT CountedAlike
