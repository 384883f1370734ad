SPECIFICATION FairSpec
CONSTANTS
  Wrap = 6
  Rate = 4
  FailedAfter = 2
  MaxHits = 2
  MaxRuns = 1
  MaxFaults = 3
  PowerOn = {0}
  HostFaults = FALSE
  UserClears = FALSE
INVARIANTS
  CountsCover
PROPERTIES
  StopTerminates
  Resumes
CHECK_DEADLOCK FALSE
