SPECIFICATION Spec
CONSTANTS
  Wrap = 6
  Rate = 4
  FailedAfter = 2
  MaxHits = 2
  MaxRuns = 2
  MaxFaults = 1
  PowerOn = {5}
  HostFaults = TRUE
  UserClears = TRUE
INVARIANTS
  IInv
  IntegrityExact
  CompleteRun
PROPERTY StreamSpec
