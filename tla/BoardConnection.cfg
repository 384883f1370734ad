SPECIFICATION FairSpec
CONSTANTS
  Firmwares = {TRUE, FALSE}
  FailedAfter = 5
  MaxOutages = 3
  MaxFaults = 6
INVARIANTS IInv OnlyConfigured
PROPERTIES Reconnects
