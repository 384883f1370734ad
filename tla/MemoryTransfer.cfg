SPECIFICATION FairSpecT
CONSTANTS
  Firmwares = {TRUE, FALSE}
  Pids = 5
  Lifetime = 2
  Retries = 2
  Packets = 2
  Requests = 2
  MaxCalls = 3
  MaxLost = 1
  MaxLate = 1
  MaxErrors = 1
  Attempts = 2
  Chunks = 2
INVARIANTS
  IInvT
  ReadExact
  AnswersRight
  WriteCovers
PROPERTY TransferEnds
CHECK_DEADLOCK FALSE
