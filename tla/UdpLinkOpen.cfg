SPECIFICATION Spec
CONSTANTS
  Firmwares = {TRUE, FALSE}
  Pids = 4
  Lifetime = 2
  Retries = 2
  Packets = 2
  Requests = 2
  MaxCalls = 2
  MaxLost = 2
  MaxLate = 0
  MaxErrors = 0
INVARIANT OpenDetects
CHECK_DEADLOCK FALSE
