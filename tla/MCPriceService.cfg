SPECIFICATION MCSpec
CHECK_DEADLOCK FALSE
CONSTANTS
  Request = {r1, r2}
  Stopper = {s}
  MayCancel = TRUE
  NoResponse = NoResponse
  UpdateInterval = 1
  ClientTimeout = 1
  PriceTTL = 2
  MaxTime = 5
INVARIANTS
  ServedInTime
PROPERTIES
  ResponsesMoveForward
  DaemonStopReturns
