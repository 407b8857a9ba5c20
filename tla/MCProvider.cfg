SPECIFICATION SettledSpec
CHECK_DEADLOCK FALSE
CONSTANTS
  IDs = {btc, eth}
  Kinds = {"API", "WebSockets"}
  BufferSize = 1
  MaxSubs = 1
  MaxUpdates = 3
  MaxRounds = 4
  btc = btc
  eth = eth
INVARIANTS
  NoPanic
  StaleFetchIsCancelled
  ResponsesAreReceived
PROPERTIES
  StoppedRunExits
  StopReturns
  NewIDsAreFetched
