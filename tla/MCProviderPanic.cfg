SPECIFICATION Spec
CONSTANTS
  IDs = {btc, eth}
  Kinds = {"API"}
  BufferSize = 1
  MaxSubs = 1
  MaxUpdates = 3
  MaxRounds = 3
  btc = btc
  eth = eth
INVARIANTS
  NoPanic
