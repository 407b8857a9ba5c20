SPECIFICATION Spec
CONSTANTS
  Validator = {v1, v2, v3, v4}
  Power <- MCPower
  Prices = {1, 2}
  NoVote = NoVote
  NoProposal = NoProposal
  NotCached = NotCached
  MaxHeight = 3
  MaxRound = 1
  v1 = v1
  v2 = v2
  v3 = v3
  v4 = v4
INVARIANTS
  DeltaRoundTrips
SYMMETRY
  Symmetry
CHECK_DEADLOCK FALSE
