SPECIFICATION LoopSpec
CONSTANTS
  Validators = {v1, v2, v3}
  Weights = {0, 1, 2, 3}
  Prices = {0, 1, 2}
  v1 = v1
  v2 = v2
  v3 = v3
INVARIANTS
  OrderIndependent
  CoalitionBounded
