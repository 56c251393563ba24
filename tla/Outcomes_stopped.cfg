SPECIFICATION Spec
CONSTANTS
  k1 = k1
  k2 = k2
  pair = pair
  other = other
  n1 = n1
  h1 = h1
  h2 = h2
  Key = {k1, k2}
  Pair = {pair, other}
  PairOf <- MCPairOf2
  Hinted = {k1, k2}
  TopFixes = 1
  Node = {n1}
  Handler = {h1, h2}
  Retention = 2
  MaxCost = 1
  MaxNow = 2
  MaxShips = 2
SYMMETRY Handlers
INVARIANTS
  StoppedFlowMeasuresZero
CHECK_DEADLOCK FALSE
