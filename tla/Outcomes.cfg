SPECIFICATION Spec
CONSTANTS
  k1 = k1
  k2 = k2
  pair = pair
  other = other
  n1 = n1
  h1 = h1
  h2 = h2
  Key = {k1, k2}
  Pair = {pair, other}
  PairOf <- MCPairOf1
  Hinted = {k1, k2}
  TopFixes = 1
  Node = {n1}
  Handler = {h1, h2}
  Retention = 1
  MaxCost = 1
  MaxNow = 2
  MaxShips = 2
SYMMETRY HandlersAndClasses
INVARIANTS
  BeforeAndAfter
PROPERTIES
  AppliedIsFinal
CHECK_DEADLOCK FALSE
