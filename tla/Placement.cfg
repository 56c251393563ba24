SPECIFICATION SearchSpec
CONSTANTS
  w1 = w1
  w2 = w2
  w3 = w3
  w4 = w4
  w5 = w5
  Workload = {w1, w2, w3, w4, w5}
  Graph <- MCGraph
  GroupCount = {1, 2, 3, 5}
  Restarts = 2
  MaxIterations = 3
INVARIANTS
  ZonesStayPopulated
  SavingsAreReal
  AnswerIsLocalOptimum
PROPERTIES
  EveryMoveSaves
CHECK_DEADLOCK FALSE
