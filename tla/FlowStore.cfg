SPECIFICATION FairSpec
CONSTANTS
  p1 = p1
  p2 = p2
  f1 = f1
  f2 = f2
  c1 = c1
  a = a
  b = b
  Post = {p1, p2}
  Finding = {f1, f2}
  Cluster = {c1}
  Flow = {a, b}
  ClusterOf <- MCClusterOf
  FlowOf <- MCFlowOf
  MaxNow = 5
  DaySeconds = 2
  Retention = 2
  MaxFailures = 1
INVARIANTS
  CountedOnce
  RecentRowsAreRaw
  SnapshotsWhole
PROPERTIES
  ImplementsLedger
  LatestNeverRegresses
  OldRowsAreFolded
CHECK_DEADLOCK FALSE
