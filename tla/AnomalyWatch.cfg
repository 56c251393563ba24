SPECIFICATION FairSpec
CONSTANTS
  n1 = n1
  n2 = n2
  c1 = c1
  c2 = c2
  Tenants = 2
  Node = {n1, n2}
  Cluster = {c1, c2}
  ClusterOf <- MCClusterOf
  TenantOf <- MCTenantOf
  Failing = {1}
  Retention = 1
  MaxCost = 2
  MaxNow = 2
  MaxFailures = 1
INVARIANTS
  TypeOK
  OneAlertPerSnapshot
PROPERTIES
  AcknowledgedStays
  AnomaliesAreNoticed
CHECK_DEADLOCK FALSE
