SPECIFICATION FairSpec
CONSTANTS
  s = s
  r = r
  p = p
  q = q
  here = here
  there = there
  z1 = z1
  z2 = z2
  c1 = c1
  a1 = a1
  None = None
  Unresolved = Unresolved
  Pod = {s, r, p, q}
  HostNetwork = {s, r}
  Steady = {s, r}
  Job = {p}
  Backend = {q}
  Node = {here, there}
  Here = here
  LocalName = here
  Cgroup = {c1}
  Address = {a1}
  Zone = {z1, z2}
  PodOf <- MCPodOf
  NodeOf <- MCNodeOf
  ZoneOf <- MCZoneOf
  RegionOf <- MCRegionOf
  KindOf <- MCKindOf
  NodeHasPublicIP = TRUE
INVARIANTS
  FindingsFit
  OneSourcePerCgroup
PROPERTIES
  DestinationsSettle
