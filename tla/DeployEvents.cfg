SPECIFICATION FairSpec
CONSTANTS
  a1 = a1
  d1 = d1
  Agent = {a1}
  Deployment = {d1}
  MaxReplicas = 2
  MaxNow = 1
  Skew = 1
  MaxChanges = 2
  MaxFailures = 1
INVARIANTS
  InOnePlace
  EventsAreReal
  TrailComplete
  EventsWithinSkew
PROPERTIES
  EventsArrive
CHECK_DEADLOCK FALSE
