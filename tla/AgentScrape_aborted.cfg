SPECIFICATION Spec
CONSTANTS
  f1 = f1
  f2 = f2
  f3 = f3
  c1 = c1
  c2 = c2
  Hash <- MCHash
  Flow = {f1, f2, f3}
  Context = {c1}
  Capacity = 2
  MaxBytes = 2
INVARIANTS
  BilledWasSent
CHECK_DEADLOCK FALSE
