SPECIFICATION FairSpec
CONSTANTS
  f1 = f1
  f2 = f2
  f3 = f3
  l1 = l1
  l2 = l2
  Finding = {f1, f2, f3}
  Label = {l1, l2}
  LabelOf <- MCLabelOf
  Threshold = 2
  Ratio = 2
  Refused = {f2}
  MaxCost = 4
  MaxRestarts = 1
INVARIANTS
  AlertsArePaced
  
PROPERTIES
  EveryoneIsTold
