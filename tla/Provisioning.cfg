SPECIFICATION FairSpec
CONSTANTS
  i1 = i1
  i2 = i2
  e1 = e1
  adm = adm
  r1 = r1
  r2 = r2
  NoId = NoId
  AdminName = adm
  Request = {r1, r2}
  Identity = {i1, i2}
  Name = {e1, adm}
  EmailOf <- MCEmailOfSame
  CliName = {e1}
  MaxTenants = 2
  MaxFailures = 1
INVARIANTS
  TenantsWhole
  AnswersStand
PROPERTIES
  ImplementsAccounts
  AcceptConsumesInvite
  EmailsGetAccounts
CHECK_DEADLOCK FALSE
