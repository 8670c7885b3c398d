SPECIFICATION Spec
CONSTANTS
  a1 = a1
  a2 = a2
  r1 = r1
  r2 = r2
  Admin = admin
  Approvers = {a1, a2}
  Requests = {r1, r2}
  Amounts = {1, 2}
  Collected = 2
  NumLevels = 3
  Passing = {2}
  RequireAll = {1}
  AppliesTo <- SmallAndLarge
  Edits <- RemoveFirst
  MaxMishaps = 0
  MaxDeciding = 1
PROPERTIES
  RecordedAmountWasApproved
CHECK_DEADLOCK FALSE
