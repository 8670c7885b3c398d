SPECIFICATION Spec
CONSTANTS
  a1 = a1
  Approvers = {a1}
  MaxCycle = 2
  MaxChanges = 3
PROPERTIES
  SettledNeverDispatched
CHECK_DEADLOCK FALSE
