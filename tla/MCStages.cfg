SPECIFICATION FairSpec
CONSTANTS
  a1 = a1
  Approvers = {a1}
  MaxCycle = 2
  MaxChanges = 2
INVARIANTS
  TypeOK
  ReferralIsGated
  SweepBlockedOnlyByReferral
PROPERTIES
  AcceptedStaysAccepted
  PaidComesToRest
CHECK_DEADLOCK FALSE
