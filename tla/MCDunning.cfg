SPECIFICATION Spec
CONSTANTS
  w1 = w1
  w2 = w2
  n1 = n1
  n2 = n2
  Notices = {n1}
  Workers = {w1, w2}
  MaxSends = 2
  MaxAttempts = 3
  MaxPauses = 2
  MaxFaults = 1
  MaxResolves = 1
SYMMETRY Symmetry
INVARIANTS
  TypeOK
  TokenSentOnce
  NoticeAgreesWithAttempts
  SecondEmailNeedsDeferredClaim
  OneLateSend
PROPERTIES
  OutcomeIsFinal
CHECK_DEADLOCK FALSE
