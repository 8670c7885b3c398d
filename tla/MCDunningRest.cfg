SPECIFICATION FairSpec
CONSTANTS
  w1 = w1
  w2 = w2
  n1 = n1
  n2 = n2
  Notices = {n1}
  Workers = {w1, w2}
  MaxSends = 2
  MaxAttempts = 3
  MaxPauses = 1
  MaxFaults = 1
  MaxResolves = 0
PROPERTIES
  NoticesComeToRest
CHECK_DEADLOCK FALSE
