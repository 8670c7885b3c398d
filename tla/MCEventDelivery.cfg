SPECIFICATION FairSpec
CONSTANTS
  p1 = p1
  p2 = p2
  billing = billing
  mailer = mailer
  NoOne = NoOne
  NumEvents = 1
  Consumers = {billing}
  ConsumersOf <- EveryConsumer
  RecordOnly = {}
  Transactional = {billing}
  Publishers = {p1, p2}
  BatchSize = 1
  MaxRetries = 2
  ClaimTTL = 1
  StaleClaim = 2
  MaxCrashes = 1
  MaxReplays = 1
INVARIANTS
  TypeOK
  TwoRunsNeedExpiredClaim
  TransactionalOnce
PROPERTIES
  TakeoverNeedsStaleClaim
  ParkedUntilReplay
  Implements
  EventuallySettled
CHECK_DEADLOCK FALSE
