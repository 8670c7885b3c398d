SPECIFICATION Spec
CONSTANTS
  p1 = p1
  p2 = p2
  billing = billing
  mailer = mailer
  NoOne = NoOne
  NumEvents = 1
  Consumers = {billing}
  ConsumersOf <- EveryConsumer
  RecordOnly = {}
  Transactional = {billing}
  Publishers = {p1}
  BatchSize = 1
  MaxRetries = 5
  ClaimTTL = 5
  StaleClaim = 10
  MaxCrashes = 1
  MaxReplays = 0
INVARIANT ParkedOnlyAfterThrow
CHECK_DEADLOCK FALSE
