SPECIFICATION Spec
CONSTANTS
  p1 = p1
  p2 = p2
  billing = billing
  mailer = mailer
  NoOne = NoOne
  NumEvents = 3
  Consumers = {billing, mailer}
  ConsumersOf <- MixedConsumers
  RecordOnly = {2}
  Transactional = {billing}
  Publishers = {p1}
  BatchSize = 2
  MaxRetries = 2
  ClaimTTL = 0
  StaleClaim = 1
  MaxCrashes = 0
  MaxReplays = 1
PROPERTIES
  Implements
CHECK_DEADLOCK FALSE
