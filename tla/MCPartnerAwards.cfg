SPECIFICATION Spec
CONSTANTS
  a = a
  b = b
  c1 = c1
  c2 = c2
  NoPartner = NoPartner
  Partners = {a, b}
  Callers = {c1, c2}
  MaxQuotes = 2
  MaxLinks = 2
  MaxFaults = 1
CONSTRAINT OneQuoteBeforeTheTrip
SYMMETRY Symmetry
INVARIANTS
  TypeOK
  AwardSettlesSourcing
  OneLiveQuotePerPartner
  RecordsAgree
PROPERTIES
  AwardIsFinal
  EndedTripIsReadOnly
CHECK_DEADLOCK FALSE
