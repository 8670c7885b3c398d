SPECIFICATION Spec
CONSTANTS
  c1 = c1
  c2 = c2
  Callers = {c1, c2}
CONSTRAINT OvertakenOnce
SYMMETRY Symmetry
INVARIANTS
  TypeOK
  OneReturnJob
PROPERTIES
  OnlyStaleWritesUndo
  ReturnHoldsTrailer
CHECK_DEADLOCK FALSE
