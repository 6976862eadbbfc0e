SPECIFICATION PageSpec
CONSTANTS
  f1 = f1
  f2 = f2
  r1 = r1
  r2 = r2
  Fields <- TwoFields
  Readers <- TwoReaders
  Attempts = 2
  Nothing = Nothing
  MaxPublished = 3
SYMMETRY Interchangeable
INVARIANTS
  PageCorrect
PROPERTIES
  StatusImplemented
CHECK_DEADLOCK FALSE
