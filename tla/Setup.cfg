SPECIFICATION SetupFairSpec
CONSTANTS
  ReadAttempts = 2
  MaxExtra = 1
  MaxOps = 2
  MaxBoots = 1
INVARIANTS
  ReportsAreTrue
  RetryHeals
PROPERTIES
  WindowComesBack
CHECK_DEADLOCK FALSE
