SPECIFICATION FairSpec
CONSTANTS
  MaxChanges = 2
  MaxRuns = 4
  MaxStarts = 2
INVARIANTS
  NoLaunchUnasked
PROPERTIES
  SignalIsAnswered
  StopEndsTheService
CHECK_DEADLOCK FALSE
