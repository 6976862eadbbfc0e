SPECIFICATION StreamSpec
CONSTANTS
  HnsPerMs = 2
  MsPerSecond = 2
  Rate = 3
  BlockAlign = 1
  Request <- Requests
  Event = {e1, e2}
  MaxStreams = 1
  Ulong = 13
  MaxTicks = 9
  MaxOwed = 3
INVARIANTS
  PositionsConserveTime
  DpcFindsWhatItUses
PROPERTIES
  PacketsAreDelivered
