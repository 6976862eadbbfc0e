CONSTANTS
  Pin = {p1, p2}
  Absent = Absent
  wide = wide
  tall = tall
  hd = hd
  DataRange <- MCRange
  SizeOf <- MCSizeOf
  Format <- MCFormat
  AspectOrder <- MCAspectOrder
  AspectRanges <- MCAspectRanges
  InitialTable <- MCInitialTable
  MapMayFail = TRUE
SPECIFICATION FairSpec
INVARIANTS
  ClientGetsItsPicture
  FormatsAgree
PROPERTIES
  RunningPinIsServed
