SPECIFICATION Spec
CONSTANTS
  FeedEnabled = FALSE
  d1 = d1
  d2 = d2
  d3 = d3
  Device <- MCDevice
  MaxStreams = 1
SYMMETRY Devices
INVARIANTS
  AdapterKept
  EndpointIsAllOrNothing
  GoneLeavesNothing
