SPECIFICATION FairSpec
CONSTANTS
  Size <- Sizes
  Area <- Areas
  DefaultSize = "large"
  Stream <- Streams
  PoolSize = 3
  NoSize = NoSize
  Events = {"pause", "removal", "policy", "exit", "heartbeat", "busy"}
INVARIANTS
  CopiesFit
PROPERTIES
  PolicyReachesDriver
  CameraShowsMovingSource
