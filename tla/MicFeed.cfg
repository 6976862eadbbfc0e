SPECIFICATION Spec
CONSTANTS
  Builds = {FALSE, TRUE}
  Capacity = 3
  PacketFrames = 2
  MicRate = 3
  SourceRate = 2
  Burst = {1, 2}
  ReadSize = {2}
  MaxFrames = 3
  MaxBacklog = 1
INVARIANTS
  ThreadMatchesCapture
  SoundInOrder
PROPERTIES
  QueueImplemented
  StopReturns
