SPECIFICATION ProducerFairSpec
CONSTANTS
  Kinds = {"camera", "video", "image", "window", "display"}
  Overrides = {"auto", "wgc", "printwindow", "bitblt"}
  Length = 2
  MaxSamples = 4
  Sizes = {0, 1, 2}
  MaxResizes = 3
INVARIANTS
  ReaderLetGo
PROPERTIES
  PicturesAreRight
  VideoGoesOn
  WindowIsFollowed
CHECK_DEADLOCK FALSE
