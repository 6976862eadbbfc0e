SPECIFICATION FairSpec
CONSTANTS
  p1 = p1
  p2 = p2
  Pids <- TwoPids
  NoPid = NoPid
  Pips = {"corner"}
  Main = "main"
  Modes = {"Off", "Window"}
  Targets <- OneTarget
  DriverStart = TRUE
  DriverActive = {TRUE, FALSE}
  Foreign = TRUE
  MaxLaunches = 2
INVARIANTS
  ShowsWhatIsSelected
  EarlierSourcesAreLetGo
PROPERTIES
  LiveSourceIsShown
CHECK_DEADLOCK FALSE
