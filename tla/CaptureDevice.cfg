\* Four pins against three sinks; a removed device really stops.
SPECIFICATION Spec
CONSTANTS
  Pin = {p1, p2, p3, p4}
  NoPin = NoPin
  MaxSinks = 3
  Serialized = TRUE
  Events = {"rebalance", "queryRemove", "surprise", "power"}
  StartMayFail = TRUE
  CallsAsleep = FALSE
SYMMETRY PinSymmetry
INVARIANTS
  StreamsAccounted
  SynthOutlivesHardware
  RunningPinsServed
  OffWhenReleased
PROPERTIES
  StartsFromStopped
CHECK_DEADLOCK FALSE
