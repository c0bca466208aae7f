SPECIFICATION FairSpec
CONSTANTS
  Flows = {1, 2}
  Follow <- SomeFollow
  At <- SomeTimes
  HasPolicy = {1}
  MaxAlternatives = 1
  Delays <- SomeDelays
  WindowEnd = 6
  Inventories <- TwoConnectors
  MaxAttempts = 2
  MaxRestarts = 2
  MaxLate = 1
  None = None
INVARIANTS OneBookingPerFlow ClockNeverRegresses CheckpointIsTrue
PROPERTIES EngineEnds
CHECK_DEADLOCK FALSE
