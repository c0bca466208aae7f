SPECIFICATION Spec
CONSTANTS
  Flows = {1, 2}
  Follow <- SomeFollow
  At <- SomeTimes
  HasPolicy = {1}
  MaxAlternatives = 1
  Delays <- SomeDelays
  WindowEnd = 6
  Inventories <- OneConnector
  MaxAttempts = 2
  MaxRestarts = 1
  MaxLate = 1
  None = None
INVARIANTS BegunIsFinished
CHECK_DEADLOCK FALSE
