CONSTANTS
  MinDuration = 1
  MaxDuration = 1
  EarlyStart = 1
  GracePeriod = 1
  CancellationCutoff = 2
  Procs = {p1, p2}
  Reservations = {r1}
  p1 = p1
  p2 = p2
  p3 = p3
  v1 = v1
  v2 = v2
  c1 = c1
  c2 = c2
  Vehicles = {v1}
  Connectors = {c1}
  Starts = {2, 3}
  Ends = {3, 4}
  MaxTime = 4
  CalendarRank <- SomeRank
  Serves <- AllServed
  Crashing = {}
  ByHand = {"AVAILABLE"}
  Closing = {}
  Retired = {}
  None = None
SPECIFICATION Spec
CHECK_DEADLOCK FALSE
INVARIANT NeverChargingWhileConfirmed
