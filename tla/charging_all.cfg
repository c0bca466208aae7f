CONSTANTS
  MinDuration = 1
  MaxDuration = 1
  EarlyStart = 1
  GracePeriod = 0
  CancellationCutoff = 2
  Procs = {p1, p2}
  Reservations = {r1}
  p1 = p1
  p2 = p2
  p3 = p3
  v1 = v1
  v2 = v2
  c1 = c1
  c2 = c2
  Vehicles = {v1}
  Connectors = {c1}
  Starts = {1, 2}
  Ends = {2, 3}
  MaxTime = 2
  CalendarRank <- SomeRank
  Serves <- AllServed
  Crashing = {p1, p2}
  ByHand = {}
  Closing = {c1}
  Retired = {}
  None = None
SPECIFICATION FairSpec
CHECK_DEADLOCK FALSE
INVARIANTS
  LocksProtect
  ReservationHasSession
  ChargingIsVisible
  SessionAgrees
PROPERTIES
  RequestsEnd
  SessionsAreHistory
  FinishedRowsStay
