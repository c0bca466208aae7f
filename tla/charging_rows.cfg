CONSTANTS
  MinDuration = 1
  MaxDuration = 1
  EarlyStart = 0
  GracePeriod = 0
  CancellationCutoff = 0
  Procs = {p1, p2, p3}
  Reservations = {r1, r2}
  p1 = p1
  p2 = p2
  p3 = p3
  v1 = v1
  v2 = v2
  c1 = c1
  c2 = c2
  Vehicles = {v1, v2}
  Connectors = {c1}
  Starts = {0, 1}
  Ends = {1, 2}
  MaxTime = 2
  CalendarRank <- SomeRank
  Serves <- SharedOut
  Crashing = {}
  ByHand = {"AVAILABLE"}
  Closing = {}
  Retired = {v1}
  None = None
SPECIFICATION Spec
SYMMETRY Symmetry
CHECK_DEADLOCK FALSE
INVARIANTS
  NoDoubleBooking
  CyclesNeedRowAndCalendar
  ActiveSessionsExclusive
PROPERTIES
  CalendarSpec
