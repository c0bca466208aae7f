CONSTANTS
  MinDuration = 1
  MaxDuration = 2
  EarlyStart = 1
  GracePeriod = 0
  CancellationCutoff = 2
  Procs = {p1}
  Reservations = {r1}
  v1 = v1
  c1 = c1
  Vehicles = {v1}
  Connectors = {c1}
  Starts = {1}
  Ends = {3}
  MaxTime = 2
  CalendarRank <- RankCalendars
  Serves <- Bookings
  Crashing = {p1}
  ByHand = {"AVAILABLE"}
  Closing = {}
  Retired = {v1}
  None = None
  Producers = {q1, q2}
  k1 = k1
  k2 = k2
  Keys = {k1, k2}
  KeyRank <- RankKeys
  Batches <- SomeBatches
  Skew = 1
  Windows <- AskedWindows
  BucketLength = 2
  Open = {0, 1, 2, 3}
  MaxOpen = 2
SPECIFICATION ReportSpec
SYMMETRY Symmetry
CHECK_DEADLOCK FALSE
INVARIANTS
  TelemetryInv
  IngestsNeverDeadlock
  CountedOnce
  ReportsAddUp
PROPERTY AnswersMatchTable

