SPECIFICATION PartSpec
CONSTANTS
  e1 = e1
  e2 = e2
  e3 = e3
  e4 = e4
  e5 = e5
  r1 = r1
  r2 = r2
  x = x
  Procs = {p1, p2}
  Events = {e1, e2, e3, e4, e5}
  Effect <- SomeEffects
  Times = {1, 3}
  Simulated = {r1, r2}
  Real = {x}
  Start <- SomeStarts
  Moves = {1}
  WindowEnds = {2, 3}
  RealNow = 1
  Enabled = {"patch", "cancel", "direct"}
  None = None
  MinDuration = 1
  MaxDuration = 2
  EarlyStart = 1
  GracePeriod = 1
  CancellationCutoff = 1
  Handlers = {h1, h2}
  Emails = {boot, second}
  Bootstrap = boot
  Facilities = {f1}
  Changes <- AskedChanges
  NoAccount = NoAccount
SYMMETRY BothSymmetric
INVARIANTS SimulationInv NoShowByOwnClock CompletedRunIsSettled AccountsInv
PROPERTIES ClosedRunsStay JournalSpec ChangesAsAsked
CHECK_DEADLOCK FALSE
