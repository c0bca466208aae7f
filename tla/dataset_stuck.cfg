SPECIFICATION FairSpec
CONSTANTS
  Procs = {p1, p2}
  MaxExports = 2
  MaxConcurrent = 1
  MaxQueued = 1
  DrainLimit = 2
  Faults = {"restart"}
  None = None
PROPERTIES NothingStaysUnfinished
CHECK_DEADLOCK FALSE
