SPECIFICATION FairSpec
CONSTANTS
  Procs = {p1, p2}
  MaxExports = 3
  MaxConcurrent = 1
  MaxQueued = 1
  DrainLimit = 2
  Faults = {"restart", "database", "answer"}
  None = None
INVARIANTS WorkerPool ArtifactKept QueueOvershoot
PROPERTIES Lifecycle EveryExportEnds
CHECK_DEADLOCK FALSE
