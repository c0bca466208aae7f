SPECIFICATION PartSpec
CONSTANTS
  older = older
  newer = newer
  twin = twin
  i1 = i1
  s1 = s1
  s2 = s2
  Procs = {p1, p2}
  Scopes = {s1, s2}
  Identities = {i1, i2}
  Contents = {older, newer, twin}
  Generated <- SomeTimes
  Requests <- SomeRequests
  None = None
  near = near
  far = far
  winter = winter
  summer = summer
  Days = 2
  Hours = 2
  Ticks = 2
  Instants = {0, 1, 2, 4, 6, 7, 8, 10, 12, 13}
  Zones = {winter, summer}
  Offset <- SomeOffsets
  Full = 1
  Sites = {near, far}
  Opening <- SomeOpening
  Connectors = {1, 2, 3}
  Site <- SomeSites
  Studied = {2}
  Trainings <- SomeTrainings
  Holdouts <- SomeHoldouts
  Declared <- SomeWindows
  Others <- SomeOthers
  MaxPublished = 3
  NoProfile = NoProfile
SYMMETRY Symmetry
INVARIANTS PublicationsInv ProfilesInv
PROPERTY LedgerSpec
