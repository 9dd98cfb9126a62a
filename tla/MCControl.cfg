SPECIFICATION MCSpec
CONSTANTS
  Conns = {c1, c2}
  Tokens = {t1, t2}
  Strange = Strange
  Calls = {1, 2, 3}
  MaxFrames = 1
  MaxRequests = 2
  MaxEvents = 1
  MaxIncidents = 1
  MaxRuns = 2
  MaxReports = 2
  MaxKeys = 3
  MaxViews = 2
  MaxWire = 3
  MaxPaints = 2
  Nobody = Nobody
  Watched = {s1, s2}
  MaxRuntimes = 2
  MaxOpens = 3
CHECK_DEADLOCK FALSE
INVARIANTS
  AdmissionIsSound
  ChannelIsSound
  OwnerKeepsUp
  IdleIsTrue
  HeldScreenIsCurrent
  NoSelectionLingers
