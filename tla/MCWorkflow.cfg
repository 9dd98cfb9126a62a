SPECIFICATION MCSpec
CONSTANTS
  a1 = a1
  a2 = a2
  a3 = a3
  Agents = {a1, a2, a3}
  MaxRuns = 1
  MaxEvents = 3
CHECK_DEADLOCK FALSE
INVARIANTS
  SlotsAreHandedOutOnce
PROPERTIES
  DeferredIsServed
  IncidentIsAttended
  RecoveryIsNoticed
  ParkedOwnerIsReleased
