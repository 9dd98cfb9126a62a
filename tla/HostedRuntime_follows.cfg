SPECIFICATION Spec
CONSTANTS
  MaxRuns = 2
  MaxEvents = 2
CHECK_DEADLOCK FALSE
INVARIANTS OwnerFollowsTheChild
