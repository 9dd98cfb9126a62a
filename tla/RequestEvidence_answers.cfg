SPECIFICATION Spec
CONSTANTS
  k1 = k1
  k2 = k2
  x1 = x1
  x2 = x2
  None = None
  Answers = {k1, k2}
  Cancellations = {x1, x2}
  MaxRetries = 1
  MaxFailures = 1
  MaxCrashes = 1
INVARIANTS OneCanonicalAnswer
CHECK_DEADLOCK FALSE
