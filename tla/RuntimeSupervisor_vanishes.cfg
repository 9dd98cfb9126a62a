SPECIFICATION Spec
CONSTANTS
  MaxRuntimes = 2
  MaxOperations = 3
  MaxFaults = 1
  MaxTurns = 0
CHECK_DEADLOCK FALSE
INVARIANTS
  NoRunVanishes
