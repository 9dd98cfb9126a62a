SPECIFICATION MCSpec
CONSTANTS
  MaxRuntimes = 3
  MaxOperations = 3
  MaxFaults = 1
  MaxTurns = 1
  MaxRuns = 2
  MaxCalls = 2
CHECK_DEADLOCK FALSE
INVARIANTS
  NothingOutlivesItsEnd
  TerminalIsFaithful
  OpenQuestionIsAnswerable
PROPERTIES
  DeferredReleaseIsAsked
  EveryChildEnds
  OperationsSettle
  EveryQuestionSettles
