SPECIFICATION MCSpec
CONSTANTS
  r1 = r1
  r2 = r2
  Replies = {answer1, answer2}
  Cancellations = {cancel1}
  nothing = nothing
  parent = parent
  child = child
  q = q
  owner = owner
  agent1 = agent1
  agent2 = agent2
  Requests = {r1, r2}
  MaxCalls = 2
  MaxRuns = 2
  MaxEvents = 2
  Spawnable = {child1, child2, child3}
  ToolCalls = {call1, call2}
  MaxSpawns = 2
  MaxFaults = 2
  Duties = {agent1, agent2}
  Giver <- Askers
  MaxTurns = 2
  MaxResumes = 2
CHECK_DEADLOCK FALSE
INVARIANTS
  WaitIsSound
  CacheIsFaithful
  EvidenceIsSound
  SearchesAreExact
  NoStallIsOverlooked
  RecoveryIsExact
PROPERTIES
  AnsweredOnce
  RefreshIsCurrent
  ContinuationKnowsItsRequests
