SPECIFICATION MCSpec
CONSTANTS
  note = note
  request = request
  urgent = urgent
  answer = answer
  cancel = cancel
  later = later
  resume = resume
  None = None
  Mode <- Modes
  Withdraws <- Withdrawals
  Message = {answer,urgent,cancel,later}
  Resume = {}
  Request = {urgent}
  Answer = {answer}
  Cancellation = {cancel}
  Capacity = 2
  MaxArrivals = 3
  MaxControls = 1
  MaxFaults = 0
  MaxBatch = 2
  root = root
  upper = upper
  lower = lower
  m1 = m1
  m2 = m2
  vm = vm
  real = real
  virtual = virtual
  Sessions = {session1, session2}
  NoSession = NoSession
  MaxAttachments = 3
  Children = {upper, lower}
  Root = root
  Spawner <- Chain
  RealModels = {m1, m2}
  Virtual = vm
  Provider <- Providing
  Lists <- Exclusions
  Definitions <- EntryLists
  Asked <- Requested
  Candidates <- Offered
  OwnerModel = vm
  NoModel = NoModel
  MaxChanges = 2
CHECK_DEADLOCK FALSE
INVARIANTS
  ExactlyOneProof
  BansAreFollowed
  SelectionIsRecorded
  OneLiveWorkflow
PROPERTIES
  WithdrawnIsNotDispatched
