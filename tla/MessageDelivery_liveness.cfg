SPECIFICATION FairSpec
CONSTANTS
  note = note
  request = request
  urgent = urgent
  answer = answer
  cancel = cancel
  later = later
  resume = resume
  None = None
  Mode <- Modes
  Withdraws <- Withdrawals
  Message = {note,request}
  Resume = {}
  Request = {request}
  Answer = {}
  Cancellation = {}
  Capacity = 2
  MaxArrivals = 2
  MaxControls = 1
  MaxFaults = 1
  MaxBatch = 3
CHECK_DEADLOCK FALSE
PROPERTIES
  QueuedIsServed
  LaneIsReturned
