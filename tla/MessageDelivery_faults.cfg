SPECIFICATION Spec
CONSTANTS
  note = note
  request = request
  urgent = urgent
  answer = answer
  cancel = cancel
  later = later
  resume = resume
  None = None
  Mode <- Modes
  Withdraws <- Withdrawals
  Message = {note,request}
  Resume = {resume}
  Request = {request}
  Answer = {}
  Cancellation = {}
  Capacity = 1
  MaxArrivals = 2
  MaxControls = 2
  MaxFaults = 1
  MaxBatch = 3
CHECK_DEADLOCK FALSE
INVARIANTS
  ScheduledWorkRetainsItsRun
  DeliveryIsAccounted
