SPECIFICATION MCSpec
CONSTANTS
  prepare = prepare
  admit = admit
  o1 = o1
  o2 = o2
  NoOp = NoOp
  Op = {prepare, admit, o1, o2}
  Releasers = {prepare}
  Needs <- PreparationNeedsAdmission
  c1 = c1
  native = native
  forwarded = forwarded
  reminder = reminder
  Custom = {c1}
  Native = native
  Forwarded = forwarded
  Reminder = reminder
CHECK_DEADLOCK FALSE
INVARIANTS
  OneOccupant
  ProofIsTruthful
PROPERTIES
  EveryOperationSettles
  DispatchIsAnswered
