SPECIFICATION Spec
CONSTANTS
  Refs = {a, b}
  MaxTal = 2
  QueueMax = 2
  MaxFrames = 3
  Endless = FALSE
  Rooms = {1, 2}
INVARIANTS DeadlineFollowsFrames OkBeforeGoose
PROPERTIES ContractSafe LapseReported
CHECK_DEADLOCK FALSE
