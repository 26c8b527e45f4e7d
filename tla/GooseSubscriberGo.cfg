SPECIFICATION GoSpec
CONSTANTS
  Refs = {a, b}
  MaxTal = 2
  QueueMax = 2
  MaxFrames = 3
  Endless = FALSE
  MaxGen = 3
INVARIANT TimersFollowFrames
PROPERTIES ContractSpec
CHECK_DEADLOCK FALSE
