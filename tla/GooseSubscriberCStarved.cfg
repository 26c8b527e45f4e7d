SPECIFICATION Spec
CONSTANTS
  Refs = {a, b}
  MaxTal = 1
  QueueMax = 1
  MaxFrames = 0
  Endless = TRUE
  MAX_STREAMS = 2
PROPERTIES LapseIsReported
CHECK_DEADLOCK FALSE
