SPECIFICATION Spec
CONSTANTS
  U32 = 64
  U64 = 256
  Streams <- MCStreams
  SmpCntWrap <- MCWraps
  Frames <- MCFrames
  Every = 1
  OutCap = 1
  MaxArrive = 2
  MaxTicks = 1
CHECK_DEADLOCK FALSE
INVARIANTS ExitCodeOnSignal
