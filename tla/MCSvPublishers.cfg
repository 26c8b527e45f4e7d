SPECIFICATION Spec
CONSTANTS
  NoAsdu = 2
  Wrap = 3
  ReportEvery = 3
  Second = 2
  Faulty = TRUE
  MaxLag = 2
  MaxFrames = 4
  MaxLines = 2
INVARIANTS SmpCntOfSlot EventsTrueIfLearnt StopsAtOnce
PROPERTY RunsUntilStopped
CHECK_DEADLOCK FALSE
