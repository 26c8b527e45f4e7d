SPECIFICATION Spec
CONSTANTS
  Word = 4
  Steps <- FastSteps
  Vals = {u, w}
  TooBig = {w}
  Faulty = TRUE
  MaxLag = 0
  MaxLines = 2
  FreshSteps <- SlowSteps
  FreshLag = 1
  FreshLines = 3
  ScheduleWord = 2048
  ScheduleSteps = 6
  Times <- WalkTimes
INVARIANTS ScheduleSound FreshWhenHealthy
PROPERTIES EventPerFrame StNumNamesState StreamGoesOn LinesInTurn
CHECK_DEADLOCK FALSE
