SPECIFICATION MCSpec
CONSTANTS
  U32 = 64
  U64 = 256
  AppIds = {1, 2}
  SvIds = {"le", "other"}
  SmpCntWrap <- Wraps
  Frames <- Traffic
  MaxArrive = 3
  MaxTime = 4
  Ample = 3
  Scant = 2
  Wrap = 7
  MaxBurst = 2
  MaxDropped = 8
  MaxLate = 2
  MaxAsdus = 9
INVARIANTS CountedIfRoom SameCounts LostExact
PROPERTIES StatsCatchUp
CHECK_DEADLOCK FALSE
