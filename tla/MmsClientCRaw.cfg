SPECIFICATION Spec
CONSTANTS
  Word = 1024
  Ulp = 1
  Fixtures <- MCFixtures
  OtherWrites <- MCOtherWrites
  PageSize = 2
  MaxStarts = 2
  MaxFaults = 1
  WaitRounds = 8
  QuietRounds = 3
  MaxGot = 8
  Reports = 2
  FirstRounds = 4
  NextRounds = 2
  MaxBytes = 2
  Casts <- MCCasts
  Directories <- MCDirectories
  MaxTrouble = 1
  UnsignedEnd = 64
  Step32 = 4
  SecsEnd = 7
  Epoch84 = 2
  DaySecs = 2
  DaysEnd = 2
INVARIANT EveryLineTells
CHECK_DEADLOCK FALSE
