SPECIFICATION FairSpec
CONSTANTS
  Procs = {p1, p2}
  NoProc = NoProc
  Vals = {0}
  PIPESIZE = 2
  UINT = 4
  OneEnd = TRUE
  OneCpu = TRUE
  MaxN = 3
INVARIANT KilledAwake
PROPERTY CallsReturn
CHECK_DEADLOCK FALSE
