SPECIFICATION Spec
CONSTANTS
  Procs = {p1, p2, p3}
  NoProc = NoProc
  Vals = {v0, v1}
  PIPESIZE = 2
  UINT = 4
  OneEnd = FALSE
  OneCpu = FALSE
  MaxN = 3
SYMMETRY Symmetry
INVARIANTS SleepJustified FreedLast
PROPERTY FifoSpec
CHECK_DEADLOCK FALSE
