SPECIFICATION FairSpec
CONSTANTS
  Procs = {p1, p2, p3}
  Vals = {0}
  NBLOCKS = 5
  SIZE = 6
  LOGSIZE = 6
  MAXOPBLOCKS = 2
  OpWrites = 1
  NoBlock = NoBlock
INVARIANT NeverTooBig
PROPERTY SleepersWoken
