SPECIFICATION FairSpec
CONSTANTS
  Readers = {r1, r2}
  Printers = {x1}
  Kbd = Kbd
  NoActor = NoActor
  INPUT_BUF = 2
  UINT = 4
  MaxN = 2
  OneCpu = TRUE
INVARIANTS ReaderSleepJustified
PROPERTIES LineSpec CommittedStable KilledReaderReturns
