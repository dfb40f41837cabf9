SPECIFICATION ProgramsSpec
CONSTANTS
  NPAGES = 15
  PGSIZE = 2
  NPTENTRIES = 2
  UPAGES = 6
  ADDRESSES = 16
  KTABLES = 1
  NSLOTS = 2
  Values = {0, 1}
  Text = 2
  Progs <- SomeProgs
  ArgSizes = {1, 2}
  Grows = {1, 3}
  Junk = 3
  MaxCalls = 7

  BSIZE = 2
  NDIRECT = 2
  MAXOPBLOCKS = 6
  NBLOCKS = 6
  NINODES = 2
  UINT = 10
  Clients = {c1, c2}
  NFILE = 2
  Byte = {0, 1, 2}
  ImageBlocks = 3
  Images <- SomeImages
  Writes <- SomeWrites
  Reads = {1, 3}
  MaxSteps = 4

  HEAPTOP = 10
  MINUNITS = 4
  HEADER = 2
  MaxRequest = 8
  Gaps = {1}

  Lines <- SomeLines
  MAXARGS = 3
  NFD = 5
  NSHELL = 5
INVARIANTS
  PagesExact
  BlocksExact ReadsAgree ChunkFitsLog
  HeapExact
  ParsesGrammar WiredAsWritten NeverStuck ForegroundDone
PROPERTIES MemorySpec ByteFileSpec
CHECK_DEADLOCK FALSE
