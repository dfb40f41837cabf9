SPECIFICATION KernelSpec
CONSTANTS
  Clients = {p1, p2, p3}
  NoClient = NoClient
  Bnos = {n1, n2, n3}
  NoBno = NoBno
  LogBnos = {n1}
  IndirectBnos = {n2}
  Contents = {0, 1}
  NBUF = 2
  DiskErrors = FALSE

  Procs = {q1, q2}
  NoBlock = NoBlock
  Vals = {0, 1}
  NBLOCKS = 2
  SIZE = 9
  LOGSIZE = 9
  MAXOPBLOCKS = 3
  OpWrites = 2

  NPROC = 4
  Pages = {g1, g2, g3}
  NoPage = NoPage
  MaxPid = 4
  Calls = {"fork", "clone", "wait", "waitx", "join", "exec", "sbrk", "kill"}
  Joining = TRUE
SYMMETRY Symmetry
INVARIANTS
  ReadsLastContents SleepersHaveCause
  CleanBuffersCurrent
  SleepsOnlyForNothing SpacesExact
PROPERTIES AtomicSpec
CHECK_DEADLOCK FALSE
