SPECIFICATION Spec
CONSTANTS
  NPROC = 3
  Cpus = {c0, c1}
  Cpu0 = c0
  NoCpu = NoCpu
  NQ = 2
  QMax <- MCQMax
  AgeLimit = 1
  MaxPid = 3
INVARIANTS RunnableQueuedOnce RunningOnOneCpu WithinQuantum
PROPERTIES QueueMoves FifoWithinQueue
