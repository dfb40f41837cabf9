SPECIFICATION FairSpec
CONSTANTS
  NPROC = 3
  Cpus = {c0}
  Cpu0 = c0
  NoCpu = NoCpu
  NQ = 2
  QMax <- MCQMaxLive
  AgeLimit = 1
  MaxPid = 3
PROPERTIES StarvationFree
