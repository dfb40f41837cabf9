SPECIFICATION ThreadsSpec
CONSTANTS
  NPROC = 4
  Pages = {g1, g2, g3, g4}
  NoPage = NoPage
  MaxPid = 4
  Calls = {"fork", "wait", "exec", "sbrk"}
  Joining = TRUE
INVARIANT NoSwitchPanic
CHECK_DEADLOCK FALSE
