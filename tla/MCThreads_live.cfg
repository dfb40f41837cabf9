SPECIFICATION ThreadsFairSpec
CONSTANTS
  NPROC = 3
  Pages = {g1, g2, g3}
  NoPage = NoPage
  MaxPid = 3
  Calls = {"fork", "clone", "join", "wait", "waitx", "kill", "exec", "sbrk"}
  Joining = FALSE
PROPERTIES OrphansReaped KilledExits
CHECK_DEADLOCK FALSE
