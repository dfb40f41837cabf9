CONSTANTS
  Procs = {p1, p2}
  NoProc = NoProc
  Requests <- AllRequests
  Disks <- AllDisks
  NINODES = 4
  NINODE = 3
  NFILE = 2
  NOFILE = 2
  MaxCalls = 4
  MayCrash = TRUE
SPECIFICATION Spec
SYMMETRY Symmetry
INVARIANTS RefsExact CacheCoherent LinksExact NoFsPanic
CHECK_DEADLOCK FALSE
