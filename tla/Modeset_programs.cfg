SPECIFICATION FairSpec
CHECK_DEADLOCK FALSE
CONSTANTS
  p1 = p1
  p2 = p2
  Procs = {p1, p2}
  Threaded = {p1}
  Objects = {o1, o2}
  MayRun <- OneRunsAll
  Drivers = {"cma", "my-gem", "vkms_drv_5", "vkms_drv"}
  WordSize = 6
  Requests <- SmallRequests
  None = None
INVARIANTS
  TypeOK
  RefsExact
  LeavesNothing
  ShownIsPainted
  LitUnlessFailed
  ForeignOnlyIf
  ShortOnlyIf
PROPERTY MemoryComesBack
