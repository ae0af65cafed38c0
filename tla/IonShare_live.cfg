SPECIFICATION FairSpec
CONSTANTS
  Threads = {t1, t2}
  Fds = {f1}
  Vmas = {v1}
  Buffers = {b1, b2}
  Pages = {p1, p2}
  MaxPages = 2
  None = None
PROPERTIES
  SyscallsReturn
  ExitReclaims
