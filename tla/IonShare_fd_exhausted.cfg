SPECIFICATION Spec
CONSTANTS
  Threads = {t1}
  Fds = {f1}
  Vmas = {v1}
  Buffers = {b1, b2}
  Pages = {p1, p2}
  MaxPages = 1
  None = None
INVARIANT OkMeansFd
