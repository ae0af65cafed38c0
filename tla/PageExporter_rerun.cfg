SPECIFICATION Spec
CONSTANTS
  Threads = {t1}
  Fds = {f1, f2}
  Vmas = {v1}
  Buffers = {b1, b2}
  None = None
  Stages = {8}
CHECK_DEADLOCK FALSE
INVARIANT TestsCanBeRun
