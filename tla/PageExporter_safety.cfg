SPECIFICATION Spec
CONSTANTS
  Threads = {t1, t2}
  Fds = {f1, f2}
  Vmas = {v1}
  Buffers = {b1, b2, b3}
  None = None
  Stages <- AllStages
SYMMETRY Symmetry
CHECK_DEADLOCK FALSE
INVARIANTS
  TypeOK
  CountsShort
  UndefinedOnlyIf
PROPERTY KeptForGood
