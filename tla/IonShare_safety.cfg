SPECIFICATION Spec
CONSTANTS
  Threads = {t1, t2}
  Fds = {f1, f2}
  Vmas = {v1}
  Buffers = {b1, b2, b3}
  Pages = {p1, p2, p3}
  MaxPages = 2
  None = None
SYMMETRY Symmetry
INVARIANTS
  TypeOK
  RefcountExact
  PagesConserved
  AccessWithinBuffer
  AttachmentsOfUsers
PROPERTY ImplementsSharedBuffers
