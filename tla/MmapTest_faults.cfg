SPECIFICATION FairSpec
CONSTANTS
  p1 = p1
  p2 = p2
  m1 = m1
  m2 = m2
  h1 = h1
  Threads = {m1, m2, h1}
  Procs = {p1, p2}
  ProcOf <- TwoAndOne
  MainOf <- Mains
  Pages = {g1, g2, g3}
  N = 2
  Drivers = {"mmap1", "mmap2", "mmap3", "mmap4"}
  None = None
INVARIANTS
  TypeOK
  RefsExact
  LossBounded
  SigbusOnlyIf
  ReadBackUnlessReplaced
PROPERTY ProgramEnds
