SPECIFICATION Spec
CONSTANTS
  p1 = p1
  p2 = p2
  m1 = m1
  m2 = m2
  h1 = h1
  Threads = {m1, m2}
  Procs = {p1, p2}
  ProcOf <- OneAndOne
  MainOf <- Mains
  Pages = {g1, g2, g3}
  N = 1
  Drivers = {"mmap3"}
  None = None
INVARIANT PrintsWhatItWrote
