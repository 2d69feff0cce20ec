SPECIFICATION Spec
CONSTANTS
  None = None
  Root = Root
  w1 = w1
  w2 = w2
  c1 = c1
  t1 = t1
  t2 = t2
  p1 = p1
  n1 = n1
  Workers = {w1, w2}
  Closers = {c1}
  Threads = {t1, t2}
  Paths = {p1}
  Names = {n1}
  MaxThreads = 2
  MaxResets = 1
  Resumable = {}
SYMMETRY RegistrySymmetry
INVARIANT TypeOK
INVARIANT SlotsAccounted
INVARIANT PathsExclusive
INVARIANT NicknamesUnique
INVARIANT LiveIsCounted
