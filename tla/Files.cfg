SPECIFICATION Spec
CONSTANTS
  t1 = t1
  t2 = t2
  Tracers = {t1, t2}
  NoTracer = NoTracer
  None = None
  Root = "root"
  Paths = {"p", "q"}
  i1 = i1
  i2 = i2
  i3 = i3
  i4 = i4
  i5 = i5
  Inodes = {i1, i2, i3, i4, i5}
  Calls <- FileCalls
  Starts <- FileStarts
  MaxCalls = 3
  MaxKills = 1
SYMMETRY Symmetry
INVARIANTS
  PublishedAsRequested
PROPERTY ChangesAreLinear
