SPECIFICATION Spec
CONSTANTS
  Tracers = {t1, t2}
  NoTracer = NoTracer
  Pids = {p1, p2, p3}
  Free = Free
  Deleted = Deleted
  Home <- MCHome
  Ids = {user, root}
  NoId = NoId
  Slots = 2
  MaxBirths = 3
  MaxEvents = 2
SYMMETRY MCSymmetry
CHECK_DEADLOCK FALSE
INVARIANT ForgetsOnlyTheDead
