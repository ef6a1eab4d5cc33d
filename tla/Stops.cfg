SPECIFICATION FairSpec
CONSTANTS
  Calls <- MCCalls
  Getpid = "getpid"
  Traced <- MCTraced
  Trapped <- MCTrapped
  Emulated <- MCEmulated
  Rerouted <- MCRerouted
  Route <- MCRoute
  Execs <- MCExecs
  Kernels = {"new", "old"}
  MaxSignals = 2
INVARIANTS
  TypeOK
  RunsAsHandled
  ReturnsItsResult
PROPERTY CallsReturn
