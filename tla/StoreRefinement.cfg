SPECIFICATION FairSpec
CONSTANTS
  p1 = p1
  p2 = p2
  Procs = {p1, p2}
  NoProc = NoProc
  f1 = f1
  Files = {f1}
  Attrs <- MCAttrs
  NoAttr = NoAttr
  Owners <- MCOwners
  AnyOwner = AnyOwner
  Expected <- NoneExpected
  Durabilities <- Durable
  CheckpointInterval = 1
  MaxSets = 2
  MaxCrashes = 1
  MaxFaults = 0
  MaxReplayFaults = 0
  MaxPowerLosses = 1
PROPERTIES
  ImplementsMap
  LookupEnds
