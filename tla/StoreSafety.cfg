SPECIFICATION Spec
CONSTANTS
  p1 = p1
  p2 = p2
  Procs = {p1, p2}
  NoProc = NoProc
  f1 = f1
  Files = {f1}
  Attrs <- MCAttrs
  NoAttr = NoAttr
  Owners <- MCOwners
  AnyOwner = AnyOwner
  Expected <- MCExpected
  Durabilities <- Durable
  CheckpointInterval = 1
  MaxSets = 2
  MaxCrashes = 1
  MaxFaults = 1
  MaxReplayFaults = 1
  MaxPowerLosses = 1
SYMMETRY Symmetry
INVARIANTS
  TypeOK
  WriterExclusion
  ReadIsCurrentUnlessFailed
  AppendsAtBoundary
  RecoveryAccepts
  RecoveryIsExact
  DurableSetSurvives
PROPERTY CasReplacesPrevious
