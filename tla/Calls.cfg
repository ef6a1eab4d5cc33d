SPECIFICATION Spec
CONSTANTS
  Keep = Keep
  Leader = "leader"
  Threads = {"leader", "thread"}
  None = None
  Calls <- MCCalls
  Uid = 0
  Gid = 0
  Default = 1000
  MaxCalls = 4
  MaxSignals = 1
  MaxOthers = 1
INVARIANTS
  TypeOK
  PeersAgree
PROPERTIES
  DroppedIdsStayDropped
  AliasesRemoved
  NoSocketReplaced
