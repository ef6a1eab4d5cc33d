SPECIFICATION Spec
CONSTANTS
  Tracers = {t1, t2}
  Inodes = {i1, i2, i3}
  Slots = 2
  Users = {"user"}
  Default = "default"
  MaxNodes = 3
  MaxCalls = 3
  MaxKills = 1
SYMMETRY Symmetry
INVARIANTS
  AnswersAreOfThisNode
  TerminalIsWhole
  KeeperHasPin
