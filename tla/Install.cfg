SPECIFICATION Spec
CONSTANTS
  Archive <- MCArchive
  Dirs = {"dir", "home"}
  Account = "passwd"
  New = "passwd.new"
  Home = "home"
  Inodes = {1, 2, 3, 4, 5}
  Births <- MCBirths
  None = None
  Faults = {}
  MaxStarts = 3
  MaxKills = 1
  MaxLosses = 1
  MaxOthers = 1
INVARIANTS
  TypeOK
  MarkerMeansOwned
  StartedMeansOwned
PROPERTIES
  ModePreserved
  AccountsKept
