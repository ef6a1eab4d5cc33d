SPECIFICATION FairTreeSpec
CONSTANTS
  Tids = {t1, t2, t3}
  Tracee1 = t1
  Creds = {user, root}
  FirstCred = user
  NoCred = NoCred
  EarlyReuse = FALSE
  MaxClones = 3
  MaxKills = 1
  MaxCalls = 1
INVARIANTS
  ChildInherits
  TracerOutlivesTracees
PROPERTIES
  StoppedAreResumed
  TracerEnds
CHECK_DEADLOCK FALSE
