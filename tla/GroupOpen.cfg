SPECIFICATION FairSpec
CONSTANTS
  App = App
  Tracers = {t1, t2}
  MaxOpens = 3
  MaxUpdates = 2
  MaxKills = 1
  MaxFaults = 1
  MaxReboots = 1
INVARIANTS
  TypeOK
  RebuildsAlone
  TableIsCurrent
PROPERTY OpenEnds
CHECK_DEADLOCK FALSE
