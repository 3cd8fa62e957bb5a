CONSTANTS
  N = 2
  Regular = {2}
  MaxInits = 3
SPECIFICATION Spec
INVARIANTS
  WorkersOwned
  PortFree
  NothingSurvivesStop
  FreedJoined
  AliveUntilReload
PROPERTIES
  ReloadEnds
  StopEnds
CHECK_DEADLOCK FALSE
