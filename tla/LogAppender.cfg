CONSTANTS
  Thread = {flight, web, worker}
  Web = web
  Max = 4
SPECIFICATION Spec
INVARIANTS
  SizeBound
  PopNeverEmpty
PROPERTIES
  PageIsList
  PageEnds
CHECK_DEADLOCK FALSE
