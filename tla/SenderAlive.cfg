CONSTANTS
  N = 1
  Regular = {1}
  MaxInits = 2
SPECIFICATION Spec
INVARIANT SenderAlive
CHECK_DEADLOCK FALSE
