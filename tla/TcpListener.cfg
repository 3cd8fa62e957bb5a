CONSTANTS
  Handle = {h1, h2, h3}
  Listener = listener
  Invalid = invalid
  Limit = 3
SPECIFICATION Spec
INVARIANTS
  TypeOK
  SetIsOpen
  RecvReturns
PROPERTIES
  Hears
  Answered
  
CHECK_DEADLOCK FALSE
