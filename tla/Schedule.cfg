CONSTANTS
  fast = fast
  slow = slow
  off = off
  a = a
  b = b
  c = c
  e = e
  Stream <- OneStream
  Enabled <- OneStream
  Interval <- OneEvery
  DataRef <- OneDataRef
  DataRefs <- OneDataRefs
  Readable <- OneDataRef
  Copied <- NoCopied
  Val = {0}
  Zero = 0
  W = 32
  Retry = 3
  Period = 2
  MinClock = 4
  MaxClock = 14
  MaxSteps = 2
SPECIFICATION Spec
INVARIANTS
  DiscoveryBound
  SilenceBound
PROPERTIES
  NotTooEarly
CHECK_DEADLOCK FALSE
