CONSTANTS
  fast = fast
  slow = slow
  off = off
  a = a
  b = b
  c = c
  e = e
  Stream <- Streams
  Enabled <- On
  Interval <- Every
  DataRef <- Refs
  DataRefs <- StreamRefs
  Readable <- Known
  Copied <- Arrays
  Val = {0, 1}
  Zero = 0
  W = 16
  Retry = 1
  Period = 1
  MinClock = 2
  MaxClock = 4
  MaxSteps = 0
SPECIFICATION Spec
INVARIANTS
  CountExact
  FreshPosts
CHECK_DEADLOCK FALSE
