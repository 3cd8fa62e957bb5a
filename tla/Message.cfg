CONSTANTS
  DataRef = {"d1", "d2"}
  Sims <- MCSims
  Streams <- MCStreams
  Words = 2
  Cap = 3

SPECIFICATION Spec
INVARIANTS TypeOK KeysExact Faithful MessageThrows PageInSlot
CHECK_DEADLOCK FALSE
