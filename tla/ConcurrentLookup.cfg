CONSTANT K = 3
SPECIFICATION Spec
INVARIANTS
  AloneIsExact
