CONSTANTS
  Files <- MCFiles
  Name = {"n", "a", "b", ""}
  Absent = Absent
  Wrong = Wrong
  Given = Given
  Missing = Missing
  Malformed = Malformed
  W = 65536

SPECIFICATION Spec
INVARIANTS TypeOK AllOrNothing RunsWhatIsEnabled
CHECK_DEADLOCK FALSE
