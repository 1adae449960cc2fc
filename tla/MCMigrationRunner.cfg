CONSTANTS
  None = None
  r1 = r1
  r2 = r2
  r3 = r3
  Runners = {r1, r2, r3}
  Last = 2
SPECIFICATION FairSpec
CHECK_DEADLOCK FALSE
INVARIANTS
  RecordsAreTrue
  RecordedNotRepeated
PROPERTIES
  LockIsReleased
