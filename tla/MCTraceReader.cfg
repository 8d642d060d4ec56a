SPECIFICATION Spec
CONSTANTS
  MaxRows = 4
  MaxSeq = 1
  MaxParent = 5
INVARIANTS
  RecordedIsReadable
  NothingLost
CHECK_DEADLOCK FALSE
