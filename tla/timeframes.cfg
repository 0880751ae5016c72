SPECIFICATION Spec
CONSTANTS
  c1 = c1
  c2 = c2
  Holiday = {}
  Slot <- Weekdays
  MaxUpdate = 2
  NoKey = NoKey
INVARIANTS TypeOK StreamMatchesBatch ClosedOnce
CHECK_DEADLOCK FALSE
