SPECIFICATION Spec
CONSTANTS
  LastDay = 2
  KeepDays = 1
  Line = {e1, e2}
  Inodes = 3
  Jobs = 2
  QueueSize = 1
INVARIANTS
  LateLineKept
CHECK_DEADLOCK FALSE
