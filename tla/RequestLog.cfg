SPECIFICATION FairSpec
CONSTANTS
  LastDay = 2
  KeepDays = 1
  Line = {e1, e2}
  Inodes = 3
  Jobs = 1
  QueueSize = 1
INVARIANTS
  Accounted
  StopFlushes
  KeptInOrder
PROPERTIES
  DayCompressed
  LeftoverCompressed
CHECK_DEADLOCK FALSE
