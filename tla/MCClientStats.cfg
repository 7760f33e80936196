SPECIFICATION Spec
CONSTANTS
  LastDay = 2
  KeepDays = 1
  Line = {1, 2, 3}
  Clients = 2
  ClientOf <- MCClientOf
  MaxIPs = 1
  Inodes = 3
  Jobs = 1
VIEW MCView
INVARIANTS
  TrackedKnown
  CountedOnce
  SnapshotKept
PROPERTIES
  DayNeverShrinks
CHECK_DEADLOCK FALSE
