SPECIFICATION FairSpec
CONSTANTS
  e1 = e1
  e2 = e2
  c1 = c1
  c2 = c2
  a1 = a1
  a2 = a2
  Entry = {e1, e2}
  Crooked = Crooked
  Unparsable = Unparsable
  Absent = Absent
  Client = {c1, c2}
  Covers <- MCCovers
  Listener = {1, 2}
  Addr = {a1, a2}
  Closed = Closed
  Configs <- MCConfigs
  Edits <- MCEdits
  Probed = {1}
  Budgets <- MCBudgets
INVARIANTS
  NoBlockedSession
  AddHolds
PROPERTIES
  ReloadSpares
  LateReportsInert
  BlacklistSettles
CHECK_DEADLOCK FALSE
