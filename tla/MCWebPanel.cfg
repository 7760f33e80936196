SPECIFICATION FairSpec
CONSTANTS
  None = None
  Statuses <- MCStatuses
  Key = {"requests", "ip"}
  Sizes = {40}
  Kilo = 32
  MaxFlight = 2
  MaxClicks = 2
  MaxChanges = 2
INVARIANTS
  ChartsFollowStatus
  OverviewAgrees
PROPERTIES
  SortSettles
  PanelConverges
  LossIsTold
