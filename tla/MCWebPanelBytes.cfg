SPECIFICATION Spec
CONSTANTS
  None = None
  Statuses <- MCStatuses
  Key = {"requests"}
  Sizes = {0, 31, 32, 1024, 1500, 40000, 2000000}
  Kilo = 32
  MaxFlight = 1
  MaxClicks = 0
  MaxChanges = 0
INVARIANTS
  BytesReadTrue
