SPECIFICATION WatchedSpec
CONSTANTS
  Thread = {t1, t2}
  Falls = {1, 2}
  Rises = {2}
  Fall = 2
  Rise = 2
SYMMETRY ThreadSymmetry
INVARIANTS
  EveryFlipToldOnce
  TrafficNeverKills
  GaugeUnlessCrossed
PROPERTIES
  PromiseUnlessTangled
