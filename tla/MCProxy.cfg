SPECIFICATION ProxyFairSpec
CONSTANTS
  l1 = l1
  c1 = c1
  c2 = c2
  b1 = b1
  b2 = b2
  s1 = s1
  s2 = s2
  s3 = s3
  app = app
  health = health
  Listener = {l1}
  Client = {c1}
  Backend = {b1, b2}
  Session = {s1, s2}
  Closer = {app, health}
  Self = l1
  App = app
  Health = health
  Batch = 1
  Leaving = {b1}
  NShards = 1
  FlowOf <- MCFlowOf
  Selectors <- MCSelectors
  ShardOf <- MCShardOf
  Caps = {1}
  InitialCaps = {1}
INVARIANTS
  SessionHasRelay
  OnlyLateEscape
PROPERTIES
  StopCompletes
  OwnFailureOnly
CHECK_DEADLOCK FALSE
