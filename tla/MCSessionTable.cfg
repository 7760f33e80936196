SPECIFICATION FairSpec
CONSTANTS
  l1 = l1
  c1 = c1
  c2 = c2
  b1 = b1
  b2 = b2
  s1 = s1
  s2 = s2
  s3 = s3
  Listener = {l1}
  Client = {c1, c2}
  Backend = {b1, b2}
  Session = {s1, s2, s3}
  Closer = {k1}
  NShards = 2
  FlowOf <- MCFlowOf
  Selectors <- MCSelectors
  ShardOf <- MCShardOf
  Caps = {1, 2}
  InitialCaps = {2}
INVARIANTS
  CapNeverExceeded
  CountExact
  LedgerExact
  SocketsFollowTable
  CloseWhereComplete
PROPERTIES
  IdleReaped
  AdmissionExact
CHECK_DEADLOCK FALSE
