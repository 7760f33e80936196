SPECIFICATION PickSpec
CONSTANTS
  a = a
  b = b
  u = u
  Nobody = Nobody
  Address = {a, b}
  Client = {u}
  Pools <- MCPools
  Balances = {"round_robin", "least_sessions", "source_hash"}
  Hash <- MCHash
  Loads = {0, 1}
  Width = 3
  Window = 2
INVARIANTS
  AnswerUsable
  BestOfUsable
  MinimalDisruption
  RotationReaches
