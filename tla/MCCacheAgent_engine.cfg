CONSTANTS
  m1 = m1
  h1 = h1
  None = None
  NoModel = NoModel
  Models = {NoModel, m1}
  Hashes = {h1, h2}
  Tasks = {t1, t2}
  TotalBlocks = 2
  Data = {d1, d2}
  Oversized = {}
  Zeroed = Zeroed
  Torn = Torn
  NumShards = 2
  ShardOf <- TwoShards
  WarnAt = 2
  CriticalAt = 2
  RejectAt = 2
  MaxStores = 3
SPECIFICATION EngineSpec
SYMMETRY Symmetry
INVARIANT GetsVerify
PROPERTY ImplementsCache
