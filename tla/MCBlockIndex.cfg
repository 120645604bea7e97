CONSTANTS
  k1 = k1
  k2 = k2
  k3 = k3
  t1 = t1
  t2 = t2
  e1 = e1
  None = None
  Keys = {k1, k2, k3}
  Tasks = {t1, t2}
  Entries = {e1}
  Capacity = 1
  NumShards = 2
  ShardOf <- TwoShards
  MaxEvicted = 2
SPECIFICATION GrowLive
INVARIANTS IndexTypeOK Evictable OvershootBounded
PROPERTY InsertLockFree
