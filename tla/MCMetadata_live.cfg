CONSTANTS
  None = None
  Nodes = {w, a}
  Watchers = {w}
  Frail = {a}
  Publishers = {w, a}
  Hashes = {h1}
  MaxBoots = 2
  MaxStores = 2
SPECIFICATION LiveSpec
INVARIANT DeadLocationsOverwritten
PROPERTIES PublicationsExpire CrashedNodesLeaveRing
CHECK_DEADLOCK FALSE
