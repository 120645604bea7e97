CONSTANTS
  None = None
  Nodes = {w, a}
  Watchers = {w}
  Frail = {a}
  Publishers = {a}
  Hashes = {h1}
  MaxBoots = 3
  MaxStores = 2
SPECIFICATION Spec
SYMMETRY Symmetry
INVARIANTS MetadataTypeOK DeletedBlocksForgotten CurrentLocationKnown RingHasNoDeadNodes
PROPERTY RegisteredNodesStay
CHECK_DEADLOCK FALSE
