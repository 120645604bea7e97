CONSTANTS
  Nodes = {a, b, c}
  None = None
  Size = 5
  MaxVnodes = 2
SYMMETRY Symmetry
SPECIFICATION RingSpec
INVARIANTS RingFollowsMembers ReplicasAreSuccessors
PROPERTY MinimalMovement
