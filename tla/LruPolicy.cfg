CONSTANTS
  None = None
  Keys = {k1, k2, k3, k4}
SPECIFICATION PolicySpec
INVARIANTS SlabConsistent SlabBounded
PROPERTIES ImplementsOrder MethodsMatchOrder
