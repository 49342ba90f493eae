SPECIFICATION Spec
CONSTANTS
  Keys = {k1, k2, k3, k4, k5, k6}
  MaxQval = 3
  Qvalues <- QueueValues
SYMMETRY Symmetry
INVARIANTS PositionsKept OrderKept
