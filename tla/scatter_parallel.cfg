CONSTANTS
  MaxDofs = 12
  None = None
  Inputs <- Strategic
  Rhs = {r1, r2}
  ObsVectors <- Ys
  Coefficient <- Powers
  Products = {"adjoint", "apply"}
  ParThreshold = 2
  LocalThreshold = 3
  GatherChunk = 3
  ScatterChunk = 3
  MaxProducts = 2
SPECIFICATION Spec
INVARIANTS AdjointInCallerOrder GatherInCallerOrder
CHECK_DEADLOCK FALSE
