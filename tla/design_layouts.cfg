CONSTANTS
  MaxDofs = 9
  None = None
  Inputs <- AllInputs
  Rhs = {r1}
  ObsVectors <- Ys
  Coefficient <- Powers
  Products = {"adjoint", "apply", "demean"}
  ParThreshold = 4
  LocalThreshold = 3
  GatherChunk = 2
  ScatterChunk = 3
  MaxProducts = 1
SPECIFICATION Spec
INVARIANTS AdjointInCallerOrder GatherInCallerOrder LocalitySorted LayoutRoundTrips
CHECK_DEADLOCK FALSE
