CONSTANTS
  MaxDofs = 100
  None = None
  NotFinite = NotFinite
  RankTol <- MCRankTol
  Inputs <- MCInputs
  Preconditioners <- MCPreconditioners
  Batches <- MCBatches
  Amplitudes <- MCAmplitudes
  Dense = TRUE
SPECIFICATION Spec
INVARIANT UnidentifiedAreZero
CHECK_DEADLOCK FALSE
