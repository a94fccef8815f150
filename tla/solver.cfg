CONSTANTS
  MaxDofs = 100
  None = None
  NotFinite = NotFinite
  RankTol <- MCRankTol
  Inputs <- MCInputs
  Preconditioners <- MCPreconditioners
  Batches <- MCBatches
  Amplitudes <- MCAmplitudes
  Dense = FALSE
SPECIFICATION Spec
INVARIANTS BatchAllOrNothing UnidentifiedIsRankDeficit WhitenedGram PredictionsUnchanged UnidentifiedAreZero
CHECK_DEADLOCK FALSE
