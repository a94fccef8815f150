CONSTANTS
  MaxDofs = 12
  None = None
  Inputs <- MCInputs
  Unit = 2
  DenseTableMaxEntries = 3
SPECIFICATION Spec
INVARIANTS SubdomainsAreComponents LocalMatricesAreGram PartitionOfUnity FoldsUnlessFrustrated FloatsIffSingular FailsOnlyUnscaled DiagonalIsGram
CHECK_DEADLOCK FALSE
