CONSTANTS
  None = None
  Components <- MCComponents
  Configs <- MCConfigs
  Leftovers <- MCLeftovers
  Gauges <- MCGauges
  Auxiliaries = {0, 1}
  FailingUnits = {1}
  MaxSolves = 2
SPECIFICATION Spec
INVARIANTS ComplementIsLaplacian SolvesLocalSystem LocalOperatorSymmetric LoadsBack FailsOnlyFatally
CHECK_DEADLOCK FALSE
