CONSTANTS
  Problems <- Systems
  Preconditioners <- MCPreconditioners
  Indefinite <- MCIndefinite
  StartVectors <- MCStartVectors
  Tolerances <- MCTolerances
  Budgets = {0, 1, 6}
  Drifts <- MCDrifts
  MaxCalls = 2
  MaxDenominator = 12
  None = None
SPECIFICATION Spec
INVARIANTS NormalEqEstimateExact ConvergedMeansSolved StopsWithinTolerance StopsAtBreakdown NeverWorseThanStart WindowIsRecent WindowOrthonormal EscalatesWhenStalled
CHECK_DEADLOCK FALSE
