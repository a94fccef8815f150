CONSTANTS
  s1 = s1  s2 = s2  s3 = s3
  d1 = d1  d2 = d2
  Callers = {c1, c2}
  Workers = {w1}
  Subdomains = {s1, s2}
  Dofs = {d2}
  Residuals = {r1}
  GlobalIndices <- OneDof
  Plans <- NestedReduction
  Faults = {"failed"}
  MaxPoolSize = 1
  MaxDepth = 2
  Twice = Twice
SPECIFICATION FairSpec
PROPERTIES AppliesReturn ImplementsAdditiveSchwarz
