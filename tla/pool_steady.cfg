\* The code's pool size and four callers: nothing fails, one subdomain.
CONSTANTS
  s1 = s1  s2 = s2  s3 = s3
  d1 = d1  d2 = d2
  Callers = {c1, c2, c3, c4}
  Workers = {w1}
  Subdomains = {s2}
  Dofs = {d2}
  Residuals = {r1}
  GlobalIndices <- OneDof
  Plans <- FlatPlans
  Faults = {}
  MaxPoolSize = 4
  MaxDepth = 1
  Twice = Twice
SYMMETRY Sym
SPECIFICATION Spec
PROPERTIES SteadyStateAllocatesNothing
