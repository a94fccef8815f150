\* Two callers share the pool; both backends, failures, re-entry.
CONSTANTS
  s1 = s1  s2 = s2  s3 = s3
  d1 = d1  d2 = d2
  Callers = {c1, c2}
  Workers = {w1, w2}
  Subdomains = {s1, s2}
  Dofs = {d2}
  Residuals = {r1}
  GlobalIndices <- OneDof
  Plans <- FlatPlans
  Faults = {"failed"}
  MaxPoolSize = 1
  MaxDepth = 2
  Twice = Twice
SYMMETRY Sym
SPECIFICATION Spec
INVARIANTS TypeOK PoolClean
PROPERTIES ImplementsAdditiveSchwarz
