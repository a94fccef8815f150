\* One caller applying again and again: every plan, failures and panics.
CONSTANTS
  s1 = s1  s2 = s2  s3 = s3
  d1 = d1  d2 = d2
  Callers = {c1}
  Workers = {w1, w2}
  Subdomains = {s1, s2, s3}
  Dofs = {d1, d2}
  Residuals = {r1, r2}
  GlobalIndices <- Overlapping
  Plans <- AllPlans
  Faults = {"failed", "panicked"}
  MaxPoolSize = 2
  MaxDepth = 2
  Twice = Twice
SPECIFICATION Spec
INVARIANTS OkIsSum NoPartialResult WorkerBuffersBounded
