SPECIFICATION Spec
CONSTANTS
  None = None
  x = x
  y = y
  d1 = d1
  d2 = d2
  m1 = m1
  m2 = m2
  r1 = r1
  r2 = r2
  a1 = a1
  a2 = a2
  a3 = a3
  e1 = e1
  e2 = e2
  n1 = n1
  n2 = n2
  n3 = n3
  k1 = k1
  k2 = k2
  Conns = {k1, k2}
  Roots = {x, y}
  Docs = {d1, d2}
  Mutations = {m1, m2}
  Resolutions = {r1, r2}
  ArtifactSets = {a1, a2, a3}
  Evidence = {e1, e2}
  Passing = {e1}
  Nonces = {n1, n2, n3}
  Supersedes <- MCSupersedes
  Effect <- MCEffect
  SavableRuns <- LocatorOnly
  SavableReplays <- NoReplays
  Continuations <- TwoContinuations
  MaxCalls = 3
INVARIANT ContinuedStoreVerifies
