SPECIFICATION FairSpec
CONSTANTS
  None = None
  x = x
  d1 = d1
  d2 = d2
  r1 = r1
  r2 = r2
  a1 = a1
  a2 = a2
  a3 = a3
  e1 = e1
  e2 = e2
  n1 = n1
  n2 = n2
  k1 = k1
  k2 = k2
  Conns = {k1, k2}
  Roots = {x}
  Docs = {d1, d2}
  Resolutions = {r1, r2}
  ArtifactSets = {a1, a2, a3}
  Evidence = {e1, e2}
  Passing = {e1}
  Nonces = {n1, n2}
  Supersedes <- MCSupersedes
  SavableCases <- OriginalAndResolved
  SavableRuns <- PlainAndBefore
  Replays <- AllReplays
  MaxCalls = 4
INVARIANTS TypeOK SingleReplay NoStandaloneReference ReplayCloses VerifiesExactly
PROPERTIES RetryChangesNothing LockIsReleased ImplementsLedger
