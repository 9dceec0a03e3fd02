SPECIFICATION Spec
CONSTANTS
  None = None
  c1 = c1
  c2 = c2
  cases = cases
  events = events
  sources = sources
  links = links
  r1 = r1
  r2 = r2
  Conns = {c1, c2}
  BaseTables <- MCBaseTables
  A08Tables <- MCA08Tables
  Runs = {r1, r2}
INVARIANTS PartialOnlyIfAbandoned OneWinner EarlyRunFreezes
