SPECIFICATION CacheSpec
CONSTANTS
  Absent = Absent
  binding = binding
  case = case
  bundle = bundle
  p = p
  q = q
  Rows = {binding, case, bundle}
  Entities = {binding}
  Direct <- MCDirect
  Loaded <- MCLoaded
  Values = {p, q}
  MaxChanges = 1
  MaxCommits = 2
SYMMETRY Alike
INVARIANTS SelectsAreCurrent VerdictsAreCurrent
