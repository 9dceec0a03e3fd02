SPECIFICATION Spec
CONSTANTS
  None = None
  c1 = c1
  c2 = c2
  k1 = k1
  k2 = k2
  v1 = v1
  v2 = v2
  Conns = {c1, c2}
  Keys = {k1, k2}
  Contents = {v1, v2}
  MaxSaves = 3
  MaxChecks = 2
  MaxEdits = 1
SYMMETRY Symmetry
INVARIANTS ChainIsWhole DamageIsSeen VerdictIsExact
