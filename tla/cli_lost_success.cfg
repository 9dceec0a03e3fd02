SPECIFICATION Spec
CONSTANTS
  p1 = p1
  p2 = p2
  Procs = {p1, p2}
  Earlier = Earlier
  None = None
  MaxFaults = 0
INVARIANT SuccessIsStored
