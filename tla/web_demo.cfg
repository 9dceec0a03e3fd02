SPECIFICATION FairSpec
CONSTANTS
  Conns = {c1, c2}
  MaxSlots = 1
  Mutations = {"M001_STALE_SOP_CONFLICT", "M002_MISSING_VALIDATION", "BASELINE"}
  Default = "M001_STALE_SOP_CONFLICT"
  Status <- MCStatus
  MaxStops = 1
  None = None
INVARIANTS TypeOK SlotsAreCounted PageIsOfOneRun
PROPERTIES NothingHangs
