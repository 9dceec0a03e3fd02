SPECIFICATION Spec
CONSTANTS
  Records <- MCRecords
  Snapshots <- MCSnapshots
  Packs <- MCPacks
  Home = "home"
  Contents = {"change", "other"}
  Texts = {"why", "because"}
  Facts = {"wrong", "right"}
  Sources = {"old", "new", "newer"}
  References = {"pack", "repack"}
  Documents = {"SOP", "PFMEA"}
  Nonces = {"n1", "n2"}
  Times = {1, 2, 3}
  GoodFacts = {"right"}
  FirstWork <- MCWork
  MaxEdits = 2
INVARIANTS TypeOK VerdictIsWorst ApprovalIsForThisWork BaselineIsProved
