SPECIFICATION Spec
CONSTANTS
  None = None
  MaxWork = 6
  MaxRevision = 3
  Revisions = {1, 3}
CHECK_DEADLOCK FALSE
INVARIANTS TypeOK BenchmarkTruth FaultsDoNotCancel PassMeansReady EditVoidsReport ReferencesProveArtifacts RecordCatchesUp
