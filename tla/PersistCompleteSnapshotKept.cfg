CONSTANTS
  t1 = t1
  t2 = t2
  NCtx = 3
  Tags <- MCTags
  MaxOps = 6

SPECIFICATION Spec

PROPERTY CompleteSnapshotKept



\* A behaviour ends once MaxOps operations have been made.
CHECK_DEADLOCK FALSE
