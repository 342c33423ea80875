CONSTANTS
  d1 = d1
  d2 = d2
  w1 = w1
  None = None
  Docs = {d1}
  Copies = {}
  Workers = {w1}
  PerRun = 1
  Batch = 1
  MaxActive = 1
  Prepared = 1
  AttemptLimit = 2
  FragmentLimit = 2
  MaxFaults = 2
  Reprocessed = {}
SPECIFICATION FairSpec
PROPERTIES
  DocumentsSettle
CHECK_DEADLOCK FALSE
