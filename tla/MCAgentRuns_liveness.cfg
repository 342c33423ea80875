CONSTANTS
  t2 = t2
  e1 = e1
  e2 = e2
  t1 = t1

  luna = luna
  terra = terra
  None = None
  Executors <- MCExecutors
  Tasks = {t1}
  Models <- MCModels
  Profiles <- WithFallback
  Capacity = 2
  MaxRuns = 2
  MaxRecent = 2
  MaxFaults = 1
  LeaseTicks = 1
  MaxOpen = 1
  OutageOpen = 1
  AttemptLimit = 2
SPECIFICATION Spec
PROPERTIES
  EveryRunIsClosed
  QueuedTaskIsServed
CHECK_DEADLOCK FALSE
