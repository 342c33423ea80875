CONSTANTS
  e1 = e1
  e2 = e2
  t1 = t1
  t2 = t2
  luna = luna
  terra = terra
  None = None
  Executors <- MCExecutors
  Tasks <- MCTasks
  Models = {luna}
  Profiles <- MCProfiles
  Capacity = 2
  MaxRuns = 2
  MaxRecent = 2
  MaxFaults = 1
  LeaseTicks = 1
  MaxOpen = 1
  OutageOpen = 1
  AttemptLimit = 2
SPECIFICATION Spec
INVARIANTS
  OneProbe
  CompletedRunIsSettled
PROPERTIES
  ClosedByItsProbe
CHECK_DEADLOCK FALSE
SYMMETRY Symmetry
