CONSTANTS
  d1 = d1
  x1 = x1
  None = None
  Demands = {d1}
  Domains = {"network", "technical"}
  Docs = {x1}
  Spans = 1
  AttemptLimit = 2
  MaxFeedback = 1
  MaxFaults = 3
SPECIFICATION FairSpec
INVARIANTS
  PublishedDemandIsAnswered
  
PROPERTIES
  ResearchNeverStops
  
CHECK_DEADLOCK FALSE
