SPECIFICATION Spec
CONSTANTS
  Tasks = {t1, t2}
  Runs = {r1, r2}
  NoTask = NoTask
  TTL = 2
  ContainerTime = 1
  MaxToolRounds = 1
  MaxTokens = 3
  MaxRequests = 2
  MaxTime = 3
SYMMETRY Symmetry
INVARIANTS MapsInverse NoTokenOutlivesItsRun SoleRunServed UsageAccounted
CHECK_DEADLOCK FALSE
