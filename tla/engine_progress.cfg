SPECIFICATION FairSpec
CONSTANTS
  Orchs = {o1}
  Calls = {c1, c2, c3}
  NoCall = NoCall
  MaxConcurrency <- OneEach
  MaxRetries <- NoneEach
  Priorities = {5}
  Backends = {"inprocess"}
  Entries = {"queue", "direct"}
  FaultPoints = {}
  MaxTasks = 2
  MaxFaults = 0
  MaxPauses = 1
  MaxCrashes = 1
PROPERTIES EventuallyAtRest
