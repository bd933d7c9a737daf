SPECIFICATION FairSpec
CONSTANTS
  Orchs = {o1}
  Calls = {c1, c2, c3}
  NoCall = NoCall
  MaxConcurrency <- OneEach
  MaxRetries <- OneEach
  Priorities = {5}
  Backends = {"inprocess"}
  Entries = {"queue", "direct"}
  FaultPoints = {}
  MaxTasks = 1
  MaxFaults = 0
  MaxPauses = 0
  MaxCrashes = 0
PROPERTIES RetriesDelivered
