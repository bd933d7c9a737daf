SPECIFICATION Spec
CONSTANTS
  Orchs = {o1}
  Calls = {c1, c2, c3}
  NoCall = NoCall
  MaxConcurrency <- OneEach
  MaxRetries <- OneEach
  Priorities = {5}
  Backends = {"inprocess", "docker"}
  Entries = {"queue", "direct"}
  FaultPoints = {"post", "poll", "retry"}
  MaxTasks = 1
  MaxFaults = 1
  MaxPauses = 0
  MaxCrashes = 1
SYMMETRY Symmetry
INVARIANTS RetryChain RunningHasCall
