SPECIFICATION Spec
CONSTANTS
  Orchs = {o1, o2}
  Calls = {c1, c2, c3}
  NoCall = NoCall
  MaxConcurrency <- OneEach
  MaxRetries <- NoneEach
  Priorities = {1, 5}
  Backends = {"inprocess"}
  Entries = {"queue"}
  FaultPoints = {"call", "poll", "catch"}
  MaxTasks = 3
  MaxFaults = 1
  MaxPauses = 0
  MaxCrashes = 1
SYMMETRY Symmetry
INVARIANTS TypeOK QueueBound MapExact
PROPERTIES SlotPoolImplemented
