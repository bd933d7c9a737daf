SPECIFICATION FairSpec
CONSTANTS
  Events <- MCRepeated
  Agents <- MCAgents
  Window = 1
  MaxDeliveries = 2
  MaxTasks = 1
  MaxClock = 2
  MaxRestarts = 1
INVARIANTS
  WithinWindowOnce
  EndedHandlingsAccounted
  MountedCloneExists
  ClonesAccounted
  CompletedAfterExecution
PROPERTY HandlingsEnd
CHECK_DEADLOCK FALSE
