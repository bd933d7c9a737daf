SPECIFICATION Spec
CONSTANTS
  Events <- MCEvents
  Agents <- MCAgents
  Window = 1
  MaxDeliveries = 2
  MaxTasks = 1
  MaxClock = 2
  MaxRestarts = 0
INVARIANT DroppedWasDelivered
CHECK_DEADLOCK FALSE
