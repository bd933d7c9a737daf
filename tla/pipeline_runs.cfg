SPECIFICATION FairSpec
CONSTANTS
  Runs = {r1}
  MaxSteps = 3
  MaxEdits = 1
  MaxFaults = 1
  MaxRestarts = 1
INVARIANTS StepRunsTellTheRun OutputsPassedOn
PROPERTIES RunsSequential EveryRunEnds
CHECK_DEADLOCK FALSE
