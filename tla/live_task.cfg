SPECIFICATION FairSpec
CONSTANTS
  Printed = {"line1", "line2"}
  Viewers = {v1}
  MayReject = TRUE
INVARIANTS
  NoLineMissed
  ToldSawOutcome
  ToldAfterOutcome
  ListenersAccounted
PROPERTIES
  EveryViewerTold
  RoundSettles
CHECK_DEADLOCK FALSE
