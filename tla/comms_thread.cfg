SPECIFICATION Spec
CONSTANTS
  Roles = {user, assistant}
  Messages = {m1, m2}
  Commands = {c1}
  Nothing = Nothing
  Thinking = Thinking
  HistoryLimit = 3
  CompactFrom = 1
  MaxRetries = 1
  FaultWeight = 2
  MaxTrouble = 2
SYMMETRY MCSymmetry
INVARIANTS
  RecentRemembered
  ResetHolds
  SerialAnswers
  SerialOneThread
CHECK_DEADLOCK FALSE
