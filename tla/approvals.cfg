SPECIFICATION Spec
CONSTANTS
  Clicks = {c1, c2}
  MaxRetries = 1
  Submitted = {FALSE}
  MaxTasks = 3
  MaxApprovals = 2
  MaxRestarts = 1
SYMMETRY Symmetry
INVARIANTS FollowUpsAccountedFor FollowUpsBounded ApprovedNotAskedAgain
CHECK_DEADLOCK FALSE
