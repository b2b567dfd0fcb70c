SPECIFICATION Spec
CONSTANTS
  task = task
  other = other
  Issue = {task, other}
  NoIssue = NoIssue
  Links <- MCLinks
  Worker = {w1}
  Delta = 1
  Lag = 1
  LastChange = 2
  MaxTime = 3
  MaxFailed = 2
INVARIANTS
  NothingLost
CHECK_DEADLOCK FALSE
