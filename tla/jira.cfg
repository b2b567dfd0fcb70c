SPECIFICATION Spec
CONSTANTS
  task = task
  other = other
  Issue = {task, other}
  NoIssue = NoIssue
  Links <- MCLinks
  Worker = {w1, w2}
  Delta = 1
  Lag = 1
  LastChange = 2
  MaxTime = 3
  MaxFailed = 0
SYMMETRY Symmetry
INVARIANTS
  TypeOK
  CreatedOnce
  NothingLost
  DependenciesBound
CHECK_DEADLOCK FALSE
