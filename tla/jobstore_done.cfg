SPECIFICATION Spec
CONSTANTS
  Job = {j1}
  Request = {r1, r2}
  Eta = {0}
  MaxRetries = 2
  RetryCap = 2
  Fresh = Fresh
  Gone = Gone
  NoJob = NoJob
SYMMETRY Symmetry
PROPERTIES
  DoneIsFinal
