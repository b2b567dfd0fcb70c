SPECIFICATION FairSpec
CONSTANTS
  Job <- MCJob
  Request = {r1}
  Eta = {0, 2}
  MaxRetries = 2
  RetryCap = 2
  Fresh = Fresh
  Gone = Gone
  NoJob = NoJob
  Name <- MCName
  Channel <- MCChannel
  Root = "root"
  Parent <- MCParent
  Up <- MCUp
  PostOrder <- MCPostOrder
  Capacity <- MCCapacity
  Sequential = {}
  Throttle <- MCThrottle
  Created <- MCCreated
  MaxTime = 2
  JobChannel <- MCJobChannel
  Priority <- MCPriority
  Budget = 1
PROPERTIES
  EventuallySettled
