SPECIFICATION Spec
CONSTANTS
  Job <- MCJob
  Name <- MCName
  Channel <- MCChannel
  Root = "root"
  Parent <- MCParent
  Up <- MCUp
  PostOrder <- MCPostOrder
  Capacity <- MCCapacity
  Sequential <- MCSequential
  Throttle <- MCThrottle
  Created <- MCCreated
  Notice <- MCOrderNotice
  MaxTime = 4
  NoJob = NoJob
PROPERTIES
  SequentialInOrder
