CONSTANTS
  Clients = {c1}
  MaxFd = 1
  MaxInstances = 1
  MaxResponses = 0
SPECIFICATION FairSpec
PROPERTIES
  DestroyFinishes
CHECK_DEADLOCK FALSE
