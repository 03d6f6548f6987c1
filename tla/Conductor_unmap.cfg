CONSTANTS
  MaxInstances = 1
  MaxRequests = 2
  MaxOutputs = 0
  MaxInvalidations = 1
SPECIFICATION FairSpec
PROPERTIES
  UnmapReturns
CHECK_DEADLOCK FALSE
