CONSTANTS
  MaxInstances = 1
  MaxRequests = 1
  MaxOutputs = 0
  MaxInvalidations = 0
SPECIFICATION FairSpec
PROPERTIES
  WorkerFailureReported
CHECK_DEADLOCK FALSE
