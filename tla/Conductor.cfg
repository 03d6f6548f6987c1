CONSTANTS
  MaxInstances = 1
  MaxRequests = 3
  MaxOutputs = 1
  MaxInvalidations = 1
SPECIFICATION FairSpec
INVARIANTS
  TypeOK
  ResponseIdsOrdered
  CreateBeforeOutput
  DestroyedIsQuiet
  ForwardFindsWorker
PROPERTIES
  StopsUnlessStuck
  DeliversUnlessStuck
CHECK_DEADLOCK FALSE
