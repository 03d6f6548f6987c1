CONSTANTS
  Clients = {c1, c2}
  MaxFd = 1
  MaxInstances = 1
  MaxResponses = 1
SPECIFICATION FairSpec
PROPERTIES
  AcceptedIsPolled
  GoneIsClosed
  WriterReturns
CHECK_DEADLOCK FALSE
