CONSTANTS
  Clients = {c1, c2}
  MaxFd = 2
  MaxInstances = 1
  MaxResponses = 3
SPECIFICATION Spec
INVARIANTS
  TypeOK
  MappedToCreator
  SentInOrder
  AckedClientQueued
  PolledOnce
SYMMETRY Symmetry
CHECK_DEADLOCK FALSE
