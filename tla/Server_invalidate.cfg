CONSTANTS
  Clients = {c1}
  MaxFd = 1
  MaxInstances = 2
  MaxResponses = 0
SPECIFICATION Spec
INVARIANTS
  InvalidatesUnmapped
CHECK_DEADLOCK FALSE
