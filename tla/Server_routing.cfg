CONSTANTS
  Clients = {c1, c2}
  MaxFd = 2
  MaxInstances = 1
  MaxResponses = 1
SPECIFICATION Spec
INVARIANTS
  RoutedToCreator
CHECK_DEADLOCK FALSE
