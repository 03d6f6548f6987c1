CONSTANTS
  MaxSignals = 2
  MaxFailures = 2
SPECIFICATION FairSpec
INVARIANTS
  NothingLeftOpen
  OnlyFailureClosesTwice
  ThreadsHaveSockets
PROPERTIES
  StopIsObeyed
CHECK_DEADLOCK FALSE
