CONSTANTS
  Base = 2
  Requests <- ShortRequests
  MaxSent = 3
  BufferSize = 4
SPECIFICATION FairSpec
INVARIANTS
  TypeOK
  ReceivesRequests
PROPERTIES
  EventuallyReceived
CHECK_DEADLOCK FALSE
