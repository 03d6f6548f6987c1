CONSTANTS
  Chars = {a, b}
  NUL = nul
  MaxStream = 6
  BufferSize = 3
SPECIFICATION FairSpec
INVARIANTS
  TypeOK
  RemainderIsTail
PROPERTIES
  DeliversMessages
  EventuallyAllDelivered
CHECK_DEADLOCK FALSE
