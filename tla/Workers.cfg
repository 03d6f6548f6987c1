CONSTANTS
  MaxWorkers = 2
  MessageLength = 2
  PipeCapacity = 1
  Budgets <- MCBudgets
SPECIFICATION FairSpec
INVARIANTS
  TypeOK
  ThreadsUseOpenHandles
  MisusedOnlyAfterFailure
  KnownLeaks
  NoProcessLeft
  ClosingEndsInput
PROPERTIES
  SertopGetsMessages
  DestructorReturns
  QueueIsWritten
CHECK_DEADLOCK FALSE
