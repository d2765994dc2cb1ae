SPECIFICATION Spec
CONSTANTS
  Count = 2
  Period = 3
  MaxAttempts = 2
  RetryDelay = 1
  MaxTime = 8
INVARIANTS
  RetriesEndInTheirSlot
CHECK_DEADLOCK FALSE
