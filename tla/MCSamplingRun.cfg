SPECIFICATION FairSpec
CONSTANTS
  Count = 2
  Period = 3
  MaxAttempts = 3
  RetryDelay = 1
  MaxTime = 9
INVARIANTS
  TypeOK
  ResultsAccepted
  FixedSchedule
  RetryBudget
  EmulatorReleased
PROPERTIES
  KeepsContract
  RunEnds
CHECK_DEADLOCK FALSE
