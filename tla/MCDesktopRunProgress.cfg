SPECIFICATION Spec
CONSTANTS
  MaxAmmeters = 1
  Slots = 1
  MaxAttempts = 2
  Faults = TRUE
  MaxRuns = 1
INVARIANT ProgressCountsSlots
CHECK_DEADLOCK FALSE
