SPECIFICATION FairSpec
CONSTANTS
  MaxAmmeters = 2
  Slots = 1
  MaxAttempts = 2
  Faults = TRUE
  MaxRuns = 2
INVARIANTS NoSampleDropped AnalysisFollowsSamples IdlePageIsFinal BannerIsTrue StopIsPrompt OneRunAtATime OnlyWholeWindowsArchived
CHECK_DEADLOCK FALSE
PROPERTY RunsEnd
