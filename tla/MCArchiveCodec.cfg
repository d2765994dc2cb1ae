SPECIFICATION Spec
CONSTANTS
  Runs <- FourRuns
  Other = Other
  MaxEdits = 2
  TicksPerSecond = 2
INVARIANTS RoundTrip AcceptedTellsTheTruth
PROPERTY ExportKeepsRun
CHECK_DEADLOCK FALSE
