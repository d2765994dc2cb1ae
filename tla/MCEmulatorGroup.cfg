SPECIFICATION FairSpec
CONSTANTS
  Count = 2
  Exclusive = {1}
  MaxSessions = 2
  MaxMishaps = 3
INVARIANTS LeaksAreTold StartedMeansListening NothingRunsUnstopped CleanSessionsRepeat VerdictsAreTrue OwnReadings
PROPERTIES SessionsEnd StopEndsThreads
CHECK_DEADLOCK FALSE
