SPECIFICATION FairSpec
CONSTANTS
  Command <- TwoBytes
  Messages <- Spoken
  MAX_MESSAGE_BYTES = 4
  MaxPolls = 2
  MaxOthers = 1
  MaxConnections = 2
INVARIANTS FramesAreExact RequestsSucceed
PROPERTY RequestsEnd
CHECK_DEADLOCK FALSE
