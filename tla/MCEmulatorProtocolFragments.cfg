SPECIFICATION Spec
CONSTANTS
  Command <- TwoBytes
  Messages <- Spoken
  MAX_MESSAGE_BYTES = 4
  MaxPolls = 2
  MaxOthers = 1
  MaxConnections = 1
INVARIANT FragmentsAreNotCommands
CHECK_DEADLOCK FALSE
