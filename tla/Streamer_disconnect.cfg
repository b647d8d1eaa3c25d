SPECIFICATION FairSpec
CONSTANT MaxInputs = 1
PROPERTIES
  RunReturnsAfterDisconnect
CHECK_DEADLOCK FALSE
