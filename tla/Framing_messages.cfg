SPECIFICATION FairSpec
CONSTANTS
  BUFFER_SIZE = 3
  FIRST_MESSAGE_MAX_SIZE = 2
  MAX_VALUE = 1
  Window = 2
  MaxSize = 7
  MaxMessages = 3
INVARIANTS
  ReceivedAsSent
  RefusedForCause
PROPERTIES
  Delivered
  ImplementsChannel
CHECK_DEADLOCK FALSE
