SPECIFICATION SSpec
CONSTANTS
  MaxBytes = 4
  MaxInputs = 3
  Window = 2
  MAX_DATA_LENGTH = 2
INVARIANTS
  NothingLostOrReordered
PROPERTIES
  Relayed
  StreamFlows
  EndsTogether
  ImplementsChannels
CHECK_DEADLOCK FALSE
