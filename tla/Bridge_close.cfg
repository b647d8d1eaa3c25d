SPECIFICATION Spec
CONSTANTS
  MaxBytes = 2
  Window = 1
  MAX_DATA_LENGTH = 2
INVARIANTS
  ServerSurvives
CHECK_DEADLOCK FALSE
