SPECIFICATION FairSpec
CONSTANT MaxInputs = 2
INVARIANTS
  InputsInOrder
  QueueDrained
  SharedOneAtATime
  OutlivedOnlyAfterRefusal
PROPERTIES
  InputsHandled
  ThreadsEnd
CHECK_DEADLOCK FALSE
