CONSTANTS
  BufferCount = 1
  MaxUnit = 2
  Batch = {1}
  MailBound = 3
  FinisherBound = 0
SPECIFICATION Spec
PROPERTIES
  PauseStops
CHECK_DEADLOCK FALSE
