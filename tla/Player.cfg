CONSTANTS
  BufferCount = 2
  MaxUnit = 2
  Batch = {1, 2}
  MailBound = 2
  FinisherBound = 1
SPECIFICATION FairSpec
INVARIANTS
  PlayerInv
  WorkersAtRest
  PlaysInOrder
PROPERTIES
  FinishAfterLast
  HoldsStill
  ImplementsPlayback
  
  PlaysToEnd
CHECK_DEADLOCK FALSE
