CONSTANTS
  Id = {t1, t2}
  Interval = {1, 2}
  PendingBound = 2
SPECIFICATION FairPeriodicSpec
PROPERTIES TasksKept TasksServed
CHECK_DEADLOCK FALSE
