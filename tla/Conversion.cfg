CONSTANTS
  t1 = t1
  t2 = t2
  Task = {t1, t2}
  Chosen <- Orders
  MaxRun = 2
  MaxHeld = 1
SPECIFICATION FairSpec
INVARIANTS ConversionInv 
PROPERTIES AllEnd
CHECK_DEADLOCK FALSE
