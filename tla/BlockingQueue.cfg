CONSTANTS
  Thread = {t1, t2, t3}
  Value = {a, b}
  Counts = {2}
  NoValue = NoValue
  NoCall = NoCall
  NoThread = NoThread
  MaxLen = 1
SPECIFICATION FairSpec
INVARIANT NoLostWakeup
PROPERTIES
  ImplementsAtomicQueue
  ReturnsWhenReady
