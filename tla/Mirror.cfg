CONSTANTS
  Item = {a, b}
  Chunk = 1
  Syncs = 2
  PipeBound = 2
  EventBound = 1
  NoItem = NoItem
  VolumeTop = 1
  Modes = 2
  KeyBound = 2
  OtherBound = 1
SPECIFICATION ClientSpec
INVARIANTS
  ClientInv
  MirrorFollows
PROPERTIES
  StaleOnly
  RepliesCome
  ComesToShow
CHECK_DEADLOCK FALSE
