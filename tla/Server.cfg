CONSTANTS
  Item = {a, b, c, d}
  MaxBatch = 2
  Garbage <- MCGarbage
  Broken = {d}
  NoItem = NoItem
  Requests = 6
SPECIFICATION FairServerSpec
PROPERTIES
  StaysCurrent
  AllGetTheirTurn
CHECK_DEADLOCK FALSE
