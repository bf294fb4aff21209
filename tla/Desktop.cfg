CONSTANTS
  opens = opens
  fails = fails
  Url = {opens, fails}
  Flaky = {fails}
  NoUrl = nothing
  Before <- Lefts
  MaxRows = 2
  MaxViews = 3
  EventBound = 4
  RingSize = 4
  Lengths = {1, 2, 3, 5}
  FrameBound = 8
  Format <- MCFormat
  NoFormat = NoFormat
  SetupBound = 3
SPECIFICATION DesktopSpec
INVARIANTS DesktopInv 
PROPERTIES SessionsKept CallsEnd
CHECK_DEADLOCK FALSE
