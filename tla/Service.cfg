CONSTANTS
  Address = {s1, s2, s3}
  Nobody = Nobody
  Word = 2
  ClientBound = 4
  RequestBound = 1
  NewsBound = 1
  Sender = {t1, t2}
  MEDIAITEMS_IN_CHUNK = 2
  Index = 2
  Pos = 3
  Direct = 1
  Str <- MCStr
  Item <- MCSong
  Short = {1, 8}
  CutBound = 1
  ConnectMaxRetry = 2
  KeyBound = 1
  TurnBound = 3
  Call = {"p", "q", "r"}
  KillBound = 1
  ListCount = 2
  ListValues <- MCListValues
  Contexts <- MCContexts
  EditBound = 3
  DumpBound = 2
  Keys <- MCKeys
  Texts <- MCTexts
  LineBound = 3
  Values = {1, 2}
  Strings <- MCStrings
SPECIFICATION PartsSpec
INVARIANTS WireInv StartInv 
PROPERTIES
  ClosesOnlyQuit
  StopsEnd
CHECK_DEADLOCK FALSE
