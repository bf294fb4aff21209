CONSTANTS
  Item = {a, b, c}
  MaxBatch = 2
  Garbage <- MCGarbage
  MaxHistory = 3
  MaxLen = 3
  CommandBound = 3
  Loader = {"l1", "l2"}
  Audio = {"a", "b", "c"}
  Sheet <- MCSheet
  Damaged = {"s3"}
  TagOf <- MCTagOf
  Untagged = Untagged
  Blank = ""
  Plugin <- MCPlugin
  Dir = {"plugins", "more"}
  Entries <- MCEntries
  Root = "plugins"
  Type <- MCType
  SuffixesOf <- MCSuffixes
  Encodings <- MCEncodings
  Bad = {"oss"}
  NoPlugin = "none"
  File <- MCFile
  Song = {"x", "y", "z"}
  Mp3 = {"x", "y"}
  Field = {"title", "artist"}
  Value = {0, 1}
  Picture = {"c1", "c2"}
  NoPicture = "no picture"
  NoSong = "no song"
  Pictures <- MCPictures
  StepBound = 6
  Target <- MCTarget
  NoObject = "none"
  Address = {1, 2, 3}
  EmitBound = 1
  Track = {"a", "b", "c"}
  Unopenable = {"b"}
  PlayBound = 5
  PlaylistCount = 2
  PipeBound = 1
  ItemBound = 1
  Heights = {5, 8}
  MaxItems = 7
  Order <- MCOrder
  Folder = {".d", "a", "b", "e", "l", "o"}
  Dotted = {".d"}
  Unknown = {"w"}
  Link <- MCLink
  Paths <- MCPaths
  Home <- MCHome
  LevelBound = 4
  ChangeBound = 1
  Char <- MCChar
  TABLE_SIZE = 8
  Sounds <- MCSounds
  MaxLength = 2
  Foreign = {"z"}
  Encoders <- MCEncoders
  Worst = 2
  Rates <- MCRates
  Standard <- MCStandard
SPECIFICATION PartsSpec
INVARIANTS
  ShufflePermutes MovePlaces RowsMatch  HandlersInv 
PROPERTIES CurrentStays HistoryReturns
CHECK_DEADLOCK FALSE
