SPECIFICATION MCSpec
CONSTANTS
  ScopePriorities <- MCPriorities
  StreamFlags = {"error", "file"}
  MaxDepth = 4
  Limit = 8
  Providers = {p1, p2}
  SharedProviders = {s1, s2}
  Heap = {o1, o2}
  Stack = {x}
  NoObject = NoObject
  MaxHeld = 1
  Suites <- MCSuites
  HeaderLibs = {"h"}
  Studies <- MCStudies
  WordsOf <- MCWords
  TitleWidth = 5
  InfoWidth = 4
  Keys = {"a", "b", "unspecified"}
  Unspecified = "unspecified"
  Sizes = {1, 2}
  MaxParts = 3
  Points <- MCPoints
  Searches <- MCSearches
  Prime = 3
  Systems <- MCSystems
  num_blocks = 2
  block_rows = 1
  block_cols = 2
  EntryValues <- MCEntries
  BlockTolerance = 1
  MaxEntry = 1
  N = 2
  FixedKeys = {0, 1, 2}
  FixedValues = {0, 1}
  DefaultKey = 0
  DefaultValue = 0
  MaxList = 3
  NoMap = NoMap
  Standard = {"info"}
  Added = {"added"}
  FlagSets = {{"error"}, {"info", "file"}}
  LogPriorities = {0, 1}
  Names = {"a", "b"}
  MsgLimit = 2
  Careful = TRUE
  PathOrder <- MCPathOrder
  ValuesOf <- MCValuesOf
  Inputs <- MCInputs
  SubIds <- MCSubIds
  DataDir <- MCDataDir
  LogDir <- MCLogDir
  DefaultFile = DefaultFile
  ToleranceUnit = 2
  Digits = {"0", "1", "2"}
CHECK_DEADLOCK FALSE
INVARIANT ScopesInv
INVARIANT EveryLinePrefixed
INVARIANT OwnersInv
INVARIANT TestTimingsInv
INVARIANT StudyInv
INVARIANT ParameterInv
INVARIANT FoundIsRight
INVARIANT SolveInv
INVARIANT FixedMapInv
INVARIANT MergesAreSound
INVARIANT ReadsAreSound
INVARIANT ReportReadsBack
INVARIANT LoggingInv
INVARIANT NoLoss
INVARIANT ComparisonsFit
INVARIANT OrdersAreTotal
INVARIANT TextsReadBack
INVARIANT MatricesFit
INVARIANT SizesFit
INVARIANT LibrariesFit
INVARIANT ListsAreComplete
PROPERTY BisectionEnds
PROPERTY BlocksAreDense
