SPECIFICATION DeskSpec
CONSTANTS
    Indent = 2
    TabsIndent = FALSE
    Texts <- MCTexts
    Typed = {"b"}
    Pasted <- MCPasted
    MaxEdits = 2
    MaxMoves = 2
    MaxCursors = 2
    Strings = {"s", "t"}
    Databases <- MCDatabases
    Folders = {"p"}
    MaxServers = 2
    MaxKeys = 3
    MaxLaunches = 2
    MaxTurns = 8
    Editors = {1, 2}
    Addresses = {1, 2, 3}
    MaxLines = 3
    MaxEditsOfDocs = 4
    PgServers = {"pg"}
    OdbcServers = {"odbc"}
    OwnInUserDir = {"odbc"}
    ServerVersion = 10
    Directives <- MCDirectives
    MaxDirectives = 5
    MaxCacheCalls = 4
    Files = {"f"}
    MaxTabs = 2
    MaxTabActs = 6
    TableAddresses = {"a1", "a2"}
    NotifyEvery = 2
    MaxSent = 3
    MaxTables = 2
    MaxQueries = 2
    Wholes <- MCWhole
    Fractions <- MCFractions
    Exponents <- MCExponents
    MaxDigits = 4
    MaxCells = 3
    Scripts <- MCScripts
    StatementSplit = TRUE
INVARIANTS DeskTypeOK InStep ListKept DatabasesOfTheirServer RootsOwned BookmarksAlive BundlesWhole RowsShownOnce SumExact StatementChosen ListFound SplitKeeps
PROPERTIES UndoRestores CursorsApart TabsGoByConsent SplitLosesNothing
CHECK_DEADLOCK FALSE
