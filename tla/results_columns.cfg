SPECIFICATION RowsSpec
CONSTANTS
    TableAddresses = {"a1", "a2"}
    NotifyEvery = 2
    MaxSent = 3
    MaxTables = 2
    MaxQueries = 2
INVARIANT ColumnsAlone
CHECK_DEADLOCK FALSE
