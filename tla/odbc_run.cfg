SPECIFICATION FairSpec
CONSTANTS
    MaxRuns = 2
    MaxBatches = 2
    MaxEvents = 2
    Windows = {"ending"}
INVARIANT TypeOK OneStatement BusyHasThread CancelsItsStatement ClosedAlone TablesExist
PROPERTY CloseReturns EveryRunFinishes
\* The user may ask for nothing more.
CHECK_DEADLOCK FALSE
