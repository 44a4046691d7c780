SPECIFICATION Spec
CONSTANTS
    MaxRuns = 2
    MaxBatches = 1
    MaxEvents = 0
    Windows = {"starting", "ending"}
INVARIANT OneStatement
CHECK_DEADLOCK FALSE
