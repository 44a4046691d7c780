SPECIFICATION Spec
CONSTANTS
    MaxRun = 1
    MaxDrop = 1
    MaxCancel = 2
    CancelKinds = {"request", "close"}
    MaxSwitch = 1
    Params = {}
    Windows = {}
    Failures = {"send", "read"}
INVARIANT OpenedHasHandle FinishedAfterEnd
\* The user may ask for nothing more: the connection then rests for ever.
CHECK_DEADLOCK FALSE
