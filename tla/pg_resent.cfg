SPECIFICATION Spec
CONSTANTS
    MaxRun = 1
    MaxDrop = 2
    MaxCancel = 0
    CancelKinds = {}
    MaxSwitch = 0
    Params = {}
    Windows = {}
    Failures = {}
INVARIANT ResentAtMostOnce
\* The user may ask for nothing more: the connection then rests for ever.
CHECK_DEADLOCK FALSE
