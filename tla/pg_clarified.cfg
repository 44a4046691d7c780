SPECIFICATION Spec
CONSTANTS
    MaxRun = 1
    MaxDrop = 0
    MaxCancel = 0
    CancelKinds = {}
    MaxSwitch = 0
    Params = {}
    Windows = {}
    Failures = {}
INVARIANT TablesClarified
\* The user may ask for nothing more: the connection then rests for ever.
CHECK_DEADLOCK FALSE
