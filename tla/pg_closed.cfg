SPECIFICATION Spec
CONSTANTS
    MaxRun = 1
    MaxDrop = 1
    MaxCancel = 1
    CancelKinds = {"close"}
    MaxSwitch = 0
    Params = {}
    Windows = {}
    Failures = {}
PROPERTY NeverSentAfterTheEnd
\* The user may ask for nothing more: the connection then rests for ever.
CHECK_DEADLOCK FALSE
