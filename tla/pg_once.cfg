SPECIFICATION Spec
CONSTANTS
    MaxRun = 2
    MaxDrop = 2
    MaxCancel = 1
    CancelKinds = {"request"}
    MaxSwitch = 0
    Params = {2}
    Windows = {"ending"}
    Failures = {}
INVARIANT IInv AtMostOnce OneDriver VerdictTrue
\* The user may ask for nothing more: the connection then rests for ever.
CHECK_DEADLOCK FALSE
