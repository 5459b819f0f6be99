SPECIFICATION Spec
CONSTANTS
    Event = {1, 2}
    Registered = {1, 2}
    Batch = 2
    Keep = 1
    MaxBreaks = 1
    None = None
INVARIANT
    RaisedIsRetried
CHECK_DEADLOCK FALSE
