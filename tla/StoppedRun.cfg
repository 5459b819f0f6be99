SPECIFICATION Spec
CONSTANTS
    Targets = 2
    Threshold = 2
    Limit = 1
    Minute = 2
INVARIANT
    StoppedRunIsNotDone
CHECK_DEADLOCK FALSE
