SPECIFICATION Spec
CONSTANTS
    Targets = 4
    Threshold = 2
    Limit = 2
    Minute = 2
INVARIANTS
    TypeOK
    OneSessionAfterStop
    RateHonoured
    ThresholdHonoured
PROPERTIES
    RunEnds
CHECK_DEADLOCK FALSE
