SPECIFICATION Spec
CONSTANTS
    Event = {1, 2, 3}
    Registered = {1, 2}
    Batch = 2
    Keep = 1
    MaxBreaks = 2
    None = None
INVARIANTS
    TypeOK
    ConfirmedBeforeTrimmed
    PassedIsHandled
    NothingSentTwice
    RepeatsNeedDeaths
PROPERTIES CatchesUp
CHECK_DEADLOCK FALSE
