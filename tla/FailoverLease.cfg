SPECIFICATION Spec
CONSTANTS
    Node = {n1, n2}
    None = None
    LEASE_TTL = 12
    Interval = 3
    Delay = 1
    MaxLosses = 1
    MaxTransfers = 1
    MaxCrashes = 1
    MaxStalls = 1
INVARIANTS
    TypeOK
    OneWorks
    RenewalKeepsToItself
    TakeoverInTime
PROPERTIES
    LeaseOutlivesOutage
CHECK_DEADLOCK FALSE
