SPECIFICATION Spec
CONSTANTS
    Run = {r1}
    Operator = {ann}
    Policy = {"staff"}
    Calls <- MCCalls
    SourceGroups <- MCSourceGroups
    Lenient = {"ad"}
    Memberships = {"ad"}
    TargetsOf <- MCTargetsOf
    Asked <- MCAsked
    TTL = 0
    MaxTime = 0
    MaxPreviews = 1
INVARIANTS
    CleanSuccessIsComplete
CHECK_DEADLOCK FALSE
