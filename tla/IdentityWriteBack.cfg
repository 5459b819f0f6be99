SPECIFICATION Spec
CONSTANTS
    Run = {r1, r2}
    Operator = {ann, bob}
    Policy = {"staff", "guests"}
    Calls <- MCCalls
    SourceGroups <- MCSourceGroups
    Lenient = {"ad"}
    Memberships = {"ad"}
    TargetsOf <- MCTargetsOf
    Asked <- MCAsked
    TTL = 0
    MaxTime = 1
    MaxPreviews = 1
CONSTRAINT OneWideCommit
SYMMETRY RunSymmetry
INVARIANTS
    TypeOK
    ReviewedBeforeChange
    AllOrNothing
    ReportIsTrue
CHECK_DEADLOCK FALSE
