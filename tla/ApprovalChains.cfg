SPECIFICATION Spec
CONSTANTS
    Approval <- MCApproval
    Caller = {c1, c2}
    ChainOf <- MCChainOf
    HoldersOf <- MCHoldersOf
    MaxCrashes = 1
SYMMETRY CallerSymmetry
INVARIANTS
    TypeOK
    AcceptedIsSigned
    ApprovedIsAccepted
    AcceptedIsRecorded
PROPERTIES
    DecisionStands
CHECK_DEADLOCK FALSE
