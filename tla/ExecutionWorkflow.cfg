SPECIFICATION Spec
CONSTANTS
    User <- MCUser
    Worker = {w1, w2}
    Commands = {"low", "critical", "blocked"}
    RoleOf <- MCRoleOf
    MayApprove = {"ann", "bob", "eve"}
    MayExecute = {"ann"}
    Verdict <- MCVerdict
    Nobody = Nobody
    NoJob = NoJob
    NoCommands = NoCommands
INVARIANTS
    TypeOK
    QuorumBehindStatus
    PlanMatchesCommands
PROPERTIES
    ClosedForGood
    ImplementsTwoPersonRule
CHECK_DEADLOCK FALSE
