------------------------- MODULE MCExecutionWorkflow -------------------------
(***************************************************************************)
(* The instance of ExecutionWorkflow that TLC checks: two super admins and *)
(* a security admin, all of whom may author, and commands the guardrails   *)
(* rate low, rate critical, or block.  The security admin may not approve  *)
(* the critical ones, so a critical job by a super admin never gets its    *)
(* second approval and one by the security admin needs both others.        *)
(***************************************************************************)
EXTENDS ExecutionWorkflow

MCUser == {"ann", "bob", "eve"}

MCRoleOf == [ann |-> "super_admin", bob |-> "security_admin", eve |-> "super_admin"]

MCVerdict ==
    [low |-> [risk |-> "low", blocked |-> FALSE],
     critical |-> [risk |-> "critical", blocked |-> FALSE],
     blocked |-> [risk |-> "critical", blocked |-> TRUE]]
==============================================================================
