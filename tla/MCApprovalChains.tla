---------------------------- MODULE MCApprovalChains ----------------------------
(* Two approvals, one of two steps and one of one, signed by an editor and *)
(* an admin; cfg files cannot write these.                                 *)
EXTENDS ApprovalChains, TLC

MCApproval == {"a1", "a2"}

MCChainOf == [a1 |-> <<"editor", "admin">>, a2 |-> <<"admin">>]

CallerSymmetry == Permutations(Caller)

MCHoldersOf == [editor |-> {"bob"}, admin |-> {"ann"}]
===============================================================================
