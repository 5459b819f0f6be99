-------------------------- MODULE MCIdentityWriteBack --------------------------
(* A directory of memberships, with two source groups of one member, and   *)
(* two systems that create objects, with two calls and with one; a policy  *)
(* for all three, and one that has nothing for the last.  cfg files cannot *)
(* write these.                                                            *)
EXTENDS IdentityWriteBack

MCCalls == [ad |-> 2, clearpass |-> 2, ise |-> 1]

MCSourceGroups == {[target |-> "ad", first |-> k, last |-> k] : k \in 1..2}

MCTargetsOf == [staff |-> {"ad", "clearpass", "ise"}, guests |-> {"ad", "clearpass"}]

MCAsked == {<<"ad", "clearpass", "ise">>, <<"ad">>}

\* Commits meet in the directory's memberships only: one of them goes to
\* every system, the other to the directory alone.
OneWideCommit ==
    Cardinality({r \in Run : run[r] # Waiting /\ Len(run[r].asked) > 1}) <= 1

RunSymmetry == Permutations(Run) \cup Permutations(Operator)
===============================================================================
