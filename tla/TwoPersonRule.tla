---------------------------- MODULE TwoPersonRule ----------------------------
(***************************************************************************)
(* What the execution engine promises about consent, with no job file, no  *)
(* handlers and no races: a set of commands is sent to devices only after  *)
(* enough qualified people other than the job's author have consented to   *)
(* exactly those commands.  It abstracts the promise of                    *)
(* execution/workflow.py and execution/rbac.py ("two-person rule for the   *)
(* dangerous stuff"); ExecutionWorkflow is shown to implement it.          *)
(***************************************************************************)
EXTENDS Integers, FiniteSets

CONSTANTS
    User,        \* people who can author or approve
    Commands,    \* sets of commands a job can carry
    Nobody,      \* the author before a job exists
    Needed,      \* Needed[c]: how many consents the commands require
    Qualified,   \* Qualified[c]: the users whose consent counts for c
    Forbidden    \* commands the guardrails refuse outright

VARIABLES
    author,      \* who wrote the job
    consents,    \* the pairs <<u, c>>: user u consented to commands c
    executed     \* the commands that reached a device

contractVars == <<author, consents, executed>>

ContractInit ==
    /\ author = Nobody
    /\ consents = {}
    /\ executed = {}

Write(u) ==
    /\ author = Nobody
    /\ author' = u
    /\ UNCHANGED <<consents, executed>>

Consent(u, c) ==
    /\ author # Nobody
    /\ u # author
    /\ u \in Qualified[c]
    /\ consents' = consents \cup {<<u, c>>}
    /\ UNCHANGED <<author, executed>>

Execute(c) ==
    /\ author # Nobody
    /\ c \notin Forbidden
    /\ Cardinality({u \in User : <<u, c>> \in consents}) >= Needed[c]
    /\ executed' = executed \cup {c}
    /\ UNCHANGED <<author, consents>>

ContractNext ==
    \/ \E u \in User : Write(u)
    \/ \E u \in User, c \in Commands : Consent(u, c)
    \/ \E c \in Commands : Execute(c)

Contract == ContractInit /\ [][ContractNext]_contractVars
==============================================================================
