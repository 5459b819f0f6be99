--------------------------- MODULE IdentityWriteBack ---------------------------
(***************************************************************************)
(* Applying a policy to several identity systems: identity/transactional.py*)
(* over the adapters' apply_policy, commit and rollback, behind the        *)
(* confirm tokens of identity/confirm_token.py and the endpoints of        *)
(* server/identity_api.py.                                                 *)
(*                                                                         *)
(* A dry run shows what would change and mints a token for the policy, the *)
(* set of systems and the operator; a commit has to present one that is    *)
(* not older than TTL.  It then goes from system to system, a call at a    *)
(* time, and on a failure takes back what it has the ids of.  Calls fail,  *)
(* or do their work and lose the reply; commits of several operators       *)
(* interleave, and the server may die in the middle.                       *)
(*                                                                         *)
(* What a policy asks of a system is the calls 1..Calls[t] (ClearPass a    *)
(* profile and a policy, AD one per principal).  Creating an object twice  *)
(* makes two; a membership (AD) is there or not, and adding it again is    *)
(* refused.  The calls of a lenient system (AD), and every call but the    *)
(* first of the others, fail with a warning only.                          *)
(*                                                                         *)
(* AD learns its principals while it commits: those of a source group are  *)
(* calls first..last, which are only made if the group can be read, and    *)
(* are otherwise left out without a word.  Groups have members, share none *)
(* and keep them during a commit.  Diffs, the warnings' texts, credentials,*)
(* advice that changes nothing and Okta's activation of a created rule are *)
(* left out.                                                               *)
(***************************************************************************)
EXTENDS Integers, FiniteSets, Sequences, SequencesExt

CONSTANTS
    Run,            \* commit requests
    Operator,
    Policy,
    Calls,          \* how many calls a policy asks of a system
    SourceGroups,   \* the calls that are known once a group is read
    Lenient,        \* systems whose first call also fails with a warning only
    Memberships,    \* systems that keep memberships
    TargetsOf,      \* the systems a policy has operations for
    Asked,          \* the sequences of systems that requests name
    TTL,            \* DEFAULT_TTL_SECONDS
    MaxTime,        \* bound on the clock
    MaxPreviews     \* bound on the policies, operators and times of dry runs

Target == DOMAIN Calls

OnFailure == {"rollback", "continue", "abort"}

ASSUME WriteBackAssumption ==
    /\ \A t \in Target : Calls[t] \in Nat \ {0}
    /\ Lenient \cup Memberships \subseteq Target
    /\ \A g \in SourceGroups :
        /\ g.target \in Lenient /\ {g.first, g.last} \subseteq Nat
        /\ 1 <= g.first /\ g.first <= g.last /\ g.last <= Calls[g.target]
    /\ \A p \in Policy : TargetsOf[p] \subseteq Target
    /\ \A s \in Asked : s \in Seq(Target) \ {<<>>} /\ IsInjective(s)
    /\ {TTL, MaxTime, MaxPreviews} \subseteq Nat

VARIABLES
    now,
    tokens,         \* confirm tokens in the operators' hands
    previews,       \* the dry runs there were
    run,            \* the commits
    changes,        \* what is changed at the systems
    lost,           \* commits that lost the reply of a call that worked
    unread          \* commits' groups whose members could not be read

vars == <<now, tokens, previews, run, changes, lost, unread>>

Token == [ir : Policy, scope : SUBSET Target, actor : Operator, issued_at : 0..MaxTime]

Change == [target : Target, ir : Policy, call : Nat, by : Run]

Waiting == [state |-> "waiting"]

Commit ==
    [state : {"applying", "undoing", "done", "dead"},
     ir : Policy, actor : Operator, asked : Asked, on_failure : OnFailure,
     began : 0..MaxTime,
     left : Seq(Target),              \* systems still to go to
     call : Nat \ {0},                \* the next call at the first of them
     committed_ids : SUBSET Change,
     met : SUBSET {"warning", "error"},   \* what became of calls that failed
     undo : SUBSET Change,            \* ids still to roll back
     rolled_back : SUBSET Change,     \* ids with a receipt
     status : {"none", "all_committed", "partial", "rolled_back"}]

TypeOK ==
    /\ now \in 0..MaxTime
    /\ tokens \subseteq Token /\ previews \subseteq Token
    /\ run \in [Run -> Commit \cup {Waiting}]
    /\ changes \subseteq Change
    /\ \A c \in changes : c.call \in 1..Calls[c.target]
    /\ lost \subseteq Run
    /\ unread \subseteq [by : Run, group : SourceGroups]
    /\ \A r \in Run : run[r].state = "undoing" => run[r].on_failure = "rollback"

Init ==
    /\ now = 0
    /\ tokens = {} /\ previews = {}
    /\ run = [r \in Run |-> Waiting]
    /\ changes = {}
    /\ lost = {} /\ unread = {}

Tick ==
    /\ now < MaxTime
    /\ now' = now + 1
    /\ UNCHANGED <<tokens, previews, run, changes, lost, unread>>

(***************************************************************************)
(* Tokens.                                                                 *)
(***************************************************************************)
mint(p, scope, actor) ==
    [ir |-> p, scope |-> scope, actor |-> actor, issued_at |-> now]

\* Defect: the scope is not compared.
VerifyAnyScope(token, p, scope, actor) ==
    /\ token.ir = p /\ token.actor = actor
    /\ now <= token.issued_at + TTL

verify(token, p, scope, actor) ==
    /\ token.ir = p /\ token.scope = scope /\ token.actor = actor
    /\ now <= token.issued_at + TTL

(* A dry run: every system it gets to answers with a token of its own, and *)
(* the whole with one for the set, also when a system had no operation.    *)
Shown(p, asked, on_failure) ==
    {asked[i] : i \in {i \in DOMAIN asked :
        IF on_failure = "abort"
        THEN \A j \in 1..i : asked[j] \in TargetsOf[p]
        ELSE asked[i] \in TargetsOf[p]}}

Occasions(shown) == {<<v.ir, v.actor, v.issued_at>> : v \in shown}

Preview(p, asked, on_failure, actor) ==
    LET scopes == {{t} : t \in Shown(p, asked, on_failure)} \cup {ToSet(asked)}
        minted == {mint(p, s, actor) : s \in scopes} IN
    /\ Cardinality(Occasions(previews \cup minted)) <= MaxPreviews
    /\ tokens' = tokens \cup minted
    /\ previews' = previews \cup minted
    /\ UNCHANGED <<now, run, changes, lost, unread>>

(***************************************************************************)
(* A commit.  One system is the same as a set of one.                      *)
(***************************************************************************)
Begin(r, p, asked, on_failure, actor) ==
    /\ run[r] = Waiting
    /\ \E token \in tokens : verify(token, p, ToSet(asked), actor)
    /\ run' = [run EXCEPT ![r] =
                  [state |-> "applying", ir |-> p, actor |-> actor,
                   asked |-> asked, on_failure |-> on_failure, began |-> now,
                   left |-> asked, call |-> 1,
                   committed_ids |-> {}, met |-> {},
                   undo |-> {}, rolled_back |-> {}, status |-> "none"]]
    /\ UNCHANGED <<now, tokens, previews, changes, lost, unread>>

Finished(x, status) == [x EXCEPT !.state = "done", !.status = status]

\* The loop goes on to the next system, or ends.
NextTarget(x) ==
    LET y == [x EXCEPT !.left = Tail(x.left), !.call = 1] IN
    IF y.left # <<>> THEN y
    ELSE Finished(y, IF "error" \in y.met THEN "partial" ELSE "all_committed")

\* Defect: nothing is said.
Unnoted(x) == x

\* A system is done with: AD warns when not one of its calls gave an id.
\* (The others have one by then; where a call failed the warning is there.)
Noted(x) ==
    IF \E c \in x.committed_ids : c.target = Head(x.left) THEN x
    ELSE [x EXCEPT !.met = @ \cup {"warning"}]

\* The calls up to k of a system are dealt with.
PastCall(x, k) ==
    IF k < Calls[Head(x.left)] THEN [x EXCEPT !.call = k + 1]
    ELSE NextTarget(Noted(x))

\* Defect: a call too many.
OneCallMore(x) ==
    IF x.call <= Calls[Head(x.left)] THEN [x EXCEPT !.call = x.call + 1]
    ELSE NextTarget(x)

NextCall(x) == PastCall(x, x.call)

(* What is rolled back: the ids of the systems that gave no error.  An     *)
(* error comes at the first call, so the failing system has none.          *)
Undone(x) ==
    IF x.committed_ids = {} THEN Finished(x, "rolled_back")
    ELSE [x EXCEPT !.state = "undoing", !.undo = x.committed_ids]

\* A system answers with an error.
Failing(x) ==
    LET y == [x EXCEPT !.met = @ \cup {"error"}] IN
    CASE x.on_failure = "rollback" -> Undone(y)
      [] x.on_failure = "abort" -> Finished(y, "partial")
      [] x.on_failure = "continue" -> NextTarget(y)

\* A call that gave an id, and one that gave none: an error, or a warning and
\* the next call.
Recorded(x, c) ==
    NextCall([x EXCEPT !.committed_ids = @ \cup {c}])

Unanswered(x) ==
    IF x.call = 1 /\ Head(x.left) \notin Lenient THEN Failing(x)
    ELSE NextCall([x EXCEPT !.met = @ \cup {"warning"}])

\* A commit has come to a system, and the policy has something for it.
Calling(r) ==
    /\ run[r].state = "applying"
    /\ Head(run[r].left) \in TargetsOf[run[r].ir]

TheChange(r) ==
    [target |-> Head(run[r].left), ir |-> run[r].ir, call |-> run[r].call, by |-> r]

Same(c, d) == c.target = d.target /\ c.ir = d.ir /\ c.call = d.call

Present(c) == c.target \in Memberships /\ \E d \in changes : Same(c, d)

\* The policy has nothing for the system.
NoOperation(r) ==
    /\ run[r].state = "applying"
    /\ Head(run[r].left) \notin TargetsOf[run[r].ir]
    /\ run' = [run EXCEPT ![r] = Failing(@)]
    /\ UNCHANGED <<now, tokens, previews, changes, lost, unread>>

\* Defect: a membership that is there already counts as added.
AnsweredAnyway(r) ==
    /\ Calling(r)
    /\ changes' = changes \cup {TheChange(r)}
    /\ run' = [run EXCEPT ![r] = Recorded(@, TheChange(r))]
    /\ UNCHANGED <<now, tokens, previews, lost, unread>>

\* The system does the call, and the id arrives.
Answered(r) ==
    /\ Calling(r) /\ ~ Present(TheChange(r))
    /\ changes' = changes \cup {TheChange(r)}
    /\ run' = [run EXCEPT ![r] = Recorded(@, TheChange(r))]
    /\ UNCHANGED <<now, tokens, previews, lost, unread>>

\* It refuses the call, or cannot be reached.
CallFails(r) ==
    /\ Calling(r)
    /\ run' = [run EXCEPT ![r] = Unanswered(@)]
    /\ UNCHANGED <<now, tokens, previews, changes, lost, unread>>

\* AD comes to a group and cannot read it: no member of it is added, and
\* nothing is recorded.
MembersUnread(r) ==
    /\ Calling(r)
    /\ \E g \in SourceGroups :
        /\ g.target = Head(run[r].left) /\ g.first = run[r].call
        /\ run' = [run EXCEPT ![r] = PastCall(@, g.last)]
        /\ unread' = unread \cup {[by |-> r, group |-> g]}
    /\ UNCHANGED <<now, tokens, previews, changes, lost>>

\* It does the call, and the reply is lost.
ReplyLost(r) ==
    /\ Calling(r) /\ ~ Present(TheChange(r))
    /\ changes' = changes \cup {TheChange(r)}
    /\ run' = [run EXCEPT ![r] = Unanswered(@)]
    /\ lost' = lost \cup {r}
    /\ UNCHANGED <<now, tokens, previews, unread>>

(***************************************************************************)
(* The rollback takes the systems in reverse, and every id of a system     *)
(* whatever became of the others.  Within a system the order is left open. *)
(***************************************************************************)
LaterTarget(x, s, t) ==
    \E i, j \in DOMAIN x.asked : i < j /\ x.asked[i] = t /\ x.asked[j] = s

UndoNext(x) ==
    {c \in x.undo : \A d \in x.undo : ~ LaterTarget(x, d.target, c.target)}

\* One id is dealt with.
Settled(x, c) ==
    LET y == [x EXCEPT !.undo = @ \ {c}] IN
    IF y.undo = {} THEN Finished(y, "rolled_back") ELSE y

\* A membership is deleted by its name, an object by its id.
Entry(c) ==
    IF c.target \in Memberships THEN {d \in changes : Same(c, d)} ELSE {c}

RolledBack(r) ==
    /\ run[r].state = "undoing"
    /\ \E c \in UndoNext(run[r]) :
        /\ changes' = changes \ Entry(c)
        /\ run' = [run EXCEPT ![r] =
                      Settled([run[r] EXCEPT !.rolled_back = @ \cup {c}], c)]
    /\ UNCHANGED <<now, tokens, previews, lost, unread>>

\* The deletion fails, or is done and its reply lost: an error in the report.
RollbackFails(r) ==
    /\ run[r].state = "undoing"
    /\ \E c \in UndoNext(run[r]) :
        /\ run' = [run EXCEPT ![r] = Settled(@, c)]
        /\ \/ UNCHANGED <<changes, lost>>
           \/ changes' = changes \ Entry(c) /\ lost' = lost \cup {r}
    /\ UNCHANGED <<now, tokens, previews, unread>>

\* The server dies: nothing of a commit is kept.
Crash(r) ==
    /\ run[r].state \in {"applying", "undoing"}
    /\ run' = [run EXCEPT ![r] =
                  [run[r] EXCEPT !.state = "dead", !.left = <<>>, !.call = 1,
                                 !.committed_ids = {}, !.rolled_back = {}, !.undo = {},
                                 !.met = {}]]
    /\ UNCHANGED <<now, tokens, previews, changes, lost, unread>>

Next ==
    \/ Tick
    \/ \E p \in Policy, asked \in Asked, on_failure \in OnFailure, o \in Operator :
        \/ Preview(p, asked, on_failure, o)
        \/ \E r \in Run : Begin(r, p, asked, on_failure, o)
    \/ \E r \in Run :
        \/ NoOperation(r)
        \/ Answered(r)
        \/ CallFails(r)
        \/ MembersUnread(r)
        \/ ReplyLost(r)
        \/ RolledBack(r)
        \/ RollbackFails(r)
        \/ Crash(r)

Spec == Init /\ [][Next]_vars
-----------------------------------------------------------------------------
By(r) == {c \in changes : c.by = r}

(* No system is changed without a dry run by the same operator, for the    *)
(* same policy and exactly the systems of the request, that was at most    *)
(* TTL old when the request came (CHANGELOG.md:5732): the token is looked  *)
(* at once, and the calls it admits come later, between those of others.   *)
ReviewedBeforeChange ==
    \A c \in changes : \E v \in previews :
        LET x == run[c.by] IN
        /\ v.ir = c.ir /\ v.actor = x.actor
        /\ v.scope = ToSet(x.asked) /\ c.target \in v.scope
        /\ x.began \in v.issued_at .. v.issued_at + TTL

Did(r, t, k) == \E c \in By(r) : c.target = t /\ c.call = k

LeftOut(r, t, k) ==
    \E u \in unread :
        u.by = r /\ u.group.target = t /\ k \in u.group.first .. u.group.last

CleanRollback(r) ==
    /\ r \notin lost /\ run[r].state = "done"
    /\ run[r].status = "rolled_back" /\ run[r].rolled_back = run[r].committed_ids

CleanSuccess(r) ==
    /\ r \notin lost /\ run[r].state = "done"
    /\ run[r].status = "all_committed" /\ run[r].met = {}

(* The two answers an operator builds on, as far as no reply was lost: a   *)
(* commit that was rolled back with a receipt for every id left nothing    *)
(* behind, and one that reports all systems committed, without a warning,  *)
(* changed every system, and left no call out but those for the members of *)
(* a group it could not read.                                              *)
AllOrNothing ==
    \A r \in Run :
        /\ CleanRollback(r) => By(r) = {}
        /\ CleanSuccess(r) => \A t \in ToSet(run[r].asked) :
              /\ \E c \in By(r) : c.target = t
              /\ \A k \in 1..Calls[t] : Did(r, t, k) \/ LeftOut(r, t, k)

(* A commit that reports all systems committed, without a warning, did all *)
(* that was asked (IDENTITY-INTEGRATION.md:142-145, the members of each    *)
(* group).  The code does not keep this: a group that cannot be read is    *)
(* passed over in silence when the commit got anything else done at AD.    *)
CleanSuccessIsComplete ==
    \A r \in Run : CleanSuccess(r) =>
        \A t \in ToSet(run[r].asked) : \A k \in 1..Calls[t] : Did(r, t, k)

(* What a commit reports is what there is, also after other commits of the *)
(* same policy rolled back: the ids it has less those it took back are its *)
(* changes, unless a reply was lost.                                       *)
ReportIsTrue ==
    \A r \in Run \ lost : run[r].state = "done" =>
        By(r) = run[r].committed_ids \ run[r].rolled_back
=============================================================================
