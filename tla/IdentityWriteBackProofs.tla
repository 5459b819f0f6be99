------------------------ MODULE IdentityWriteBackProofs ------------------------
(***************************************************************************)
(* Theorems about IdentityWriteBack, for every set of systems, calls,      *)
(* policies and operators, every time to live and any number of commits:   *)
(* the types; that nothing is changed without a dry run of the operator    *)
(* for it; that what a commit reports is what there is; that a commit that *)
(* reports success changed every system and left out no call but those of  *)
(* groups it could not read, and that one taken back in full left nothing. *)
(***************************************************************************)
EXTENDS IdentityWriteBack, SequenceTheorems, TLAPS

Begun(r) == run[r].state # "waiting"

ReviewOf(x, v) ==
    /\ v.ir = x.ir /\ v.actor = x.actor /\ v.scope = ToSet(x.asked)
    /\ x.began \in v.issued_at .. v.issued_at + TTL

\* Every token was shown, every commit had one, and every change is of a
\* commit and for its policy and systems.
Reviewed ==
    /\ tokens \subseteq previews /\ \A v \in previews : v.issued_at <= now
    /\ \A r \in Run : Begun(r) => \E v \in previews : ReviewOf(run[r], v)
    /\ \A c \in changes :
          /\ Begun(c.by) /\ c.ir = run[c.by].ir
          /\ c.target \in ToSet(run[c.by].asked)

\* Where a commit is.
Under(x) ==
    /\ x.state = "applying" =>
          /\ x.left # <<>> /\ ToSet(x.left) \subseteq ToSet(x.asked)
          /\ x.call <= Calls[Head(x.left)]
          /\ x.undo = {} /\ x.rolled_back = {}
    /\ x.state = "undoing" =>
          /\ x.undo # {} /\ x.undo \subseteq x.committed_ids \ x.rolled_back

Progress == \A r \in Run : Begun(r) => Under(run[r])

\* What a commit has still to roll back is there, and its own; a membership
\* is there once.
Kept ==
    /\ \A r \in Run :
          /\ run[r].state = "applying" => run[r].committed_ids \subseteq By(r)
          /\ run[r].state = "undoing" => run[r].undo \subseteq By(r)
    /\ \A c, d \in changes : c.target \in Memberships /\ Same(c, d) => c = d

\* Unless a reply was lost, the ids of a commit are its changes.
Told ==
    \A r \in Run \ lost :
        run[r].state \in {"applying", "undoing", "done"} =>
            By(r) = run[r].committed_ids \ run[r].rolled_back

Unread(r) == {v \in unread : v.by = r}

HasId(x, t) == \E c \in x.committed_ids : c.target = t

\* The first n calls to a system gave an id, or are for the members of one of
\* the groups u.
HasCalls(x, u, t, n) ==
    \A k \in 1..n :
        \/ \E c \in x.committed_ids : c.target = t /\ c.call = k
        \/ \E v \in u : v.group.target = t /\ k \in v.group.first .. v.group.last

\* A commit that met no failure has an id from every system behind it, and has
\* left out no call there but for the members of groups it could not read.
Complete(x, u) ==
    /\ x.state = "applying" /\ x.met = {} =>
          /\ \A t \in ToSet(x.asked) \ ToSet(x.left) : HasCalls(x, u, t, Calls[t]) /\ HasId(x, t)
          /\ HasCalls(x, u, Head(x.left), x.call - 1)
    /\ x.state = "done" /\ x.status = "all_committed" =>
          /\ x.rolled_back = {}
          /\ x.met = {} => \A t \in ToSet(x.asked) : HasCalls(x, u, t, Calls[t]) /\ HasId(x, t)

Done == \A r \in Run : Begun(r) => Complete(run[r], Unread(r))

WriteBackInv == TypeOK /\ Reviewed /\ Progress /\ Kept /\ Told /\ Done

-------------------------------------------------------------------------------
(* The steps of a commit. *)

LEMMA CallCounts ==
    /\ \A t \in Target : Calls[t] \in Nat \ {0}
    /\ \A s \in Seq(Target) : s # <<>> =>
          /\ Head(s) \in Target /\ Tail(s) \in Seq(Target)
          /\ Head(s) \in ToSet(s) /\ ToSet(Tail(s)) \subseteq ToSet(s)
          /\ ToSet(s) = {Head(s)} \cup ToSet(Tail(s))
<1>1. \A t \in Target : Calls[t] \in Nat \ {0}
  BY WriteBackAssumption
<1>2. ASSUME NEW s \in Seq(Target), s # <<>>
      PROVE  /\ Head(s) \in Target /\ Tail(s) \in Seq(Target)
             /\ Head(s) \in ToSet(s) /\ ToSet(Tail(s)) \subseteq ToSet(s)
             /\ ToSet(s) = {Head(s)} \cup ToSet(Tail(s))
  <2>1. /\ Head(s) = s[1] /\ Len(s) \in Nat \ {0} /\ DOMAIN s = 1..Len(s)
        /\ Tail(s) \in Seq(Target) /\ Len(Tail(s)) = Len(s) - 1
        /\ \A i \in 1..Len(Tail(s)) : Tail(s)[i] = s[i + 1]
    BY <1>2, HeadTailProperties, EmptySeq
  <2>2. DOMAIN Tail(s) = 1..Len(Tail(s))
    BY <2>1
  <2>3. s[1] \in Target /\ s[1] \in ToSet(s)
    BY <2>1 DEF ToSet
  <2>4. ASSUME NEW t \in ToSet(Tail(s))
        PROVE  t \in ToSet(s)
    <3>1. PICK i \in 1..Len(Tail(s)) : t = Tail(s)[i]
      BY <2>2 DEF ToSet
    <3>2. i + 1 \in DOMAIN s /\ t = s[i + 1]
      BY <2>1, <3>1
    <3> QED
      BY <3>2 DEF ToSet
  <2>5. ASSUME NEW t \in ToSet(s), t # Head(s)
        PROVE  t \in ToSet(Tail(s))
    <3>1. PICK i \in 1..Len(s) : t = s[i]
      BY <2>1 DEF ToSet
    <3>2. i - 1 \in 1..Len(Tail(s)) /\ Tail(s)[i - 1] = t
      BY <2>1, <2>5, <3>1
    <3> QED
      BY <2>2, <3>2 DEF ToSet
  <2> QED
    BY <2>1, <2>3, <2>4, <2>5
<1> QED
  BY <1>1, <1>2

\* A commit with some of its fields changed is one.
LEMMA NewLeft ==
    ASSUME NEW x \in Commit, NEW l \in Seq(Target), NEW k \in Nat \ {0}
    PROVE  [x EXCEPT !.left = l, !.call = k] \in Commit
BY Zenon DEF Commit

LEMMA NewCount ==
    ASSUME NEW x \in Commit, NEW k \in Nat \ {0}
    PROVE  [x EXCEPT !.call = k] \in Commit
BY Zenon DEF Commit

LEMMA NewStatus ==
    ASSUME NEW x \in Commit, NEW s \in {"none", "all_committed", "partial", "rolled_back"}
    PROVE  [x EXCEPT !.state = "done", !.status = s] \in Commit
BY Zenon DEF Commit

LEMMA NewState ==
    ASSUME NEW x \in Commit, NEW ids \in SUBSET Change
    PROVE  [x EXCEPT !.state = "undoing", !.undo = ids] \in Commit
BY Zenon DEF Commit

LEMMA NewMet ==
    ASSUME NEW x \in Commit, NEW m \in SUBSET {"warning", "error"}
    PROVE  [x EXCEPT !.met = m] \in Commit
BY Zenon DEF Commit

LEMMA NewIds ==
    ASSUME NEW x \in Commit, NEW ids \in SUBSET Change
    PROVE  [x EXCEPT !.committed_ids = ids] \in Commit
BY Zenon DEF Commit

LEMMA NewUndo ==
    ASSUME NEW x \in Commit, NEW ids \in SUBSET Change
    PROVE  [x EXCEPT !.undo = ids] \in Commit
BY Zenon DEF Commit

LEMMA NewRolledBack ==
    ASSUME NEW x \in Commit, NEW ids \in SUBSET Change
    PROVE  [x EXCEPT !.rolled_back = ids] \in Commit
BY Zenon DEF Commit

\* Its fields have their types.
LEMMA Fields ==
    ASSUME NEW x \in Commit
    PROVE  /\ x.state \in {"applying", "undoing", "done", "dead"}
           /\ x.ir \in Policy /\ x.actor \in Operator /\ x.asked \in Asked
           /\ x.on_failure \in OnFailure /\ x.began \in 0..MaxTime
           /\ x.left \in Seq(Target) /\ x.call \in Nat \ {0}
           /\ x.committed_ids \in SUBSET Change /\ x.met \in SUBSET {"warning", "error"}
           /\ x.undo \in SUBSET Change /\ x.rolled_back \in SUBSET Change
           /\ x.status \in {"none", "all_committed", "partial", "rolled_back"}
BY Zenon DEF Commit

Request(x, y) ==
    /\ y.ir = x.ir /\ y.actor = x.actor /\ y.asked = x.asked /\ y.began = x.began
    /\ y.on_failure = x.on_failure

\* Where a commit is after a call that gave no id.
Unlucky(x, y) ==
    /\ y \in Commit /\ Request(x, y)
    /\ y.committed_ids = x.committed_ids /\ y.rolled_back = {} /\ y.met # {}
    /\ y.state \in {"applying", "undoing", "done"}
    /\ y.state = "applying" =>
          /\ y.left # <<>> /\ ToSet(y.left) \subseteq ToSet(x.left)
          /\ y.call <= Calls[Head(y.left)] /\ y.undo = {}
    /\ y.state = "undoing" =>
          y.on_failure = "rollback" /\ y.undo = y.committed_ids /\ y.undo # {}

\* A commit at a system, and well.
Going(x) ==
    /\ x \in Commit /\ x.state = "applying" /\ x.left # <<>>
    /\ x.call <= Calls[Head(x.left)] /\ x.undo = {} /\ x.rolled_back = {}

\* Where it is when it has left that system.
GoneOn(x, y) ==
    /\ y \in Commit /\ Request(x, y) /\ y.committed_ids = x.committed_ids
    /\ y.undo = {} /\ y.rolled_back = {} /\ y.met = x.met
    /\ \/ /\ y.state = "applying" /\ y.left = Tail(x.left) /\ y.left # <<>>
          /\ ToSet(y.left) \subseteq ToSet(x.left)
          /\ y.call = 1 /\ y.call <= Calls[Head(y.left)]
       \/ y.state = "done" /\ Tail(x.left) = <<>>

LEMMA NextTargetOf ==
    ASSUME NEW x, Going(x)
    PROVE  GoneOn(x, NextTarget(x))
<1> DEFINE y == [x EXCEPT !.left = Tail(x.left), !.call = 1]
           status == IF "error" \in y.met THEN "partial" ELSE "all_committed"
<1>1. /\ x \in Commit /\ Tail(x.left) \in Seq(Target) /\ 1 \in Nat \ {0}
      /\ ToSet(Tail(x.left)) \subseteq ToSet(x.left)
  BY CallCounts, Fields DEF Going
<1>2. y \in Commit
  BY <1>1, NewLeft
<1>3. /\ Request(x, y) /\ y.committed_ids = x.committed_ids /\ y.rolled_back = {}
      /\ y.met = x.met /\ y.state = "applying" /\ y.left = Tail(x.left) /\ y.call = 1
      /\ y.undo = {}
  BY <1>1 DEF Going, Commit, Request
<1>4. status \in {"none", "all_committed", "partial", "rolled_back"}
  OBVIOUS
<1>5. NextTarget(x) = IF y.left # <<>> THEN y
                      ELSE [y EXCEPT !.state = "done", !.status = status]
  BY DEF NextTarget, Finished
<1> HIDE DEF y, status
<1>6. CASE y.left # <<>>
  <2>1. y.call <= Calls[Head(y.left)]
    <3>1. Head(y.left) \in Target
      BY <1>1, <1>3, <1>6, CallCounts
    <3> QED
      <4>1. Calls[Head(y.left)] \in Nat \ {0}
        BY <3>1, CallCounts
      <4>2. \A n \in Nat \ {0} : 1 <= n
        OBVIOUS
      <4>3. 1 <= Calls[Head(y.left)]
        BY <4>1, <4>2
      <4> QED
        BY <1>3, <4>3
  <2> QED
    BY <1>1, <1>2, <1>3, <1>5, <1>6, <2>1 DEF GoneOn
<1>7. CASE y.left = <<>>
  <2>1. NextTarget(x) = [y EXCEPT !.state = "done", !.status = status]
    BY <1>5, <1>7
  <2>2. NextTarget(x) \in Commit
    <3>1. PICK s \in {"none", "all_committed", "partial", "rolled_back"} : s = status
      BY <1>4
    <3>2. [y EXCEPT !.state = "done", !.status = s] \in Commit
      BY <1>2, <3>1, NewStatus
    <3> QED
      BY <2>1, <3>1, <3>2
  <2>3. /\ Request(y, NextTarget(x)) /\ NextTarget(x).committed_ids = y.committed_ids
        /\ NextTarget(x).undo = y.undo /\ NextTarget(x).rolled_back = y.rolled_back
        /\ NextTarget(x).met = y.met /\ NextTarget(x).state = "done"
    BY <1>2, <2>1 DEF Commit, Request
  <2> QED
    BY <1>3, <1>7, <2>2, <2>3 DEF GoneOn, Request
<1> QED
  BY <1>6, <1>7

\* Where it is when the calls up to k of a system are dealt with: at the next
\* one, or past the system, with a warning if that gave no id.
Passed(x, y, k) ==
    /\ y \in Commit /\ Request(x, y) /\ y.committed_ids = x.committed_ids
    /\ y.undo = {} /\ y.rolled_back = {} /\ x.met \subseteq y.met
    /\ y.state \in {"applying", "done"}
    /\ y.state = "applying" =>
          /\ y.left # <<>> /\ ToSet(y.left) \subseteq ToSet(x.left)
          /\ y.call <= Calls[Head(y.left)]
    /\ \/ y.state = "applying" /\ y.left = x.left /\ y.call = k + 1
       \/ /\ k = Calls[Head(x.left)]
          /\ y.met = {} => HasId(x, Head(x.left))
          /\ \/ y.state = "applying" /\ y.left = Tail(x.left) /\ y.call = 1
             \/ y.state = "done" /\ Tail(x.left) = <<>>

LEMMA NotedOf ==
    ASSUME NEW x, Going(x)
    PROVE  /\ Going(Noted(x)) /\ Request(x, Noted(x)) /\ Noted(x).left = x.left
           /\ Noted(x).committed_ids = x.committed_ids /\ x.met \subseteq Noted(x).met
           /\ Noted(x).met = {} => HasId(x, Head(x.left))
<1>1. CASE HasId(x, Head(x.left))
  <2>1. Noted(x) = x
    BY <1>1 DEF Noted, HasId
  <2> QED
    BY <1>1, <2>1 DEF Request
<1>2. CASE ~ HasId(x, Head(x.left))
  <2> DEFINE y == [x EXCEPT !.met = @ \cup {"warning"}]
  <2>1. Noted(x) = y
    BY <1>2 DEF Noted, HasId
  <2>2. x \in Commit /\ x.met \cup {"warning"} \in SUBSET {"warning", "error"}
    BY Fields DEF Going
  <2>3. y \in Commit
    BY <2>2, NewMet
  <2>4. /\ Going(y) /\ Request(x, y) /\ y.left = x.left
        /\ y.committed_ids = x.committed_ids /\ y.met = x.met \cup {"warning"}
    BY <2>2, <2>3 DEF Going, Commit, Request
  <2> HIDE DEF y
  <2> QED
    BY <2>1, <2>4
<1> QED
  BY <1>1, <1>2

LEMMA PastCallOf ==
    ASSUME NEW x, Going(x), NEW k \in Nat, k <= Calls[Head(x.left)]
    PROVE  Passed(x, PastCall(x, k), k)
<1>1. /\ x \in Commit /\ x.left \in Seq(Target) /\ x.left # <<>>
      /\ Calls[Head(x.left)] \in Nat /\ k + 1 \in Nat \ {0}
  BY CallCounts, Fields DEF Going
<1>2. CASE k < Calls[Head(x.left)]
  <2> DEFINE y == [x EXCEPT !.call = k + 1]
  <2>1. PastCall(x, k) = y
    BY <1>2 DEF PastCall
  <2>2. y \in Commit
    BY <1>1, NewCount
  <2>3. /\ Request(x, y) /\ y.committed_ids = x.committed_ids /\ y.undo = {}
        /\ y.rolled_back = {} /\ y.met = x.met /\ y.state = "applying"
        /\ y.left = x.left /\ y.call = k + 1
    BY <1>1 DEF Going, Commit, Request
  <2>4. k + 1 <= Calls[Head(x.left)]
    BY <1>1, <1>2
  <2> HIDE DEF y
  <2> QED
    BY <1>1, <2>1, <2>2, <2>3, <2>4 DEF Passed
<1>3. CASE ~ (k < Calls[Head(x.left)])
  <2>1. k = Calls[Head(x.left)]
    BY <1>1, <1>3
  <2>2. PastCall(x, k) = NextTarget(Noted(x))
    BY <1>3 DEF PastCall
  <2>3. PICK w : w = Noted(x)
    OBVIOUS
  <2>4. /\ Going(w) /\ Request(x, w) /\ w.left = x.left
        /\ w.committed_ids = x.committed_ids /\ x.met \subseteq w.met
        /\ w.met = {} => HasId(x, Head(x.left))
    BY <2>3, NotedOf
  <2>5. GoneOn(w, PastCall(x, k))
    BY <2>2, <2>3, <2>4, NextTargetOf
  <2> QED
    BY <2>1, <2>4, <2>5 DEF GoneOn, Passed, Request
<1> QED
  BY <1>2, <1>3

\* A commit that ends before its last system.
LEMMA EndedEarly ==
    ASSUME NEW x, Going(x), x.met # {}, NEW s \in {"partial", "rolled_back"}
    PROVE  Unlucky(x, Finished(x, s))
<1>1. Finished(x, s) = [x EXCEPT !.state = "done", !.status = s] /\ x \in Commit
  BY DEF Finished, Going
<1>2. Finished(x, s) \in Commit
  BY <1>1, NewStatus
<1>3. /\ Request(x, Finished(x, s)) /\ Finished(x, s).committed_ids = x.committed_ids
      /\ Finished(x, s).rolled_back = x.rolled_back /\ Finished(x, s).met = x.met
      /\ Finished(x, s).state = "done"
  BY <1>1 DEF Commit, Request
<1> QED
  BY <1>2, <1>3 DEF Unlucky, Going

LEMMA FailingOf ==
    ASSUME NEW x, Going(x)
    PROVE  Unlucky(x, Failing(x))
<1> DEFINE y == [x EXCEPT !.met = @ \cup {"error"}]
<1>1. x \in Commit /\ x.met \cup {"error"} \in SUBSET {"warning", "error"}
  BY Fields DEF Going
<1>2. y \in Commit
  BY <1>1, NewMet
<1>3. Going(y) /\ y.met # {} /\ Request(x, y) /\ y.committed_ids = x.committed_ids
      /\ y.left = x.left
  BY <1>1, <1>2 DEF Going, Commit, Request
<1>4. Failing(x) = CASE x.on_failure = "rollback" -> Undone(y)
                     [] x.on_failure = "abort" -> Finished(y, "partial")
                     [] x.on_failure = "continue" -> NextTarget(y)
  BY DEF Failing
<1>5. x.on_failure \in {"rollback", "continue", "abort"}
  BY <1>1, Fields DEF OnFailure
<1> HIDE DEF y
<1>6. ASSUME NEW z, Unlucky(y, z)
      PROVE  Unlucky(x, z)
  BY <1>3, <1>6 DEF Unlucky, Request
<1>7. CASE x.on_failure = "abort"
  BY <1>3, <1>4, <1>6, <1>7, EndedEarly
<1>8. CASE x.on_failure = "continue"
  <2>1. GoneOn(y, NextTarget(y))
    BY <1>3, NextTargetOf
  <2>2. Unlucky(y, NextTarget(y))
    BY <1>3, <2>1 DEF GoneOn, Unlucky
  <2> QED
    BY <1>4, <1>6, <1>8, <2>2
<1>9. CASE x.on_failure = "rollback"
  <2>1. CASE y.committed_ids = {}
    BY <1>3, <1>4, <1>6, <1>9, <2>1, EndedEarly DEF Undone
  <2>2. CASE y.committed_ids # {}
    <3>1. Failing(x) = [y EXCEPT !.state = "undoing", !.undo = y.committed_ids]
      BY <1>4, <1>9, <2>2 DEF Undone
    <3>2. y.committed_ids \in SUBSET Change
      BY <1>2, Fields
    <3>3. Failing(x) \in Commit
      BY <1>2, <3>1, <3>2, NewState
    <3>4. /\ Request(y, Failing(x)) /\ Failing(x).committed_ids = y.committed_ids
          /\ Failing(x).rolled_back = y.rolled_back /\ Failing(x).met = y.met
          /\ Failing(x).state = "undoing" /\ Failing(x).undo = y.committed_ids
      BY <1>2, <3>1 DEF Commit, Request
    <3>5. y.rolled_back = {} /\ y.on_failure = "rollback"
      BY <1>3, <1>9 DEF Going, Request
    <3> QED
      BY <1>3, <1>6, <2>2, <3>3, <3>4, <3>5 DEF Unlucky, Request
  <2> QED
    BY <2>1, <2>2
<1> QED
  BY <1>5, <1>7, <1>8, <1>9

LEMMA UnansweredOf ==
    ASSUME NEW x, Going(x)
    PROVE  Unlucky(x, Unanswered(x))
<1>1. CASE x.call = 1 /\ Head(x.left) \notin Lenient
  BY <1>1, FailingOf DEF Unanswered
<1>2. CASE ~ (x.call = 1 /\ Head(x.left) \notin Lenient)
  <2> DEFINE y == [x EXCEPT !.met = @ \cup {"warning"}]
  <2>1. x \in Commit /\ x.met \cup {"warning"} \in SUBSET {"warning", "error"}
    BY Fields DEF Going
  <2>2. y \in Commit
    BY <2>1, NewMet
  <2>3. Going(y) /\ y.met # {} /\ Request(x, y) /\ y.committed_ids = x.committed_ids
        /\ y.left = x.left /\ y.call = x.call
    BY <2>1, <2>2 DEF Going, Commit, Request
  <2>4. Unanswered(x) = NextCall(y)
    BY <1>2 DEF Unanswered
  <2> HIDE DEF y
  <2>5. y.call \in Nat /\ y.call <= Calls[Head(y.left)]
    BY <2>2, <2>3, Fields DEF Going
  <2>6. Passed(y, NextCall(y), y.call)
    BY <2>3, <2>5, PastCallOf DEF NextCall
  <2> QED
    BY <2>3, <2>4, <2>6 DEF Passed, Unlucky, Request
<1> QED
  BY <1>1, <1>2

LEMMA IsCommit ==
    ASSUME TypeOK, NEW r \in Run, Begun(r)
    PROVE  run[r] \in Commit
<1>1. run[r] \in Commit \cup {Waiting}
  BY DEF TypeOK
<1> QED
  BY <1>1 DEF Begun, Waiting

LEMMA IsGoing ==
    ASSUME TypeOK, Progress, NEW r \in Run, run[r].state = "applying"
    PROVE  Going(run[r])
<1>1. run[r] \in Commit /\ Under(run[r])
  BY IsCommit DEF Begun, Progress
<1> QED
  BY <1>1 DEF Going, Under

\* A call that gives no id.
LEMMA AfterFailure ==
    ASSUME TypeOK, Progress, NEW r \in Run, NoOperation(r) \/ CallFails(r) \/ ReplyLost(r)
    PROVE  /\ Going(run[r]) /\ Unlucky(run[r], run'[r])
           /\ \A q \in Run \ {r} : run'[q] = run[q]
           /\ run' = [run EXCEPT ![r] = run'[r]]
           /\ UNCHANGED <<now, tokens, previews, unread>>
           /\ \/ UNCHANGED <<changes, lost>>
              \/ /\ Calling(r) /\ ~ Present(TheChange(r))
                 /\ changes' = changes \cup {TheChange(r)} /\ lost' = lost \cup {r}
<1>1. Going(run[r])
  BY IsGoing DEF NoOperation, CallFails, ReplyLost, Calling
<1>2. \/ run' = [run EXCEPT ![r] = Failing(run[r])]
      \/ run' = [run EXCEPT ![r] = Unanswered(run[r])]
  BY DEF NoOperation, CallFails, ReplyLost
<1>3. /\ run' = [run EXCEPT ![r] = run'[r]] /\ run'[r] \in {Failing(run[r]), Unanswered(run[r])}
      /\ \A q \in Run \ {r} : run'[q] = run[q]
  BY <1>2 DEF TypeOK
<1>4. Unlucky(run[r], run'[r])
  BY <1>1, <1>3, FailingOf, UnansweredOf
<1>5. /\ UNCHANGED <<now, tokens, previews, unread>>
      /\ \/ UNCHANGED <<changes, lost>>
         \/ /\ Calling(r) /\ ~ Present(TheChange(r))
            /\ changes' = changes \cup {TheChange(r)} /\ lost' = lost \cup {r}
  BY DEF NoOperation, CallFails, ReplyLost
<1> QED
  BY <1>1, <1>3, <1>4, <1>5

\* The change a commit is about to make.
LEMMA ChangeOf ==
    ASSUME TypeOK, Progress, NEW r \in Run, Calling(r)
    PROVE  /\ TheChange(r) \in Change /\ TheChange(r).call \in 1..Calls[TheChange(r).target]
           /\ TheChange(r).target = Head(run[r].left) /\ TheChange(r).call = run[r].call
           /\ TheChange(r).by = r /\ TheChange(r).ir = run[r].ir
           /\ TheChange(r).target \in ToSet(run[r].asked)
<1>1. Going(run[r]) /\ Under(run[r])
  BY IsGoing DEF Calling, Progress, Begun
<1>2. /\ run[r].left \in Seq(Target) /\ run[r].left # <<>> /\ run[r].ir \in Policy
      /\ run[r].call \in Nat \ {0} /\ run[r].call <= Calls[Head(run[r].left)]
      /\ ToSet(run[r].left) \subseteq ToSet(run[r].asked)
  BY <1>1, Fields DEF Going, Under
<1>3. Head(run[r].left) \in Target /\ Head(run[r].left) \in ToSet(run[r].left)
  BY <1>2, CallCounts
<1>4. Calls[Head(run[r].left)] \in Nat
  BY <1>3, CallCounts
<1>5. /\ TheChange(r).target = Head(run[r].left) /\ TheChange(r).call = run[r].call
      /\ TheChange(r).by = r /\ TheChange(r).ir = run[r].ir
  BY DEF TheChange
<1>6. TheChange(r) \in Change
  BY <1>2, <1>3 DEF TheChange, Change
<1> QED
  BY <1>2, <1>3, <1>4, <1>5, <1>6

\* A call that gives an id, or the calls of a group that cannot be read.
LEMMA AfterCalls ==
    ASSUME TypeOK, Progress, NEW r \in Run, Answered(r) \/ MembersUnread(r)
    PROVE  \E z, k :
           LET x == run[r]
               y == run'[r] IN
           /\ Going(x) /\ Going(z) /\ Request(x, z)
           /\ z.left = x.left /\ z.call = x.call /\ z.met = x.met
           /\ k \in Nat /\ Passed(z, y, k)
           /\ \A q \in Run \ {r} : run'[q] = run[q]
           /\ run' = [run EXCEPT ![r] = y]
           /\ UNCHANGED <<now, tokens, previews, lost>>
           /\ \/ /\ Calling(r) /\ ~ Present(TheChange(r)) /\ k = x.call
                 /\ z.committed_ids = x.committed_ids \cup {TheChange(r)}
                 /\ changes' = changes \cup {TheChange(r)} /\ UNCHANGED unread
              \/ /\ z.committed_ids = x.committed_ids /\ UNCHANGED changes
                 /\ \E g \in SourceGroups :
                       /\ g.target = Head(x.left) /\ g.first = x.call /\ g.last = k
                       /\ unread' = unread \cup {[by |-> r, group |-> g]}
<1>1. Calling(r)
  BY DEF Answered, MembersUnread
<1>2. Going(run[r]) /\ run[r] \in Commit
  BY <1>1, IsGoing DEF Calling, Going
<1>3. ASSUME NEW y, run' = [run EXCEPT ![r] = y]
      PROVE  /\ run'[r] = y /\ run' = [run EXCEPT ![r] = run'[r]]
             /\ \A q \in Run \ {r} : run'[q] = run[q]
  BY <1>3 DEF TypeOK
<1>4. CASE Answered(r)
  <2> DEFINE x == run[r]
             c == TheChange(r)
             z == [x EXCEPT !.committed_ids = @ \cup {c}]
  <2>1. c \in Change
    BY <1>1, ChangeOf
  <2>2. x.committed_ids \cup {c} \in SUBSET Change
    BY <1>2, <2>1, Fields
  <2>3. z \in Commit
    BY <1>2, <2>2, NewIds
  <2>4. /\ Going(z) /\ Request(x, z) /\ z.committed_ids = x.committed_ids \cup {c}
        /\ z.left = x.left /\ z.call = x.call /\ z.met = x.met
    BY <1>2, <2>3 DEF Going, Commit, Request
  <2>5. run' = [run EXCEPT ![r] = NextCall(z)]
    BY <1>4 DEF Answered, Recorded
  <2> HIDE DEF z
  <2>6. z.call \in Nat /\ z.call <= Calls[Head(z.left)]
    BY <2>4, Fields DEF Going
  <2>7. Passed(z, NextCall(z), x.call)
    BY <2>4, <2>6, PastCallOf DEF NextCall
  <2>8. /\ run'[r] = NextCall(z) /\ run' = [run EXCEPT ![r] = run'[r]]
        /\ \A q \in Run \ {r} : run'[q] = run[q]
    BY <1>3, <2>5
  <2>9. /\ ~ Present(c) /\ changes' = changes \cup {c}
        /\ UNCHANGED <<now, tokens, previews, lost, unread>>
    BY <1>4 DEF Answered
  <2> QED
    BY <1>1, <1>2, <2>4, <2>6, <2>7, <2>8, <2>9
<1>5. CASE MembersUnread(r)
  <2> DEFINE x == run[r]
  <2>1. PICK g \in SourceGroups :
           /\ g.target = Head(x.left) /\ g.first = x.call
           /\ run' = [run EXCEPT ![r] = PastCall(x, g.last)]
           /\ unread' = unread \cup {[by |-> r, group |-> g]}
    BY <1>5 DEF MembersUnread
  <2>2. g.last \in Nat /\ g.last <= Calls[Head(x.left)]
    BY <2>1, WriteBackAssumption
  <2>3. Passed(x, PastCall(x, g.last), g.last)
    BY <1>2, <2>2, PastCallOf
  <2>4. /\ run'[r] = PastCall(x, g.last) /\ run' = [run EXCEPT ![r] = run'[r]]
        /\ \A q \in Run \ {r} : run'[q] = run[q]
    BY <1>3, <2>1
  <2>5. UNCHANGED <<now, tokens, previews, changes, lost>>
    BY <1>5 DEF MembersUnread
  <2> HIDE DEF x
  <2>6. Request(x, x)
    BY DEF Request
  <2> QED
    BY <1>2, <2>1, <2>2, <2>3, <2>4, <2>5, <2>6 DEF x
<1> QED
  BY <1>4, <1>5

\* One id is dealt with.
LEMMA AfterUndo ==
    ASSUME TypeOK, NEW r \in Run, RolledBack(r) \/ RollbackFails(r)
    PROVE  \E c \in run[r].undo :
           LET x == run[r]
               y == run'[r] IN
           /\ x.state = "undoing" /\ x \in Commit /\ y \in Commit /\ Request(x, y)
           /\ y.committed_ids = x.committed_ids /\ y.undo = x.undo \ {c}
           /\ y.state = IF x.undo \ {c} = {} THEN "done" ELSE "undoing"
           /\ y.state = "done" => y.status = "rolled_back"
           /\ \/ /\ y.rolled_back = x.rolled_back \cup {c}
                 /\ changes' = changes \ Entry(c) /\ UNCHANGED lost
              \/ /\ y.rolled_back = x.rolled_back
                 /\ UNCHANGED <<changes, lost>>
              \/ /\ y.rolled_back = x.rolled_back
                 /\ changes' = changes \ Entry(c) /\ lost' = lost \cup {r}
           /\ \A q \in Run \ {r} : run'[q] = run[q]
           /\ run' = [run EXCEPT ![r] = y]
           /\ UNCHANGED <<now, tokens, previews, unread>>
<1> DEFINE x == run[r]
<1>1. x.state = "undoing" /\ UNCHANGED <<now, tokens, previews, unread>>
  BY DEF RolledBack, RollbackFails
<1>2. x \in Commit
  BY <1>1, IsCommit DEF Begun
<1>0. PICK c \in UndoNext(x) : \E z \in {x, [x EXCEPT !.rolled_back = @ \cup {c}]} :
        /\ run' = [run EXCEPT ![r] = Settled(z, c)]
        /\ \/ /\ z = [x EXCEPT !.rolled_back = @ \cup {c}]
              /\ changes' = changes \ Entry(c) /\ UNCHANGED lost
           \/ z = x /\ UNCHANGED <<changes, lost>>
           \/ z = x /\ changes' = changes \ Entry(c) /\ lost' = lost \cup {r}
  <2>1. CASE RolledBack(r)
    <3>1. PICK c \in UndoNext(x) :
             /\ changes' = changes \ Entry(c)
             /\ run' = [run EXCEPT ![r] = Settled([x EXCEPT !.rolled_back = @ \cup {c}], c)]
      BY <2>1 DEF RolledBack
    <3>2. UNCHANGED lost
      BY <2>1 DEF RolledBack
    <3> QED
      BY <3>1, <3>2
  <2>2. CASE RollbackFails(r)
    <3>1. PICK c \in UndoNext(x) :
             /\ run' = [run EXCEPT ![r] = Settled(x, c)]
             /\ \/ UNCHANGED <<changes, lost>>
                \/ changes' = changes \ Entry(c) /\ lost' = lost \cup {r}
      BY <2>2 DEF RollbackFails
    <3> QED
      BY <3>1
  <2> QED
    BY <2>1, <2>2
<1>3. PICK z \in {x, [x EXCEPT !.rolled_back = @ \cup {c}]} :
        /\ run' = [run EXCEPT ![r] = Settled(z, c)]
        /\ \/ /\ z = [x EXCEPT !.rolled_back = @ \cup {c}]
              /\ changes' = changes \ Entry(c) /\ UNCHANGED lost
           \/ z = x /\ UNCHANGED <<changes, lost>>
           \/ z = x /\ changes' = changes \ Entry(c) /\ lost' = lost \cup {r}
  BY <1>0
<1>4. c \in x.undo /\ x.undo \subseteq Change
  BY <1>2, Fields DEF UndoNext
<1>5. run'[r] = Settled(z, c) /\ run' = [run EXCEPT ![r] = run'[r]]
      /\ \A q \in Run \ {r} : run'[q] = run[q]
  BY <1>3 DEF TypeOK
<1>6. x.rolled_back \cup {c} \in SUBSET Change
  BY <1>2, <1>4, Fields
<1>7. z \in Commit
  BY <1>2, <1>3, <1>6, NewRolledBack
<1>8. /\ Request(x, z) /\ z.committed_ids = x.committed_ids /\ z.undo = x.undo
      /\ z.state = x.state
      /\ z = x \/ z.rolled_back = x.rolled_back \cup {c}
      /\ z = [x EXCEPT !.rolled_back = @ \cup {c}] => z.rolled_back = x.rolled_back \cup {c}
  BY <1>2, <1>3 DEF Commit, Request
<1> DEFINE w == [z EXCEPT !.undo = @ \ {c}]
<1>9. Settled(z, c) = IF w.undo = {} THEN [w EXCEPT !.state = "done", !.status = "rolled_back"]
                      ELSE w
  BY DEF Settled, Finished
<1>10. w \in Commit
  <2>1. z.undo \ {c} \in SUBSET Change
    BY <1>4, <1>8
  <2> QED
    BY <1>7, <2>1, NewUndo
<1>11. /\ Request(z, w) /\ w.committed_ids = z.committed_ids /\ w.undo = z.undo \ {c}
       /\ w.state = z.state /\ w.rolled_back = z.rolled_back
  BY <1>7 DEF Commit, Request
<1> HIDE DEF w
<1> DEFINE y == Settled(z, c)
<1>12. /\ y \in Commit /\ Request(w, y) /\ y.committed_ids = w.committed_ids
       /\ y.undo = w.undo /\ y.rolled_back = w.rolled_back
       /\ y.state = IF w.undo = {} THEN "done" ELSE w.state
       /\ w.undo = {} => y.status = "rolled_back"
  <2>1. CASE w.undo = {}
    <3>1. y = [w EXCEPT !.state = "done", !.status = "rolled_back"]
      BY <1>9, <2>1
    <3>2. y \in Commit
      BY <1>10, <3>1, NewStatus
    <3>3. /\ Request(w, y) /\ y.committed_ids = w.committed_ids
          /\ y.undo = w.undo /\ y.rolled_back = w.rolled_back
          /\ y.state = "done" /\ y.status = "rolled_back"
      BY <1>10, <3>1 DEF Commit, Request
    <3> QED
      BY <2>1, <3>2, <3>3
  <2>2. CASE w.undo # {}
    BY <1>9, <1>10, <2>2 DEF Request
  <2> QED
    BY <2>1, <2>2
<1>13. y = run'[r]
  BY <1>5
<1> HIDE DEF y
<1>14. /\ y \in Commit /\ Request(x, y) /\ y.committed_ids = x.committed_ids
       /\ y.undo = x.undo \ {c} /\ y.rolled_back = z.rolled_back
       /\ y.state = IF x.undo \ {c} = {} THEN "done" ELSE "undoing"
       /\ y.state = "done" => y.status = "rolled_back"
  BY <1>1, <1>8, <1>11, <1>12 DEF Request
<1>15. \/ /\ y.rolled_back = x.rolled_back \cup {c}
          /\ changes' = changes \ Entry(c) /\ UNCHANGED lost
       \/ /\ y.rolled_back = x.rolled_back
          /\ UNCHANGED <<changes, lost>>
       \/ /\ y.rolled_back = x.rolled_back
          /\ changes' = changes \ Entry(c) /\ lost' = lost \cup {r}
  BY <1>3, <1>8, <1>14
<1> HIDE DEF x
<1> QED
  BY <1>1, <1>2, <1>4, <1>5, <1>13, <1>14, <1>15 DEF x

\* A commit that begins, and one whose server dies.
LEMMA AfterBegin ==
    ASSUME TypeOK, NEW r \in Run, NEW p \in Policy, NEW asked \in Asked,
           NEW on_failure \in OnFailure, NEW o \in Operator, Begin(r, p, asked, on_failure, o)
    PROVE  LET y == run'[r] IN
           /\ run[r] = Waiting /\ y \in Commit /\ run' = [run EXCEPT ![r] = y]
           /\ \A q \in Run \ {r} : run'[q] = run[q]
           /\ y.state = "applying" /\ y.ir = p /\ y.actor = o /\ y.asked = asked
           /\ y.began = now /\ y.left = asked /\ y.call = 1 /\ asked # <<>>
           /\ y.committed_ids = {} /\ y.undo = {} /\ y.rolled_back = {}
           /\ \E token \in tokens : verify(token, p, ToSet(asked), o)
           /\ UNCHANGED <<now, tokens, previews, changes, lost, unread>>
<1> DEFINE y == [state |-> "applying", ir |-> p, actor |-> o,
                 asked |-> asked, on_failure |-> on_failure, began |-> now,
                 left |-> asked, call |-> 1,
                 committed_ids |-> {}, met |-> {},
                 undo |-> {}, rolled_back |-> {}, status |-> "none"]
<1>1. /\ run[r] = Waiting /\ run' = [run EXCEPT ![r] = y]
      /\ \E token \in tokens : verify(token, p, ToSet(asked), o)
      /\ UNCHANGED <<now, tokens, previews, changes, lost, unread>>
  BY DEF Begin
<1>2. asked \in Seq(Target) /\ asked # <<>>
  BY WriteBackAssumption
<1>3. /\ now \in 0..MaxTime /\ 1 \in Nat \ {0} /\ {} \in SUBSET Change
      /\ {} \in SUBSET {"warning", "error"}
  BY DEF TypeOK
<1>4. y \in Commit
  BY <1>2, <1>3, Zenon DEF Commit
<1>5. /\ y.state = "applying" /\ y.ir = p /\ y.actor = o /\ y.asked = asked
      /\ y.began = now /\ y.left = asked /\ y.call = 1
      /\ y.committed_ids = {} /\ y.undo = {} /\ y.rolled_back = {}
  OBVIOUS
<1> HIDE DEF y
<1>6. run'[r] = y /\ \A q \in Run \ {r} : run'[q] = run[q]
  BY <1>1 DEF TypeOK
<1> QED
  BY <1>1, <1>2, <1>4, <1>5, <1>6

LEMMA AfterCrash ==
    ASSUME TypeOK, NEW r \in Run, Crash(r)
    PROVE  /\ Begun(r) /\ run'[r] \in Commit /\ Request(run[r], run'[r])
           /\ run'[r].state = "dead" /\ run' = [run EXCEPT ![r] = run'[r]]
           /\ \A q \in Run \ {r} : run'[q] = run[q]
           /\ UNCHANGED <<now, tokens, previews, changes, lost, unread>>
<1> DEFINE x == run[r]
           y == [x EXCEPT !.state = "dead", !.left = <<>>, !.call = 1,
                          !.committed_ids = {}, !.rolled_back = {}, !.undo = {},
                          !.met = {}]
<1>1. x.state \in {"applying", "undoing"} /\ run' = [run EXCEPT ![r] = y]
      /\ UNCHANGED <<now, tokens, previews, changes, lost, unread>>
  BY DEF Crash
<1>2. x \in Commit /\ Begun(r)
  BY <1>1, IsCommit DEF Begun
<1>3. /\ <<>> \in Seq(Target) /\ 1 \in Nat \ {0} /\ {} \in SUBSET Change
      /\ {} \in SUBSET {"warning", "error"}
  OBVIOUS
<1>4. y \in Commit
  BY <1>2, <1>3, Zenon DEF Commit
<1>5. Request(x, y) /\ y.state = "dead"
  BY <1>2 DEF Commit, Request
<1> HIDE DEF y
<1>6. run'[r] = y /\ \A q \in Run \ {r} : run'[q] = run[q]
  BY <1>1 DEF TypeOK
<1> QED
  BY <1>1, <1>2, <1>4, <1>5, <1>6

\* What a step does: a clock tick or a dry run, or something of one commit.
OfCommit(r) ==
    \/ NoOperation(r) \/ CallFails(r) \/ ReplyLost(r)
    \/ Answered(r) \/ MembersUnread(r)
    \/ RolledBack(r) \/ RollbackFails(r)
    \/ Crash(r)
    \/ \E p \in Policy, asked \in Asked, on_failure \in OnFailure, o \in Operator :
          Begin(r, p, asked, on_failure, o)

LEMMA Steps ==
    ASSUME [Next]_vars
    PROVE  /\ UNCHANGED <<run, changes, lost, unread>> \/ \E r \in Run : OfCommit(r)
           /\ \/ UNCHANGED <<now, tokens, previews>>
              \/ Tick
              \/ \E p \in Policy, asked \in Asked, on_failure \in OnFailure, o \in Operator :
                    Preview(p, asked, on_failure, o)
<1>1. CASE UNCHANGED vars
  BY <1>1 DEF vars
<1>2. CASE Tick
  BY <1>2 DEF Tick
<1>3. ASSUME NEW p \in Policy, NEW asked \in Asked, NEW on_failure \in OnFailure,
             NEW o \in Operator, Preview(p, asked, on_failure, o)
      PROVE  UNCHANGED <<run, changes, lost, unread>>
  BY <1>3 DEF Preview
<1>4. ASSUME NEW r \in Run, OfCommit(r)
      PROVE  UNCHANGED <<now, tokens, previews>>
  <2>1. ASSUME NEW p \in Policy, NEW asked \in Asked, NEW on_failure \in OnFailure,
               NEW o \in Operator, Begin(r, p, asked, on_failure, o)
        PROVE  UNCHANGED <<now, tokens, previews>>
    BY <2>1 DEF Begin
  <2>2. CASE \/ NoOperation(r) \/ CallFails(r) \/ ReplyLost(r) \/ Answered(r)
             \/ MembersUnread(r) \/ Crash(r)
    BY <2>2 DEF NoOperation, CallFails, ReplyLost, Answered, MembersUnread, Crash
  <2>3. CASE RolledBack(r) \/ RollbackFails(r)
    BY <2>3 DEF RolledBack, RollbackFails
  <2> QED
    BY <1>4, <2>1, <2>2, <2>3 DEF OfCommit
<1>5. CASE \E r \in Run : OfCommit(r)
  BY <1>4, <1>5
<1> QED
  BY <1>1, <1>2, <1>3, <1>5 DEF Next, OfCommit

LEMMA NextTypes ==
    ASSUME TypeOK, Progress, [Next]_vars
    PROVE  TypeOK'
<1>1. CASE Tick \/ UNCHANGED vars
  <2>1. now' \in 0..MaxTime /\ UNCHANGED <<tokens, previews, run, changes, lost, unread>>
    BY <1>1, WriteBackAssumption DEF Tick, vars, TypeOK
  <2> QED
    BY <2>1 DEF TypeOK
<1>2. ASSUME NEW p \in Policy, NEW asked \in Asked, NEW on_failure \in OnFailure,
             NEW o \in Operator, Preview(p, asked, on_failure, o)
      PROVE  TypeOK'
  <2> DEFINE scopes == {{t} : t \in Shown(p, asked, on_failure)} \cup {ToSet(asked)}
  <2>1. \A s \in scopes : s \subseteq Target
    <3>1. asked \in Seq(Target)
      BY WriteBackAssumption
    <3>2. \A i \in DOMAIN asked : asked[i] \in Target
      BY <3>1
    <3>3. ToSet(asked) \subseteq Target
      BY <3>2 DEF ToSet
    <3>4. Shown(p, asked, on_failure) \subseteq Target
      BY <3>2 DEF Shown
    <3> QED
      BY <3>3, <3>4
  <2>2. \A s \in scopes : mint(p, s, o) \in Token
    BY <2>1 DEF mint, Token, TypeOK
  <2> HIDE DEF scopes
  <2>3. /\ tokens' = tokens \cup {mint(p, s, o) : s \in scopes}
        /\ previews' = previews \cup {mint(p, s, o) : s \in scopes}
        /\ UNCHANGED <<now, run, changes, lost, unread>>
    BY <1>2 DEF Preview, scopes
  <2>4. tokens' \subseteq Token /\ previews' \subseteq Token
    BY <2>2, <2>3 DEF TypeOK
  <2> QED
    BY <2>3, <2>4 DEF TypeOK
<1>3. ASSUME NEW r \in Run, NEW p \in Policy, NEW asked \in Asked,
             NEW on_failure \in OnFailure, NEW o \in Operator,
             Begin(r, p, asked, on_failure, o)
      PROVE  TypeOK'
  <2>1. /\ run'[r] \in Commit /\ run' = [run EXCEPT ![r] = run'[r]]
        /\ \A q \in Run \ {r} : run'[q] = run[q]
        /\ run'[r].state = "applying"
        /\ UNCHANGED <<now, tokens, previews, changes, lost, unread>>
    BY <1>3, AfterBegin
  <2> QED
    BY <2>1 DEF TypeOK
<1>4. ASSUME NEW r \in Run, NoOperation(r) \/ CallFails(r) \/ ReplyLost(r)
      PROVE  TypeOK'
  <2>1. /\ Unlucky(run[r], run'[r]) /\ run' = [run EXCEPT ![r] = run'[r]]
        /\ \A q \in Run \ {r} : run'[q] = run[q]
        /\ UNCHANGED <<now, tokens, previews, unread>>
        /\ \/ UNCHANGED <<changes, lost>>
           \/ /\ Calling(r) /\ changes' = changes \cup {TheChange(r)}
              /\ lost' = lost \cup {r}
    BY <1>4, AfterFailure
  <2>2. run'[r] \in Commit /\ (run'[r].state = "undoing" => run'[r].on_failure = "rollback")
    BY <2>1 DEF Unlucky
  <2>3. changes' \subseteq Change /\ \A c \in changes' : c.call \in 1..Calls[c.target]
    BY <2>1, ChangeOf DEF TypeOK
  <2>4. lost' \subseteq Run
    BY <2>1 DEF TypeOK
  <2> QED
    BY <2>1, <2>2, <2>3, <2>4 DEF TypeOK
<1>5. ASSUME NEW r \in Run, Answered(r) \/ MembersUnread(r)
      PROVE  TypeOK'
  <2>1. /\ run'[r] \in Commit /\ run'[r].state # "undoing"
        /\ run' = [run EXCEPT ![r] = run'[r]]
        /\ \A q \in Run \ {r} : run'[q] = run[q]
        /\ UNCHANGED <<now, tokens, previews, lost>>
        /\ \/ UNCHANGED changes
           \/ Calling(r) /\ changes' = changes \cup {TheChange(r)}
        /\ \/ UNCHANGED unread
           \/ \E g \in SourceGroups : unread' = unread \cup {[by |-> r, group |-> g]}
    BY <1>5, AfterCalls DEF Passed
  <2>2. changes' \subseteq Change /\ \A c \in changes' : c.call \in 1..Calls[c.target]
    BY <2>1, ChangeOf DEF TypeOK
  <2>3. unread' \subseteq [by : Run, group : SourceGroups]
    BY <2>1 DEF TypeOK
  <2> QED
    BY <2>1, <2>2, <2>3 DEF TypeOK
<1>6. ASSUME NEW r \in Run, RolledBack(r) \/ RollbackFails(r)
      PROVE  TypeOK'
  <2>1. /\ run[r].state = "undoing" /\ run'[r] \in Commit /\ Request(run[r], run'[r])
        /\ run' = [run EXCEPT ![r] = run'[r]]
        /\ \A q \in Run \ {r} : run'[q] = run[q]
        /\ changes' \subseteq changes /\ lost' \subseteq lost \cup {r}
        /\ UNCHANGED <<now, tokens, previews, unread>>
    BY <1>6, AfterUndo
  <2>2. run'[r].on_failure = "rollback"
    BY <2>1 DEF TypeOK, Request
  <2> QED
    BY <2>1, <2>2 DEF TypeOK
<1>7. ASSUME NEW r \in Run, Crash(r)
      PROVE  TypeOK'
  <2>1. /\ run'[r] \in Commit /\ run'[r].state = "dead" /\ run' = [run EXCEPT ![r] = run'[r]]
        /\ \A q \in Run \ {r} : run'[q] = run[q]
        /\ UNCHANGED <<now, tokens, previews, changes, lost, unread>>
    BY <1>7, AfterCrash
  <2> QED
    BY <2>1 DEF TypeOK
<1> QED
  BY <1>1, <1>2, <1>3, <1>4, <1>5, <1>6, <1>7 DEF Next

\* Commits go on within their systems.
LEMMA NextProgress ==
    ASSUME TypeOK, Progress, [Next]_vars
    PROVE  Progress'
<1>0. ASSUME NEW r \in Run, \A q \in Run \ {r} : run'[q] = run[q],
             run'[r].state # "waiting" => Under(run'[r])
      PROVE  Progress'
  BY <1>0 DEF Progress, Begun
<1>1. CASE UNCHANGED run
  BY <1>1 DEF Progress, Begun
<1>2. ASSUME NEW r \in Run, NEW p \in Policy, NEW asked \in Asked,
             NEW on_failure \in OnFailure, NEW o \in Operator,
             Begin(r, p, asked, on_failure, o)
      PROVE  Progress'
  <2>1. /\ run'[r].state = "applying" /\ run'[r].asked = asked /\ run'[r].left = asked
        /\ run'[r].call = 1 /\ run'[r].undo = {} /\ run'[r].rolled_back = {}
        /\ asked # <<>> /\ \A q \in Run \ {r} : run'[q] = run[q]
    BY <1>2, AfterBegin
  <2>2. Calls[Head(asked)] \in Nat \ {0}
    BY WriteBackAssumption, CallCounts
  <2>3. 1 <= Calls[Head(asked)]
    BY <2>2
  <2>4. Under(run'[r])
    BY <2>1, <2>3 DEF Under
  <2> QED
    BY <1>0, <2>1, <2>4
<1>3. ASSUME NEW r \in Run, NoOperation(r) \/ CallFails(r) \/ ReplyLost(r)
      PROVE  Progress'
  <2>1. /\ Going(run[r]) /\ Unlucky(run[r], run'[r])
        /\ \A q \in Run \ {r} : run'[q] = run[q]
    BY <1>3, AfterFailure
  <2>2. ToSet(run[r].left) \subseteq ToSet(run[r].asked)
    BY <2>1 DEF Going, Progress, Under, Begun
  <2>3. Under(run'[r])
    BY <2>1, <2>2 DEF Unlucky, Request, Under
  <2> QED
    BY <1>0, <2>1, <2>3
<1>4. ASSUME NEW r \in Run, Answered(r) \/ MembersUnread(r)
      PROVE  Progress'
  <2>1. PICK z, k :
           /\ Going(run[r]) /\ Request(run[r], z) /\ z.left = run[r].left
           /\ Passed(z, run'[r], k)
           /\ \A q \in Run \ {r} : run'[q] = run[q]
    BY <1>4, AfterCalls
  <2>2. ToSet(run[r].left) \subseteq ToSet(run[r].asked)
    BY <2>1 DEF Going, Progress, Under, Begun
  <2>3. Under(run'[r])
    BY <2>1, <2>2 DEF Passed, Request, Under
  <2> QED
    BY <1>0, <2>1, <2>3
<1>5. ASSUME NEW r \in Run, RolledBack(r) \/ RollbackFails(r)
      PROVE  Progress'
  <2>1. PICK c \in run[r].undo :
           /\ run[r].state = "undoing" /\ run'[r].committed_ids = run[r].committed_ids
           /\ run'[r].undo = run[r].undo \ {c}
           /\ run'[r].state = IF run[r].undo \ {c} = {} THEN "done" ELSE "undoing"
           /\ run'[r].rolled_back \in {run[r].rolled_back, run[r].rolled_back \cup {c}}
           /\ \A q \in Run \ {r} : run'[q] = run[q]
    BY <1>5, AfterUndo
  <2>2. run[r].undo \subseteq run[r].committed_ids \ run[r].rolled_back
    BY <2>1 DEF Progress, Begun, Under
  <2>3. Under(run'[r])
    BY <2>1, <2>2 DEF Under
  <2> QED
    BY <1>0, <2>1, <2>3
<1>6. ASSUME NEW r \in Run, Crash(r)
      PROVE  Progress'
  <2>1. run'[r].state = "dead" /\ \A q \in Run \ {r} : run'[q] = run[q]
    BY <1>6, AfterCrash
  <2> QED
    BY <1>0, <2>1 DEF Under
<1> QED
  BY <1>1, <1>2, <1>3, <1>4, <1>5, <1>6, Steps DEF OfCommit

-------------------------------------------------------------------------------
(* What was reviewed. *)

\* A commit goes on with the request it came with.
LEMMA RequestsStay ==
    ASSUME TypeOK, Progress, [Next]_vars, NEW r \in Run, Begun(r)
    PROVE  Begun(r)' /\ Request(run[r], run'[r])
<1> SUFFICES ASSUME run'[r] # run[r]
             PROVE  Begun(r)' /\ Request(run[r], run'[r])
  BY DEF Begun, Request
<1>1. PICK q \in Run :
         \/ NoOperation(q) \/ CallFails(q) \/ ReplyLost(q)
         \/ Answered(q) \/ MembersUnread(q)
         \/ RolledBack(q) \/ RollbackFails(q) \/ Crash(q)
         \/ \E p \in Policy, asked \in Asked, on_failure \in OnFailure, o \in Operator :
               Begin(q, p, asked, on_failure, o)
  BY Steps DEF OfCommit
<1>2. CASE NoOperation(q) \/ CallFails(q) \/ ReplyLost(q)
  BY <1>2, AfterFailure DEF Unlucky, Begun
<1>3. CASE Answered(q) \/ MembersUnread(q)
  BY <1>3, AfterCalls DEF Passed, Request, Begun
<1>4. CASE RolledBack(q) \/ RollbackFails(q)
  BY <1>4, AfterUndo DEF Begun
<1>5. CASE Crash(q)
  BY <1>5, AfterCrash DEF Begun
<1>6. ASSUME NEW p \in Policy, NEW asked \in Asked, NEW on_failure \in OnFailure,
             NEW o \in Operator, Begin(q, p, asked, on_failure, o)
      PROVE  FALSE
  BY <1>6, AfterBegin DEF Begun, Waiting
<1> QED
  BY <1>1, <1>2, <1>3, <1>4, <1>5, <1>6

LEMMA NextReviewed ==
    ASSUME TypeOK, Progress, Reviewed, [Next]_vars
    PROVE  Reviewed'
<1>1. /\ tokens' \subseteq previews' /\ previews \subseteq previews'
      /\ \A v \in previews' : v.issued_at <= now'
  <2>1. ASSUME NEW p \in Policy, NEW asked \in Asked, NEW on_failure \in OnFailure,
               NEW o \in Operator, Preview(p, asked, on_failure, o)
        PROVE  /\ tokens' \subseteq previews' /\ previews \subseteq previews'
               /\ \A v \in previews' : v.issued_at <= now'
    <3>1. now <= now /\ \A s : mint(p, s, o).issued_at = now
      BY DEF mint, TypeOK
    <3> HIDE DEF mint
    <3> QED
      BY <2>1, <3>1 DEF Preview, Reviewed
  <2>2. CASE UNCHANGED <<tokens, previews>> /\ now' = now
    BY <2>2 DEF Reviewed
  <2>3. CASE Tick
    <3>1. \A v \in previews : v.issued_at \in Int
      BY DEF TypeOK, Token
    <3>2. UNCHANGED <<tokens, previews>> /\ now' = now + 1 /\ now \in Int
      BY <2>3 DEF Tick, TypeOK
    <3> QED
      BY <3>1, <3>2 DEF Reviewed
  <2> QED
    BY <2>1, <2>2, <2>3, Steps
<1>2. ASSUME NEW r \in Run, Begun(r)'
      PROVE  \E v \in previews' : ReviewOf(run'[r], v)
  <2>1. CASE Begun(r)
    <3>1. PICK v \in previews : ReviewOf(run[r], v)
      BY <2>1 DEF Reviewed
    <3>2. Request(run[r], run'[r])
      BY <2>1, RequestsStay
    <3>3. ReviewOf(run'[r], v)
      BY <3>1, <3>2 DEF Request, ReviewOf
    <3> QED
      BY <1>1, <3>1, <3>3
  <2>2. CASE ~ Begun(r)
    <3>1. run'[r] # run[r] /\ run[r].state = "waiting"
      BY <1>2, <2>2 DEF Begun
    <3>2. PICK q \in Run :
             \/ NoOperation(q) \/ CallFails(q) \/ ReplyLost(q)
             \/ Answered(q) \/ MembersUnread(q)
             \/ RolledBack(q) \/ RollbackFails(q) \/ Crash(q)
             \/ \E p \in Policy, asked \in Asked, on_failure \in OnFailure, o \in Operator :
                   Begin(q, p, asked, on_failure, o)
      BY <3>1, Steps DEF OfCommit
    <3>3. ~ \/ NoOperation(q) \/ CallFails(q) \/ ReplyLost(q)
            \/ Answered(q) \/ MembersUnread(q)
            \/ RolledBack(q) \/ RollbackFails(q) \/ Crash(q)
      <4>1. CASE q # r
        BY <3>1, <4>1, AfterFailure, AfterCalls, AfterUndo, AfterCrash
      <4>2. CASE q = r
        BY <3>1, <4>2 DEF NoOperation, CallFails, ReplyLost, Answered, MembersUnread, Calling,
           RolledBack, RollbackFails, Crash
      <4> QED
        BY <4>1, <4>2
    <3>4. PICK p \in Policy, asked \in Asked, on_failure \in OnFailure, o \in Operator :
             Begin(q, p, asked, on_failure, o)
      BY <3>2, <3>3
    <3>5. q = r
      BY <3>1, <3>4, AfterBegin
    <3>6. /\ run'[r].ir = p /\ run'[r].actor = o /\ run'[r].asked = asked /\ run'[r].began = now
          /\ \E token \in tokens : verify(token, p, ToSet(asked), o)
      BY <3>4, <3>5, AfterBegin
    <3>7. PICK v \in tokens : verify(v, p, ToSet(asked), o)
      BY <3>6
    <3>8. v \in previews /\ v.issued_at <= now /\ v.issued_at \in Int /\ now \in Int
          /\ TTL \in Int
      BY <3>7, WriteBackAssumption DEF Reviewed, TypeOK, Token
    <3>9. ReviewOf(run'[r], v)
      BY <3>6, <3>7, <3>8 DEF verify, ReviewOf
    <3> QED
      BY <1>1, <3>8, <3>9
  <2> QED
    BY <2>1, <2>2
<1>3. ASSUME NEW c \in changes'
      PROVE  /\ Begun(c.by)' /\ c.ir = run'[c.by].ir
             /\ c.target \in ToSet(run'[c.by].asked)
  <2>1. /\ c.by \in Run /\ Begun(c.by) /\ c.ir = run[c.by].ir
        /\ c.target \in ToSet(run[c.by].asked)
    <3>1. CASE c \in changes
      BY <3>1 DEF Reviewed, TypeOK, Change
    <3>2. CASE c \notin changes
      <4>1. PICK r \in Run : Answered(r) \/ ReplyLost(r)
        <5>1. ASSUME NEW r \in Run, RolledBack(r) \/ RollbackFails(r)
              PROVE  changes' \subseteq changes
          <6>1. PICK d \in run[r].undo : changes' \in {changes, changes \ Entry(d)}
            BY <5>1, AfterUndo
          <6> QED
            BY <6>1
        <5>2. ASSUME NEW r \in Run, NEW p \in Policy, NEW asked \in Asked,
                     NEW on_failure \in OnFailure, NEW o \in Operator,
                     Begin(r, p, asked, on_failure, o)
              PROVE  UNCHANGED changes
          BY <5>2 DEF Begin
        <5>3. ASSUME NEW r \in Run,
                     NoOperation(r) \/ CallFails(r) \/ MembersUnread(r) \/ Crash(r)
              PROVE  UNCHANGED changes
          BY <5>3 DEF NoOperation, CallFails, MembersUnread, Crash
        <5> QED
          BY <3>2, <5>1, <5>2, <5>3, Steps DEF OfCommit
      <4>2. Calling(r) /\ c = TheChange(r)
        BY <3>2, <4>1 DEF Answered, ReplyLost
      <4> QED
        BY <4>2, ChangeOf DEF Calling, Begun
    <3> QED
      BY <3>1, <3>2
  <2>2. Begun(c.by)' /\ Request(run[c.by], run'[c.by])
    <3>1. PICK r \in Run : r = c.by
      BY <2>1
    <3>2. Begun(r)' /\ Request(run[r], run'[r])
      BY <2>1, <3>1, RequestsStay
    <3> QED
      BY <3>1, <3>2 DEF Begun
  <2> QED
    BY <2>1, <2>2 DEF Request
<1> QED
  BY <1>1, <1>2, <1>3 DEF Reviewed, Begun

-------------------------------------------------------------------------------
(* What a commit has, and what it reports. *)

\* A membership is there once, and nothing else is deleted with it.
LEMMA EntryOf ==
    ASSUME Kept, NEW c \in changes
    PROVE  Entry(c) = {c}
BY DEF Kept, Entry, Same

LEMMA NextKept ==
    ASSUME TypeOK, Progress, Kept, [Next]_vars
    PROVE  Kept'
<1>0. CASE UNCHANGED <<run, changes>>
  BY <1>0 DEF Kept, By, Same
<1>1. ASSUME NEW r \in Run, \A q \in Run \ {r} : run'[q] = run[q],
             run'[r].state = "applying" => run'[r].committed_ids \subseteq By(r)',
             run'[r].state = "undoing" => run'[r].undo \subseteq By(r)',
             \A q \in Run \ {r} : By(q) \subseteq By(q)',
             \A c, d \in changes' : c.target \in Memberships /\ Same(c, d) => c = d
      PROVE  Kept'
  BY <1>1 DEF Kept, Same
<1>2. ASSUME NEW r \in Run, NEW p \in Policy, NEW asked \in Asked,
             NEW on_failure \in OnFailure, NEW o \in Operator,
             Begin(r, p, asked, on_failure, o)
      PROVE  Kept'
  <2>1. /\ run'[r].state = "applying" /\ run'[r].committed_ids = {}
        /\ \A q \in Run \ {r} : run'[q] = run[q]
        /\ UNCHANGED changes
    BY <1>2, AfterBegin
  <2> QED
    BY <2>1 DEF Kept, By, Same
<1>3. ASSUME NEW r \in Run, ~ Present(TheChange(r)),
             changes' = changes \cup {TheChange(r)}
      PROVE  \A c, d \in changes' : c.target \in Memberships /\ Same(c, d) => c = d
  BY <1>3 DEF Kept, Present, Same
<1>4. ASSUME NEW r \in Run, NoOperation(r) \/ CallFails(r) \/ ReplyLost(r)
      PROVE  Kept'
  <2>1. /\ Going(run[r]) /\ Unlucky(run[r], run'[r])
        /\ \A q \in Run \ {r} : run'[q] = run[q]
        /\ \/ UNCHANGED changes
           \/ ~ Present(TheChange(r)) /\ changes' = changes \cup {TheChange(r)}
    BY <1>4, AfterFailure
  <2>2. \A q \in Run : By(q) \subseteq By(q)'
    BY <2>1 DEF By
  <2>3. run[r].committed_ids \subseteq By(r)
    BY <2>1 DEF Going, Kept
  <2>4. run'[r].committed_ids = run[r].committed_ids
        /\ (run'[r].state = "undoing" => run'[r].undo = run'[r].committed_ids)
    BY <2>1 DEF Unlucky
  <2>5. \A c, d \in changes' : c.target \in Memberships /\ Same(c, d) => c = d
    BY <1>3, <2>1 DEF Kept
  <2> QED
    BY <1>1, <2>1, <2>2, <2>3, <2>4, <2>5
<1>5. ASSUME NEW r \in Run, Answered(r) \/ MembersUnread(r)
      PROVE  Kept'
  <2>1. /\ Going(run[r]) /\ run'[r].state # "undoing"
        /\ \A q \in Run \ {r} : run'[q] = run[q]
        /\ \/ /\ run'[r].committed_ids = run[r].committed_ids \cup {TheChange(r)}
              /\ Calling(r) /\ ~ Present(TheChange(r))
              /\ changes' = changes \cup {TheChange(r)}
           \/ run'[r].committed_ids = run[r].committed_ids /\ UNCHANGED changes
    BY <1>5, AfterCalls DEF Passed
  <2>2. \A q \in Run : By(q) \subseteq By(q)'
    BY <2>1 DEF By
  <2>3. run[r].committed_ids \subseteq By(r)
    BY <2>1 DEF Going, Kept
  <2>4. run'[r].committed_ids \subseteq By(r)'
    <3>1. CASE Calling(r) /\ changes' = changes \cup {TheChange(r)}
      <4>1. TheChange(r).by = r
        BY <3>1, ChangeOf
      <4>2. TheChange(r) \in changes'
        BY <3>1
      <4>3. By(r)' = {c \in changes' : c.by = r}
        BY DEF By
      <4> QED
        BY <2>1, <2>2, <2>3, <4>1, <4>2, <4>3
    <3> QED
      BY <2>1, <2>2, <2>3, <3>1
  <2>5. \A c, d \in changes' : c.target \in Memberships /\ Same(c, d) => c = d
    BY <1>3, <2>1 DEF Kept
  <2> QED
    BY <1>1, <2>1, <2>2, <2>4, <2>5
<1>6. ASSUME NEW r \in Run, RolledBack(r) \/ RollbackFails(r)
      PROVE  Kept'
  <2>1. PICK c \in run[r].undo :
           /\ run[r].state = "undoing" /\ run'[r].undo = run[r].undo \ {c}
           /\ run'[r].state \in {"undoing", "done"}
           /\ changes' \in {changes, changes \ Entry(c)}
           /\ \A q \in Run \ {r} : run'[q] = run[q]
    BY <1>6, AfterUndo
  <2>2. c \in changes /\ c.by = r /\ run[r].undo \subseteq By(r)
    BY <2>1 DEF Kept, By
  <2>3. changes' \in {changes, changes \ {c}}
    BY <2>1, <2>2, EntryOf
  <2>4. /\ \A q \in Run \ {r} : By(q) \subseteq By(q)'
        /\ run[r].undo \ {c} \subseteq By(r)'
    BY <2>2, <2>3 DEF By
  <2>5. \A d, e \in changes' : d.target \in Memberships /\ Same(d, e) => d = e
    BY <2>3 DEF Kept
  <2> QED
    BY <1>1, <2>1, <2>4, <2>5
<1>7. ASSUME NEW r \in Run, Crash(r)
      PROVE  Kept'
  <2>1. /\ run'[r].state = "dead" /\ UNCHANGED changes
        /\ \A q \in Run \ {r} : run'[q] = run[q]
    BY <1>7, AfterCrash
  <2> QED
    BY <2>1 DEF Kept, By, Same
<1> QED
  BY <1>0, <1>2, <1>4, <1>5, <1>6, <1>7, Steps DEF OfCommit

LEMMA NextTold ==
    ASSUME TypeOK, Reviewed, Progress, Kept, Told, [Next]_vars
    PROVE  Told'
<1>0. CASE UNCHANGED <<run, changes, lost>>
  BY <1>0 DEF Told, By
<1>1. ASSUME NEW r \in Run, \A q \in Run \ {r} : run'[q] = run[q] /\ By(q)' = By(q),
             lost \subseteq lost',
             r \notin lost' /\ run'[r].state \in {"applying", "undoing", "done"} =>
                 By(r)' = run'[r].committed_ids \ run'[r].rolled_back
      PROVE  Told'
  BY <1>1 DEF Told
<1>2. ASSUME NEW r \in Run, NEW p \in Policy, NEW asked \in Asked,
             NEW on_failure \in OnFailure, NEW o \in Operator,
             Begin(r, p, asked, on_failure, o)
      PROVE  Told'
  <2>1. /\ run[r] = Waiting /\ run'[r].committed_ids = {}
        /\ \A q \in Run \ {r} : run'[q] = run[q]
        /\ UNCHANGED <<changes, lost>>
    BY <1>2, AfterBegin
  <2>2. By(r) = {}
    BY <2>1 DEF Reviewed, By, Begun, Waiting
  <2>3. \A q \in Run : By(q)' = By(q)
    BY <2>1 DEF By
  <2> QED
    BY <1>1, <2>1, <2>2, <2>3
<1>3. ASSUME NEW r \in Run, NoOperation(r) \/ CallFails(r) \/ ReplyLost(r)
      PROVE  Told'
  <2>1. /\ Going(run[r]) /\ Unlucky(run[r], run'[r])
        /\ \A q \in Run \ {r} : run'[q] = run[q]
        /\ \/ UNCHANGED <<changes, lost>>
           \/ /\ Calling(r) /\ changes' = changes \cup {TheChange(r)}
              /\ lost' = lost \cup {r}
    BY <1>3, AfterFailure
  <2>2. CASE UNCHANGED <<changes, lost>>
    <3>1. \A q \in Run : By(q)' = By(q)
      BY <2>2 DEF By
    <3>2. r \notin lost => By(r) = run[r].committed_ids \ run[r].rolled_back
      BY <2>1 DEF Told, Going
    <3>3. run'[r].committed_ids = run[r].committed_ids /\ run'[r].rolled_back = {}
          /\ run[r].rolled_back = {}
      BY <2>1 DEF Unlucky, Going
    <3> QED
      BY <1>1, <2>1, <2>2, <3>1, <3>2, <3>3
  <2>3. CASE Calling(r) /\ changes' = changes \cup {TheChange(r)} /\ lost' = lost \cup {r}
    <3>1. \A q \in Run \ {r} : By(q)' = By(q)
      BY <2>3, ChangeOf DEF By
    <3> QED
      BY <1>1, <2>1, <2>3, <3>1
  <2> QED
    BY <2>1, <2>2, <2>3
<1>4. ASSUME NEW r \in Run, Answered(r) \/ MembersUnread(r)
      PROVE  Told'
  <2>1. /\ Going(run[r]) /\ run'[r].rolled_back = {}
        /\ \A q \in Run \ {r} : run'[q] = run[q]
        /\ UNCHANGED lost
        /\ \/ /\ run'[r].committed_ids = run[r].committed_ids \cup {TheChange(r)}
              /\ Calling(r) /\ changes' = changes \cup {TheChange(r)}
           \/ run'[r].committed_ids = run[r].committed_ids /\ UNCHANGED changes
    BY <1>4, AfterCalls DEF Passed
  <2>2. r \notin lost => By(r) = run[r].committed_ids
    <3>1. run[r].state = "applying" /\ run[r].rolled_back = {}
      BY <2>1 DEF Going
    <3>2. r \notin lost => By(r) = run[r].committed_ids \ run[r].rolled_back
      BY <3>1 DEF Told
    <3> QED
      BY <3>1, <3>2
  <2>3. CASE run'[r].committed_ids = run[r].committed_ids /\ UNCHANGED changes
    <3>1. \A q \in Run : By(q)' = By(q)
      BY <2>3 DEF By
    <3> QED
      <4>1. \A q \in Run \ {r} : run'[q] = run[q] /\ By(q)' = By(q)
        BY <2>1, <3>1
      <4>2. lost \subseteq lost'
        BY <2>1
      <4>3. r \notin lost' => By(r)' = run'[r].committed_ids \ run'[r].rolled_back
        BY <2>1, <2>2, <2>3, <3>1
      <4> QED
        BY <1>1, <4>1, <4>2, <4>3
  <2>4. CASE /\ run'[r].committed_ids = run[r].committed_ids \cup {TheChange(r)}
             /\ Calling(r) /\ changes' = changes \cup {TheChange(r)}
    <3>1. TheChange(r).by = r
      BY <2>4, ChangeOf
    <3>2. (\A q \in Run \ {r} : By(q)' = By(q)) /\ By(r)' = By(r) \cup {TheChange(r)}
      BY <2>4, <3>1 DEF By, TheChange
    <3> QED
      BY <1>1, <2>1, <2>2, <2>4, <3>2
  <2> QED
    BY <2>1, <2>3, <2>4
<1>5. ASSUME NEW r \in Run, RolledBack(r) \/ RollbackFails(r)
      PROVE  Told'
  <2>1. PICK c \in run[r].undo :
           /\ run[r].state = "undoing" /\ run'[r].committed_ids = run[r].committed_ids
           /\ \/ /\ run'[r].rolled_back = run[r].rolled_back \cup {c}
                 /\ changes' = changes \ Entry(c) /\ UNCHANGED lost
              \/ /\ run'[r].rolled_back = run[r].rolled_back
                 /\ UNCHANGED <<changes, lost>>
              \/ /\ run'[r].rolled_back = run[r].rolled_back
                 /\ changes' = changes \ Entry(c) /\ lost' = lost \cup {r}
           /\ \A q \in Run \ {r} : run'[q] = run[q]
    BY <1>5, AfterUndo
  <2>2. c \in changes /\ c.by = r
    BY <2>1 DEF Kept, By
  <2>3. Entry(c) = {c}
    BY <2>2, EntryOf
  <2>4. /\ \A q \in Run \ {r} : By(q)' = By(q)
        /\ changes' = changes \ {c} => By(r)' = By(r) \ {c}
        /\ changes' = changes => By(r)' = By(r)
    BY <2>1, <2>2, <2>3 DEF By
  <2>5. r \notin lost => By(r) = run[r].committed_ids \ run[r].rolled_back
    BY <2>1 DEF Told
  <2> QED
    BY <1>1, <2>1, <2>3, <2>4, <2>5
<1>6. ASSUME NEW r \in Run, Crash(r)
      PROVE  Told'
  <2>1. /\ run'[r].state = "dead" /\ UNCHANGED <<changes, lost>>
        /\ \A q \in Run \ {r} : run'[q] = run[q]
    BY <1>6, AfterCrash
  <2> QED
    BY <2>1 DEF Told, By
<1> QED
  BY <1>0, <1>2, <1>3, <1>4, <1>5, <1>6, Steps DEF OfCommit

\* More ids and more unread groups leave no call uncovered.
LEMMA StillCovered ==
    ASSUME NEW x, NEW y, NEW u, NEW v, x.committed_ids \subseteq y.committed_ids, u \subseteq v,
           NEW t, NEW n
    PROVE  /\ HasCalls(x, u, t, n) => HasCalls(y, v, t, n)
           /\ HasId(x, t) => HasId(y, t)
BY DEF HasCalls, HasId

LEMMA StillComplete ==
    ASSUME NEW x, NEW u, NEW v, u \subseteq v, Complete(x, u)
    PROVE  Complete(x, v)
<1>1. \A t, n : HasCalls(x, u, t, n) => HasCalls(x, v, t, n)
  BY StillCovered
<1> QED
  BY <1>1 DEF Complete

\* The calls up to k of a system are dealt with, and it was complete before.
LEMMA CompletePast ==
    ASSUME NEW x, NEW y, NEW u, NEW k \in Nat, Going(x), Passed(x, y, k),
           x.met = {} => /\ \A t \in ToSet(x.asked) \ ToSet(x.left) :
                               HasCalls(x, u, t, Calls[t]) /\ HasId(x, t)
                         /\ HasCalls(x, u, Head(x.left), k)
    PROVE  Complete(y, u)
<1>1. /\ x.left \in Seq(Target) /\ x.left # <<>>
      /\ ToSet(x.left) = {Head(x.left)} \cup ToSet(Tail(x.left))
  BY Fields, CallCounts DEF Going
<1>2. /\ y.asked = x.asked /\ y.committed_ids = x.committed_ids /\ y.rolled_back = {}
      /\ y.met = {} => x.met = {}
  BY DEF Passed, Request
<1>3. \A t, n : /\ HasCalls(x, u, t, n) => HasCalls(y, u, t, n)
                /\ HasId(x, t) => HasId(y, t)
  BY <1>2, StillCovered
<1>4. CASE y.met # {}
  BY <1>2, <1>4 DEF Complete
<1>5. CASE y.met = {} /\ y.state = "applying" /\ y.left = x.left /\ y.call = k + 1
  <2>1. y.call - 1 = k
    BY <1>5
  <2>2. /\ \A t \in ToSet(y.asked) \ ToSet(y.left) : HasCalls(y, u, t, Calls[t]) /\ HasId(y, t)
        /\ HasCalls(y, u, Head(y.left), y.call - 1)
    BY <1>2, <1>3, <1>5, <2>1
  <2>3. y.state # "done"
    BY <1>5
  <2> QED
    BY <2>2, <2>3, Zenon DEF Complete
<1>6. CASE /\ y.met = {} /\ k = Calls[Head(x.left)] /\ HasId(x, Head(x.left))
           /\ \/ y.state = "applying" /\ y.left = Tail(x.left) /\ y.call = 1
              \/ y.state = "done" /\ Tail(x.left) = <<>>
  <2>1. \A t \in ToSet(x.asked) \ ToSet(Tail(x.left)) : HasCalls(y, u, t, Calls[t]) /\ HasId(y, t)
    BY <1>1, <1>2, <1>3, <1>6
  <2>2. CASE y.state = "applying" /\ y.left = Tail(x.left) /\ y.call = 1
    <3>1. HasCalls(y, u, Head(y.left), y.call - 1)
      BY <2>2 DEF HasCalls
    <3>2. y.state # "done" /\ ToSet(y.asked) \ ToSet(y.left) = ToSet(x.asked) \ ToSet(Tail(x.left))
      BY <1>2, <2>2
    <3> QED
      BY <2>1, <3>1, <3>2, Zenon DEF Complete
  <2>3. CASE y.state = "done" /\ Tail(x.left) = <<>>
    <3>1. ToSet(<<>>) = {}
      <4>1. DOMAIN <<>> = {}
        OBVIOUS
      <4> QED
        BY <4>1, Zenon DEF ToSet
    <3>2. \A t \in ToSet(y.asked) : HasCalls(y, u, t, Calls[t]) /\ HasId(y, t)
      BY <1>2, <2>1, <2>3, <3>1
    <3> QED
      BY <1>2, <2>3, <3>2 DEF Complete
  <2> QED
    BY <1>6, <2>2, <2>3
<1> QED
  BY <1>4, <1>5, <1>6 DEF Passed

LEMMA NextDone ==
    ASSUME TypeOK, Reviewed, Progress, Done, [Next]_vars
    PROVE  Done'
<1>0. CASE UNCHANGED <<run, unread>>
  BY <1>0 DEF Done, Begun, Unread
<1>1. ASSUME NEW r \in Run, \A q \in Run \ {r} : run'[q] = run[q], unread \subseteq unread',
             Complete(run'[r], Unread(r)')
      PROVE  Done'
  <2>1. ASSUME NEW q \in Run, Begun(q)'
        PROVE  Complete(run'[q], Unread(q)')
    <3>1. CASE q # r
      <4>1. Unread(q) \subseteq Unread(q)'
        BY <1>1 DEF Unread
      <4>2. Complete(run[q], Unread(q)) /\ run'[q] = run[q]
        BY <1>1, <2>1, <3>1 DEF Done, Begun
      <4> QED
        BY <4>1, <4>2, StillComplete
    <3> QED
      BY <1>1, <3>1
  <2> QED
    BY <2>1 DEF Done, Begun
<1>2. ASSUME NEW r \in Run, NEW p \in Policy, NEW asked \in Asked,
             NEW on_failure \in OnFailure, NEW o \in Operator,
             Begin(r, p, asked, on_failure, o)
      PROVE  Done'
  <2>1. /\ run'[r].state = "applying" /\ run'[r].left = asked /\ run'[r].asked = asked
        /\ run'[r].call = 1 /\ \A q \in Run \ {r} : run'[q] = run[q]
        /\ UNCHANGED unread
    BY <1>2, AfterBegin
  <2>2. Complete(run'[r], Unread(r)')
    BY <2>1 DEF Complete, HasCalls
  <2> QED
    BY <1>1, <2>1, <2>2
<1>3. ASSUME NEW r \in Run, NoOperation(r) \/ CallFails(r) \/ ReplyLost(r)
      PROVE  Done'
  <2>1. /\ Unlucky(run[r], run'[r]) /\ \A q \in Run \ {r} : run'[q] = run[q]
        /\ UNCHANGED unread
    BY <1>3, AfterFailure
  <2>2. Complete(run'[r], Unread(r)')
    BY <2>1 DEF Unlucky, Complete
  <2> QED
    BY <1>1, <2>1, <2>2
<1>4. ASSUME NEW r \in Run, Answered(r) \/ MembersUnread(r)
      PROVE  Done'
  <2> DEFINE x == run[r]
             t == Head(run[r].left)
  <2>1. PICK z, k :
           /\ Going(x) /\ Going(z) /\ Request(x, z)
           /\ z.left = x.left /\ z.call = x.call /\ z.met = x.met
           /\ k \in Nat /\ Passed(z, run'[r], k)
           /\ \A q \in Run \ {r} : run'[q] = run[q]
           /\ \/ /\ k = x.call /\ z.committed_ids = x.committed_ids \cup {TheChange(r)}
                 /\ UNCHANGED unread
              \/ /\ z.committed_ids = x.committed_ids
                 /\ \E g \in SourceGroups :
                       /\ g.target = t /\ g.first = x.call /\ g.last = k
                       /\ unread' = unread \cup {[by |-> r, group |-> g]}
    BY <1>4, AfterCalls
  <2>2. PICK u : u = Unread(r)'
    OBVIOUS
  <2>3. /\ Unread(r) \subseteq u /\ unread \subseteq unread'
        /\ x.committed_ids \subseteq z.committed_ids
    BY <2>1, <2>2 DEF Unread
  <2>4. TheChange(r).target = t /\ TheChange(r).call = x.call
    BY DEF TheChange
  <2>5. x.call \in Nat \ {0}
    BY <2>1, Fields DEF Going
  <2>6. ASSUME x.met = {}
        PROVE  /\ \A s \in ToSet(z.asked) \ ToSet(z.left) : HasCalls(z, u, s, Calls[s]) /\ HasId(z, s)
               /\ HasCalls(z, u, t, k)
    <3>1. /\ \A s \in ToSet(x.asked) \ ToSet(x.left) :
                HasCalls(x, Unread(r), s, Calls[s]) /\ HasId(x, s)
          /\ HasCalls(x, Unread(r), t, x.call - 1)
      BY <2>1, <2>6 DEF Done, Begun, Going, Complete
    <3>2. \A s, n : /\ HasCalls(x, Unread(r), s, n) => HasCalls(z, u, s, n)
                    /\ HasId(x, s) => HasId(z, s)
      BY <2>3, StillCovered
    <3>3. \A s \in ToSet(z.asked) \ ToSet(z.left) : HasCalls(z, u, s, Calls[s]) /\ HasId(z, s)
      BY <2>1, <3>1, <3>2 DEF Request
    <3>4. ASSUME NEW i \in 1..k
          PROVE  \/ \E c \in z.committed_ids : c.target = t /\ c.call = i
                 \/ \E v \in u : v.group.target = t /\ i \in v.group.first .. v.group.last
      <4>1. CASE i < x.call
        <5>1. HasCalls(z, u, t, x.call - 1) /\ i \in 1..(x.call - 1)
          BY <2>5, <3>1, <3>2, <4>1
        <5> QED
          BY <5>1 DEF HasCalls
      <4>2. CASE ~ (i < x.call) /\ k = x.call /\ TheChange(r) \in z.committed_ids
        <5>1. i = x.call
          BY <2>5, <4>2
        <5> QED
          BY <2>4, <4>2, <5>1
      <4>3. ASSUME NEW g \in SourceGroups, ~ (i < x.call), g.target = t, g.first = x.call,
                   g.last = k, unread' = unread \cup {[by |-> r, group |-> g]}
            PROVE  \E v \in u : v.group.target = t /\ i \in v.group.first .. v.group.last
        <5>1. [by |-> r, group |-> g] \in u
          BY <2>2, <4>3 DEF Unread
        <5>2. i \in g.first .. g.last
          BY <2>1, <2>5, <4>3
        <5> QED
          BY <4>3, <5>1, <5>2
      <4> QED
        BY <2>1, <4>1, <4>2, <4>3
    <3>5. HasCalls(z, u, t, k)
      BY <3>4 DEF HasCalls
    <3> QED
      BY <3>3, <3>5
  <2>7. Complete(run'[r], u)
    BY <2>1, <2>6, CompletePast
  <2> QED
    BY <1>1, <2>1, <2>2, <2>3, <2>7
<1>5. ASSUME NEW r \in Run, RolledBack(r) \/ RollbackFails(r)
      PROVE  Done'
  <2>1. PICK c \in run[r].undo :
           /\ run'[r].state = IF run[r].undo \ {c} = {} THEN "done" ELSE "undoing"
           /\ run'[r].state = "done" => run'[r].status = "rolled_back"
           /\ \A q \in Run \ {r} : run'[q] = run[q]
           /\ UNCHANGED unread
    BY <1>5, AfterUndo
  <2>2. Complete(run'[r], Unread(r)')
    BY <2>1 DEF Complete
  <2> QED
    BY <1>1, <2>1, <2>2
<1>6. ASSUME NEW r \in Run, Crash(r)
      PROVE  Done'
  <2>1. /\ run'[r].state = "dead" /\ \A q \in Run \ {r} : run'[q] = run[q]
        /\ UNCHANGED unread
    BY <1>6, AfterCrash
  <2>2. Complete(run'[r], Unread(r)')
    BY <2>1 DEF Complete
  <2> QED
    BY <1>1, <2>1, <2>2
<1> QED
  BY <1>0, <1>2, <1>3, <1>4, <1>5, <1>6, Steps DEF OfCommit

-------------------------------------------------------------------------------
(* The theorems. *)

\* The strengthening holds at the start, and every step keeps it: the parts
\* about what is changed and reported rest on each other.
THEOREM WriteBackFits == Spec => []WriteBackInv
<1>1. Init => WriteBackInv
  <2> SUFFICES ASSUME Init
               PROVE  WriteBackInv
    OBVIOUS
  <2>1. TypeOK
    BY WriteBackAssumption DEF Init, TypeOK, Waiting
  <2>2. \A r \in Run : run[r].state = "waiting"
    BY DEF Init, Waiting
  <2>3. Reviewed /\ Progress /\ Done
    BY <2>2 DEF Init, Reviewed, Progress, Done, Begun
  <2>4. Kept /\ Told
    BY <2>2 DEF Init, Kept, Told
  <2> QED
    BY <2>1, <2>3, <2>4 DEF WriteBackInv
<1>2. WriteBackInv /\ [Next]_vars => WriteBackInv'
  BY NextTypes, NextProgress, NextReviewed, NextKept, NextTold, NextDone DEF WriteBackInv
<1> QED
  BY <1>1, <1>2, PTL DEF Spec

\* Every variable keeps its type, and only a commit that asked for it rolls
\* back, for any number of commits and systems.
THEOREM TypesKept == Spec => []TypeOK
<1>1. WriteBackInv => TypeOK
  BY DEF WriteBackInv
<1> QED
  BY <1>1, WriteBackFits, PTL

\* Nothing is changed at a system without a dry run by the same operator, for
\* the same policy and systems, that was fresh when the commit came.
THEOREM Review == Spec => []ReviewedBeforeChange
<1>1. WriteBackInv => ReviewedBeforeChange
  <2> SUFFICES ASSUME WriteBackInv, NEW c \in changes
               PROVE  \E v \in previews :
                         /\ v.ir = c.ir /\ v.actor = run[c.by].actor
                         /\ v.scope = ToSet(run[c.by].asked) /\ c.target \in v.scope
                         /\ run[c.by].began \in v.issued_at .. v.issued_at + TTL
    BY DEF ReviewedBeforeChange
  <2>1. /\ c.by \in Run /\ Begun(c.by) /\ c.ir = run[c.by].ir
        /\ c.target \in ToSet(run[c.by].asked)
    BY DEF WriteBackInv, Reviewed, TypeOK, Change
  <2>2. PICK v \in previews : ReviewOf(run[c.by], v)
    BY <2>1 DEF WriteBackInv, Reviewed
  <2> QED
    BY <2>1, <2>2 DEF ReviewOf
<1> QED
  BY <1>1, WriteBackFits, PTL

\* Unless a reply was lost, what a commit reports is what there is.
THEOREM Reports == Spec => []ReportIsTrue
<1>1. WriteBackInv => ReportIsTrue
  BY DEF WriteBackInv, Told, ReportIsTrue
<1> QED
  BY <1>1, WriteBackFits, PTL

\* Unless a reply was lost, a commit taken back in full left nothing, and one
\* that reports success without a warning changed every system and left out no
\* call but those for the members of a group it could not read.
THEOREM NothingByHalves == Spec => []AllOrNothing
<1>1. WriteBackInv => AllOrNothing
  <2> SUFFICES ASSUME WriteBackInv, NEW r \in Run
               PROVE  /\ CleanRollback(r) => By(r) = {}
                      /\ CleanSuccess(r) => \A t \in ToSet(run[r].asked) :
                            /\ \E c \in By(r) : c.target = t
                            /\ \A k \in 1..Calls[t] : Did(r, t, k) \/ LeftOut(r, t, k)
    BY DEF AllOrNothing
  <2>1. r \notin lost /\ run[r].state = "done" => By(r) = run[r].committed_ids \ run[r].rolled_back
    BY DEF WriteBackInv, Told
  <2>2. CleanRollback(r) => By(r) = {}
    BY <2>1 DEF CleanRollback
  <2>3. ASSUME CleanSuccess(r), NEW t \in ToSet(run[r].asked)
        PROVE  /\ \E c \in By(r) : c.target = t
               /\ \A k \in 1..Calls[t] : Did(r, t, k) \/ LeftOut(r, t, k)
    <3>1. Complete(run[r], Unread(r))
      BY <2>3 DEF CleanSuccess, WriteBackInv, Done, Begun
    <3>2. By(r) = run[r].committed_ids
      BY <2>1, <2>3, <3>1 DEF CleanSuccess, Complete
    <3>3. HasCalls(run[r], Unread(r), t, Calls[t]) /\ HasId(run[r], t)
      BY <2>3, <3>1 DEF CleanSuccess, Complete
    <3> QED
      BY <3>2, <3>3 DEF HasCalls, HasId, Unread, Did, LeftOut
  <2> QED
    BY <2>2, <2>3
<1> QED
  BY <1>1, WriteBackFits, PTL
===============================================================================
