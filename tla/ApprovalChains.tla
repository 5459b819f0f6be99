----------------------------- MODULE ApprovalChains -----------------------------
(***************************************************************************)
(* Accepting a risk by a chain of signatures: workflow/approval_chains.py, *)
(* with the acceptance log of reports/risk_acceptance.py that the last     *)
(* signature writes to.                                                    *)
(*                                                                         *)
(* The state of an approval is a fold of its events, which are only ever   *)
(* appended; the acceptance log is one JSON file that every change reads   *)
(* and writes whole.  No lock is held: between the read a call decides by  *)
(* and its writes other calls may come, and the process may die.           *)
(*                                                                         *)
(* An approval carries the steps its chain had when it was started.  An    *)
(* acceptance is named by its approval and its last signer; the expiry     *)
(* dates, the change records and the read-only mode are left out.          *)
(***************************************************************************)
EXTENDS Integers, Sequences, Functions

CONSTANTS
    Approval,       \* approvals that may be started
    Caller,         \* processes and threads that call the module
    ChainOf,        \* the roles of an approval's steps
    HoldersOf,      \* users who hold a role
    MaxCrashes      \* bound on the callers that die

Steps(a) == DOMAIN ChainOf[a]

Step == UNION {Steps(a) : a \in Approval}

Holders(a, step) == HoldersOf[ChainOf[a][step]]

User == UNION Range(HoldersOf)

ASSUME ChainAssumption ==
    /\ ChainOf \in [Approval -> Seq(DOMAIN HoldersOf) \ {<<>>}]
    /\ MaxCrashes \in Nat

Acceptance == [approval : Approval, accepted_by : User]

Event ==
    [event : {"start", "cancel"}]
    \cup [event : {"sign"}, step : Step, user : User, approved : BOOLEAN]

Call ==
    [op : {"none", "expire"}]
    \cup [op : {"cancel"}, approval : Approval]
    \cup [op : {"remove"}, entry : Acceptance]
    \cup [op : {"sign"}, approval : Approval, step : Step, user : User]

NoCall == [op |-> "none"]

VARIABLES
    events,         \* approvals.jsonl: the events of each approval
    acceptances,    \* what a reader finds in risk_acceptance.json
    pc,             \* where a caller is
    call,           \* what it was called for, and what it has decided
    listed,         \* the acceptances it has read
    applied,        \* acceptances that were ever written
    removed,        \* acceptances removed on request
    spoiled,        \* two rewrites of the acceptance log overlapped, or one
                    \* died in the middle
    crashes

vars == <<events, acceptances, pc, call, listed, applied, removed, spoiled, crashes>>

TypeOK ==
    /\ events \in [Approval -> Seq(Event)]
    /\ \A a \in Approval :
          \A i \in DOMAIN events[a] :
              events[a][i].event = "sign" => events[a][i].step \in Steps(a)
    /\ acceptances \subseteq Acceptance
    /\ pc \in [Caller -> {"idle", "listing", "listed", "writing", "appending"}]
    /\ call \in [Caller -> Call]
    /\ listed \in [Caller -> SUBSET Acceptance]
    /\ applied \subseteq Acceptance /\ removed \subseteq Acceptance
    /\ spoiled \in BOOLEAN
    /\ crashes \in 0..MaxCrashes

Init ==
    /\ events = [a \in Approval |-> <<>>]
    /\ acceptances = {}
    /\ pc = [c \in Caller |-> "idle"]
    /\ call = [c \in Caller |-> NoCall]
    /\ listed = [c \in Caller |-> {}]
    /\ applied = {} /\ removed = {} /\ spoiled = FALSE
    /\ crashes = 0

(***************************************************************************)
(* The fold.                                                               *)
(***************************************************************************)
Of(a, kind) == {i \in DOMAIN events[a] : events[a][i].event = kind}

Started(a) == Of(a, "start") # {}

Signed(a, step) == \E i \in Of(a, "sign") : events[a][i].step = step

(* A later decision replaces an earlier one. *)
Status(a) ==
    IF \E i \in Of(a, "sign") : events[a][i].approved /\ \A j \in Of(a, "cancel") : j < i
    THEN "approved"
    ELSE IF Of(a, "cancel") # {} THEN "cancelled"
    ELSE "pending"

Unsigned(a) == {step \in Steps(a) : ~Signed(a, step)}

(***************************************************************************)
(* Calls.                                                                  *)
(***************************************************************************)
Enter(c, new, step) ==
    /\ pc[c] = "idle"
    /\ call' = [call EXCEPT ![c] = new]
    /\ pc' = [pc EXCEPT ![c] = step]

Goto(c, step) == pc' = [pc EXCEPT ![c] = step] /\ UNCHANGED call

Leave(c) ==
    /\ pc' = [pc EXCEPT ![c] = "idle"]
    /\ call' = [call EXCEPT ![c] = NoCall]
    /\ listed' = [listed EXCEPT ![c] = {}]

ghosts == <<applied, removed, spoiled>>

start_approval(a) ==
    /\ ~Started(a)
    /\ events' = [events EXCEPT ![a] = Append(@, [event |-> "start"])]
    /\ UNCHANGED <<acceptances, pc, call, listed, ghosts, crashes>>

\* Defect: any step of the signer's role.
AnyStep(a, step) == step \in Unsigned(a)

(* The step open for signing: the first that is not signed. *)
NextStep(a, step) == step \in Unsigned(a) /\ \A s \in Unsigned(a) : step <= s

IsLast(a, step) == step = Len(ChainOf[a])

\* Defect: the status is not looked at.
PendingAnyway(a) == Started(a)

IsPending(a) == Started(a) /\ Status(a) = "pending"

(* sign_step up to its writes: the last signature applies the acceptance   *)
(* before it is recorded.                                                  *)
sign_step(c, a, step, u) ==
    /\ IsPending(a) /\ NextStep(a, step)
    /\ u \in Holders(a, step)
    /\ Enter(c, [op |-> "sign", approval |-> a, step |-> step, user |-> u],
             IF IsLast(a, step) THEN "listing" ELSE "appending")
    /\ UNCHANGED <<events, acceptances, listed, ghosts, crashes>>

cancel_approval(c, a) ==
    /\ IsPending(a)
    /\ Enter(c, [op |-> "cancel", approval |-> a], "appending")
    /\ UNCHANGED <<events, acceptances, listed, ghosts, crashes>>

(***************************************************************************)
(* The acceptance log: read whole, emptied, written whole.  A log that     *)
(* does not parse reads as empty.                                          *)
(***************************************************************************)
Entry(c) == [approval |-> call[c].approval, accepted_by |-> call[c].user]

\* Defect: the new entry replaces the log.
OnlyNew(c) ==
    IF call[c].op = "sign" THEN {Entry(c)} ELSE {}

NewList(c) ==
    CASE call[c].op = "sign" -> listed[c] \cup {Entry(c)}
      [] call[c].op = "remove" -> listed[c] \ {call[c].entry}
      [] OTHER -> listed[c]

Rewriting(c) == pc[c] \in {"listed", "writing"}

_read_all(c) ==
    /\ listed' = [listed EXCEPT ![c] = acceptances]
    /\ spoiled' = (spoiled \/ \E d \in Caller : Rewriting(d))
    /\ UNCHANGED <<events, acceptances, applied, removed, crashes>>

add_acceptance(c) ==
    /\ pc[c] = "listing"
    /\ Goto(c, "listed")
    /\ _read_all(c)

remove_acceptance(c, e) ==
    /\ e \in acceptances
    /\ Enter(c, [op |-> "remove", entry |-> e], "listed")
    /\ _read_all(c)

(* Marks the entries that are due; the marks are left out. *)
expire(c) ==
    /\ acceptances # {}
    /\ Enter(c, [op |-> "expire"], "listed")
    /\ _read_all(c)

EmptyFile(c) ==
    /\ pc[c] = "listed"
    /\ acceptances' = {}
    /\ Goto(c, "writing")
    /\ UNCHANGED <<events, listed, ghosts, crashes>>

(* Over what another caller has written since, the file may not parse. *)
WriteAcceptances(c) ==
    /\ pc[c] = "writing"
    /\ acceptances' \in {NewList(c)} \cup (IF acceptances # {} THEN { {} } ELSE {})
    /\ IF call[c].op = "sign"
       THEN /\ applied' = applied \cup {Entry(c)}
            /\ removed' = removed \ {Entry(c)}
            /\ Goto(c, "appending")
            /\ UNCHANGED listed
       ELSE /\ removed' = removed \cup (IF call[c].op = "remove" THEN {call[c].entry} ELSE {})
            /\ UNCHANGED applied
            /\ Leave(c)
    /\ UNCHANGED <<events, spoiled, crashes>>

(* The events. *)
\* Defect: steps are numbered from 1 more.
EventOfStepAfter(c) ==
    IF call[c].op = "cancel" THEN [event |-> "cancel"]
    ELSE [event |-> "sign", step |-> call[c].step + 1, user |-> call[c].user,
          approved |-> IsLast(call[c].approval, call[c].step)]

NewEvent(c) ==
    IF call[c].op = "cancel" THEN [event |-> "cancel"]
    ELSE [event |-> "sign", step |-> call[c].step, user |-> call[c].user,
          approved |-> IsLast(call[c].approval, call[c].step)]

\* Defect: the signature is dropped when the approval is decided meanwhile.
AppendIfPending(c) ==
    /\ pc[c] = "appending"
    /\ events' = IF IsPending(call[c].approval)
                 THEN [events EXCEPT ![call[c].approval] = Append(@, NewEvent(c))]
                 ELSE events
    /\ Leave(c)
    /\ UNCHANGED <<acceptances, ghosts, crashes>>

_append_event(c) ==
    /\ pc[c] = "appending"
    /\ events' = [events EXCEPT ![call[c].approval] = Append(@, NewEvent(c))]
    /\ Leave(c)
    /\ UNCHANGED <<acceptances, ghosts, crashes>>

Crash(c) ==
    /\ pc[c] # "idle"
    /\ crashes < MaxCrashes /\ crashes' = crashes + 1
    /\ spoiled' = (spoiled \/ pc[c] = "writing")
    /\ Leave(c)
    /\ UNCHANGED <<events, acceptances, applied, removed>>

-------------------------------------------------------------------------------
Sign(a) ==
    \E c \in Caller, step \in Steps(a), u \in User : sign_step(c, a, step, u)

Proceed(c) ==
    \/ add_acceptance(c) \/ EmptyFile(c) \/ WriteAcceptances(c)
    \/ _append_event(c)

Next ==
    \/ \E a \in Approval :
          \/ start_approval(a)
          \/ Sign(a)
          \/ \E c \in Caller : cancel_approval(c, a)
    \/ \E c \in Caller :
          \/ \E e \in Acceptance : remove_acceptance(c, e)
          \/ expire(c)
          \/ Proceed(c)
          \/ Crash(c)

Spec == Init /\ [][Next]_vars

-------------------------------------------------------------------------------
(* However signatures and cancellations overlap and whoever dies, a risk   *)
(* is accepted only after every other step was signed by a holder of its   *)
(* role, and by a holder of the last one.                                  *)
AcceptedIsSigned ==
    \A e \in applied :
        LET a == e.approval
            last == Len(ChainOf[a]) IN
        /\ e.accepted_by \in Holders(a, last)
        /\ \A step \in Steps(a) \ {last} : \E i \in Of(a, "sign") :
              events[a][i].step = step /\ events[a][i].user \in Holders(a, step)

(* An approval that reads as approved was applied; and when no two         *)
(* rewrites of the log overlapped and none was cut short, its acceptance   *)
(* is still there: "accepted-by-policy means accepted-in-the-acceptance-   *)
(* log" (module text, line 16), for calls made one after the other.        *)
Rewritten == \E c \in Caller : pc[c] = "writing"

ApprovedIsAccepted ==
    \A a \in Approval : Started(a) /\ Status(a) = "approved" =>
        \E e \in applied :
            /\ e.approval = a
            /\ e \in acceptances \cup removed \/ spoiled \/ Rewritten

(* Unless a caller died, every acceptance has its signature on record once *)
(* the call is over, even when a cancellation came in between: the log of  *)
(* acceptances is never ahead of the trail for good.                       *)
AcceptedIsRecorded ==
    \A e \in applied :
        \/ crashes > 0
        \/ \E c \in Caller :
              pc[c] = "appending" /\ call[c].op = "sign" /\ Entry(c) = e
        \/ \E i \in Of(e.approval, "sign") :
              events[e.approval][i].approved /\ events[e.approval][i].user = e.accepted_by

(* Once an approval is decided and no call that read it as pending is left *)
(* in flight, nothing signs it or decides it again: a decision is          *)
(* overturned only by a call that began before it was taken.               *)
InFlight(a) ==
    \E c \in Caller : call[c].op \in {"sign", "cancel"} /\ call[c].approval = a

Settled(a) == Started(a) /\ Status(a) # "pending" /\ ~InFlight(a)

DecisionStands ==
    [][\A a \in Approval :
          Settled(a) => Settled(a)' /\ events'[a] = events[a]]_vars
===============================================================================
