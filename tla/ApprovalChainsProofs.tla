-------------------------- MODULE ApprovalChainsProofs --------------------------
(***************************************************************************)
(* Theorems about ApprovalChains, for every set of approvals and callers,  *)
(* every chain and every assignment of roles: the types; that a risk is    *)
(* accepted only with every signature; that what is accepted is recorded;  *)
(* that what reads as approved was accepted; and that a decision stands.   *)
(***************************************************************************)
EXTENDS ApprovalChains, SequenceTheorems, TLAPS

SignedWell(a, step) ==
    \E i \in Of(a, "sign") :
        events[a][i].step = step /\ events[a][i].user \in Holders(a, step)

\* What a caller was called for fits where it is: a signature in flight is of
\* a step whose predecessors were signed; the log is rewritten for the last.
Fits(c) ==
    /\ pc[c] = "listing" => call[c].op = "sign"
    /\ pc[c] \in {"listed", "writing"} => call[c].op \in {"sign", "remove", "expire"}
    /\ pc[c] = "appending" => call[c].op \in {"sign", "cancel"}
    /\ call[c].op = "sign" =>
          LET a == call[c].approval
              step == call[c].step IN
          /\ step \in Steps(a) /\ call[c].user \in Holders(a, step)
          /\ \A s \in Steps(a) : s < step => SignedWell(a, s)
          /\ pc[c] # "appending" => IsLast(a, step)

CallsFit == \A c \in Caller : Fits(c)

\* Every signature on record is by a holder of the step's role, approves if
\* it is the last, and was then applied before.
EventsFit ==
    \A a \in Approval : \A i \in Of(a, "sign") :
        LET e == events[a][i] IN
        /\ e.step \in Steps(a) /\ e.user \in Holders(a, e.step)
        /\ e.approved <=> IsLast(a, e.step)
        /\ e.approved => [approval |-> a, accepted_by |-> e.user] \in applied

Recording(c, e) ==
    /\ pc[c] = "appending" /\ call[c].op = "sign"
    /\ IsLast(call[c].approval, call[c].step) /\ Entry(c) = e

\* An acceptance is on record, or its caller is about to record it.
AppliedFit ==
    /\ \A c \in Caller :
          pc[c] = "appending" /\ call[c].op = "sign"
          /\ IsLast(call[c].approval, call[c].step) => Entry(c) \in applied
    /\ \A e \in applied :
          \/ crashes > 0
          \/ \E c \in Caller : Recording(c, e)
          \/ \E i \in Of(e.approval, "sign") :
                events[e.approval][i].approved /\ events[e.approval][i].user = e.accepted_by

\* Until two rewrites overlap, what was applied and not removed is in the log,
\* or with the one caller that is writing it.
LogFits ==
    spoiled \/
    /\ \A c, d \in Caller : Rewriting(c) /\ Rewriting(d) => c = d
    /\ \A c \in Caller : pc[c] = "listed" => listed[c] = acceptances
    /\ \A c \in Caller : pc[c] = "writing" =>
          acceptances = {} /\ applied \subseteq listed[c] \cup removed
    /\ Rewritten \/ applied \subseteq acceptances \cup removed

ApprovalInv ==
    TypeOK /\ CallsFit /\ EventsFit /\ AppliedFit /\ LogFits /\ AcceptedIsSigned

-------------------------------------------------------------------------------
(* Types. *)

LEMMA Chains ==
    ASSUME NEW a \in Approval
    PROVE  /\ Steps(a) = 1..Len(ChainOf[a]) /\ Len(ChainOf[a]) \in Nat \ {0}
           /\ Len(ChainOf[a]) \in Steps(a) /\ Steps(a) \subseteq Step
           /\ \A step \in Steps(a) : Holders(a, step) \subseteq User
<1>1. ChainOf[a] \in Seq(DOMAIN HoldersOf) /\ ChainOf[a] # <<>>
  BY ChainAssumption
<1>2. /\ DOMAIN ChainOf[a] = 1..Len(ChainOf[a]) /\ Len(ChainOf[a]) \in Nat \ {0}
      /\ \A step \in 1..Len(ChainOf[a]) : ChainOf[a][step] \in DOMAIN HoldersOf
  BY <1>1, EmptySeq
<1>3. \A x \in DOMAIN HoldersOf : HoldersOf[x] \subseteq User
  BY DEF User, Range
<1> QED
  BY <1>2, <1>3 DEF Steps, Step, Holders

LEMMA Appended ==
    ASSUME NEW s \in Seq(Event), NEW e \in Event
    PROVE  /\ Append(s, e) \in Seq(Event)
           /\ DOMAIN s \subseteq DOMAIN Append(s, e) /\ Len(s) + 1 \in DOMAIN Append(s, e)
           /\ Append(s, e)[Len(s) + 1] = e
           /\ \A i \in DOMAIN s : Append(s, e)[i] = s[i]
           /\ \A i \in DOMAIN Append(s, e) : i \in DOMAIN s \/ i = Len(s) + 1
BY AppendProperties

\* The caller's new event is one.
LEMMA NewEvents ==
    ASSUME TypeOK, CallsFit, NEW c \in Caller, pc[c] = "appending"
    PROVE  /\ call[c].approval \in Approval /\ NewEvent(c) \in Event
           /\ NewEvent(c).event = call[c].op /\ call[c].op \in {"sign", "cancel"}
           /\ call[c].op = "sign" =>
                 /\ NewEvent(c).step = call[c].step /\ NewEvent(c).user = call[c].user
                 /\ NewEvent(c).approved <=> IsLast(call[c].approval, call[c].step)
                 /\ call[c].step \in Steps(call[c].approval)
                 /\ call[c].user \in Holders(call[c].approval, call[c].step)
<1>1. call[c] \in Call /\ call[c].op \in {"sign", "cancel"}
  BY DEF TypeOK, CallsFit, Fits
<1>2. CASE call[c].op = "cancel"
  BY <1>1, <1>2 DEF Call, NewEvent, Event
<1>3. CASE call[c].op = "sign"
  <2>1. call[c].approval \in Approval /\ call[c].step \in Step /\ call[c].user \in User
    BY <1>1, <1>3 DEF Call
  <2>2. IsLast(call[c].approval, call[c].step) \in BOOLEAN
    BY DEF IsLast
  <2>3. NewEvent(c) = [event |-> "sign", step |-> call[c].step, user |-> call[c].user,
                       approved |-> IsLast(call[c].approval, call[c].step)]
    BY <1>3 DEF NewEvent
  <2> HIDE DEF IsLast
  <2>4. NewEvent(c) \in Event
    BY <2>1, <2>2, <2>3 DEF Event
  <2>5. /\ call[c].step \in Steps(call[c].approval)
        /\ call[c].user \in Holders(call[c].approval, call[c].step)
    BY <1>3 DEF CallsFit, Fits
  <2> QED
    BY <1>3, <2>1, <2>3, <2>4, <2>5
<1> QED
  BY <1>1, <1>2, <1>3

\* The entry of a caller that signs, and the list it writes.
LEMMA Entries ==
    ASSUME TypeOK, CallsFit, NEW c \in Caller
    PROVE  /\ call[c].op = "sign" => Entry(c) \in Acceptance
           /\ call[c].op = "remove" => call[c].entry \in Acceptance
           /\ pc[c] = "writing" => NewList(c) \subseteq Acceptance
<1>1. call[c] \in Call /\ listed[c] \subseteq Acceptance
  BY DEF TypeOK
<1>2. call[c].op = "sign" => Entry(c) \in Acceptance
  BY <1>1 DEF Call, Entry, Acceptance
<1>3. call[c].op = "remove" => call[c].entry \in Acceptance
  BY <1>1 DEF Call
<1> QED
  BY <1>1, <1>2, <1>3 DEF NewList

\* The events of a call are those of the others and one more of its approval.
LEMMA EventTypes ==
    ASSUME TypeOK, NEW a \in Approval, NEW e \in Event,
           e.event = "sign" => e.step \in Steps(a),
           events' = [events EXCEPT ![a] = Append(@, e)]
    PROVE  /\ events' \in [Approval -> Seq(Event)]
           /\ \A b \in Approval :
                 \A i \in DOMAIN events'[b] :
                     events'[b][i].event = "sign" => events'[b][i].step \in Steps(b)
           /\ \A b \in Approval \ {a} : events'[b] = events[b]
           /\ DOMAIN events[a] \subseteq DOMAIN events'[a]
           /\ \A i \in DOMAIN events[a] : events'[a][i] = events[a][i]
           /\ Len(events[a]) + 1 \in DOMAIN events'[a]
           /\ events'[a][Len(events[a]) + 1] = e
           /\ \A i \in DOMAIN events'[a] : i \in DOMAIN events[a] \/ i = Len(events[a]) + 1
<1>1. events[a] \in Seq(Event) /\ events'[a] = Append(events[a], e)
      /\ \A b \in Approval \ {a} : events'[b] = events[b]
  BY DEF TypeOK
<1>2. events'[a] \in Seq(Event)
  BY <1>1, Appended
<1>3. events' \in [Approval -> Seq(Event)]
  BY <1>1, <1>2 DEF TypeOK
<1>4. /\ DOMAIN events[a] \subseteq DOMAIN events'[a]
      /\ \A i \in DOMAIN events[a] : events'[a][i] = events[a][i]
      /\ Len(events[a]) + 1 \in DOMAIN events'[a]
      /\ events'[a][Len(events[a]) + 1] = e
      /\ \A i \in DOMAIN events'[a] : i \in DOMAIN events[a] \/ i = Len(events[a]) + 1
  BY <1>1, Appended
<1>5. ASSUME NEW b \in Approval, NEW i \in DOMAIN events'[b], events'[b][i].event = "sign"
      PROVE  events'[b][i].step \in Steps(b)
  <2>1. CASE b # a
    BY <1>1, <1>5, <2>1 DEF TypeOK
  <2>2. CASE b = a
    BY <1>4, <1>5, <2>2 DEF TypeOK
  <2> QED
    BY <2>1, <2>2
<1> QED
  BY <1>1, <1>3, <1>4, <1>5

LEMMA CallTypes ==
    ASSUME TypeOK, NEW c \in Caller,
           \/ \E new \in Call, step \in {"listing", "listed", "appending"} : Enter(c, new, step)
           \/ \E step \in {"listed", "writing", "appending"} : Goto(c, step)
           \/ Leave(c)
    PROVE  /\ pc' \in [Caller -> {"idle", "listing", "listed", "writing", "appending"}]
           /\ call' \in [Caller -> Call]
<1>1. NoCall \in Call
  BY DEF NoCall, Call
<1> QED
  BY <1>1 DEF TypeOK, Enter, Goto, Leave

LEMMA NextTypes ==
    ASSUME TypeOK, CallsFit, [Next]_vars
    PROVE  TypeOK'
<1>1. ASSUME NEW a \in Approval, start_approval(a)
      PROVE  TypeOK'
  <2>1. [event |-> "start"] \in Event /\ [event |-> "start"].event # "sign"
    BY DEF Event
  <2>2. /\ events' = [events EXCEPT ![a] = Append(@, [event |-> "start"])]
        /\ UNCHANGED <<acceptances, pc, call, listed, ghosts, crashes>>
    BY <1>1 DEF start_approval
  <2>3. /\ events' \in [Approval -> Seq(Event)]
        /\ \A b \in Approval :
              \A i \in DOMAIN events'[b] :
                  events'[b][i].event = "sign" => events'[b][i].step \in Steps(b)
    BY <2>1, <2>2, EventTypes
  <2> QED
    BY <2>2, <2>3 DEF TypeOK, ghosts
<1>2. ASSUME NEW a \in Approval, NEW c \in Caller, NEW step \in Steps(a), NEW u \in User,
             sign_step(c, a, step, u)
      PROVE  TypeOK'
  <2>1. [op |-> "sign", approval |-> a, step |-> step, user |-> u] \in Call
    BY Chains DEF Call
  <2>2. \E new \in Call, s \in {"listing", "listed", "appending"} : Enter(c, new, s)
    BY <1>2, <2>1 DEF sign_step
  <2> QED
    BY <1>2, <2>2, CallTypes DEF sign_step, TypeOK, ghosts
<1>3. ASSUME NEW a \in Approval, NEW c \in Caller, cancel_approval(c, a)
      PROVE  TypeOK'
  <2>1. [op |-> "cancel", approval |-> a] \in Call
    BY DEF Call
  <2>2. \E new \in Call, s \in {"listing", "listed", "appending"} : Enter(c, new, s)
    BY <1>3, <2>1 DEF cancel_approval
  <2> QED
    BY <1>3, <2>2, CallTypes DEF cancel_approval, TypeOK, ghosts
<1>4. ASSUME NEW c \in Caller,
             \/ add_acceptance(c) \/ expire(c)
             \/ \E e \in Acceptance : remove_acceptance(c, e)
      PROVE  TypeOK'
  <2>1. [op |-> "expire"] \in Call /\ \A e \in Acceptance : [op |-> "remove", entry |-> e] \in Call
    BY DEF Call
  <2>2. \/ \E new \in Call, s \in {"listing", "listed", "appending"} : Enter(c, new, s)
        \/ \E s \in {"listed", "writing", "appending"} : Goto(c, s)
    BY <1>4, <2>1 DEF add_acceptance, expire, remove_acceptance
  <2>3. _read_all(c)
    BY <1>4 DEF add_acceptance, expire, remove_acceptance
  <2>4. spoiled' \in BOOLEAN
    BY <2>3 DEF _read_all
  <2> QED
    BY <2>2, <2>3, <2>4, CallTypes DEF _read_all, TypeOK
<1>5. ASSUME NEW c \in Caller, EmptyFile(c)
      PROVE  TypeOK'
  BY <1>5, CallTypes DEF EmptyFile, TypeOK, ghosts
<1>6. ASSUME NEW c \in Caller, WriteAcceptances(c)
      PROVE  TypeOK'
  <2>1. /\ pc[c] = "writing" /\ UNCHANGED <<events, spoiled, crashes>>
        /\ acceptances' \in {NewList(c), {}}
        /\ Goto(c, "appending") \/ Leave(c)
    BY <1>6 DEF WriteAcceptances
  <2>2. acceptances' \subseteq Acceptance
    BY <2>1, Entries
  <2>3. applied' \subseteq Acceptance /\ removed' \subseteq Acceptance
    BY <1>6, Entries DEF WriteAcceptances, TypeOK
  <2>4. listed' \in [Caller -> SUBSET Acceptance]
    BY <1>6 DEF WriteAcceptances, Leave, TypeOK
  <2> QED
    BY <2>1, <2>2, <2>3, <2>4, CallTypes DEF TypeOK
<1>7. ASSUME NEW c \in Caller, _append_event(c)
      PROVE  TypeOK'
  <2>1. /\ pc[c] = "appending" /\ Leave(c) /\ UNCHANGED <<acceptances, ghosts, crashes>>
        /\ events' = [events EXCEPT ![call[c].approval] = Append(@, NewEvent(c))]
    BY <1>7 DEF _append_event
  <2>2. /\ events' \in [Approval -> Seq(Event)]
        /\ \A b \in Approval :
              \A i \in DOMAIN events'[b] :
                  events'[b][i].event = "sign" => events'[b][i].step \in Steps(b)
    BY <2>1, NewEvents, EventTypes
  <2>3. listed' \in [Caller -> SUBSET Acceptance]
    BY <2>1 DEF Leave, TypeOK
  <2> QED
    BY <2>1, <2>2, <2>3, CallTypes DEF TypeOK, ghosts
<1>8. ASSUME NEW c \in Caller, Crash(c)
      PROVE  TypeOK'
  <2>1. crashes' \in 0..MaxCrashes /\ spoiled' \in BOOLEAN
    BY <1>8, ChainAssumption DEF Crash, TypeOK
  <2>2. listed' \in [Caller -> SUBSET Acceptance]
    BY <1>8 DEF Crash, Leave, TypeOK
  <2> QED
    BY <1>8, <2>1, <2>2, CallTypes DEF Crash, TypeOK
<1>9. CASE UNCHANGED vars
  BY <1>9 DEF vars, TypeOK
<1> QED
  BY <1>1, <1>2, <1>3, <1>4, <1>5, <1>6, <1>7, <1>8, <1>9 DEF Next, Sign, Proceed

-------------------------------------------------------------------------------
(* Calls and events. *)

LEMMA EventsGrow ==
    ASSUME TypeOK, CallsFit, [Next]_vars, NEW a \in Approval
    PROVE  \A i \in DOMAIN events[a] : i \in DOMAIN events'[a] /\ events'[a][i] = events[a][i]
<1>1. ASSUME NEW b \in Approval, start_approval(b)
      PROVE  \A i \in DOMAIN events[a] : i \in DOMAIN events'[a] /\ events'[a][i] = events[a][i]
  <2>1. [event |-> "start"] \in Event /\ [event |-> "start"].event # "sign"
    BY DEF Event
  <2>2. events' = [events EXCEPT ![b] = Append(@, [event |-> "start"])]
    BY <1>1 DEF start_approval
  <2>3. /\ a # b => events'[a] = events[a]
        /\ DOMAIN events[b] \subseteq DOMAIN events'[b]
        /\ \A i \in DOMAIN events[b] : events'[b][i] = events[b][i]
    BY <2>1, <2>2, EventTypes
  <2> QED
    BY <2>3
<1>2. ASSUME NEW c \in Caller, _append_event(c)
      PROVE  \A i \in DOMAIN events[a] : i \in DOMAIN events'[a] /\ events'[a][i] = events[a][i]
  <2>1. /\ pc[c] = "appending"
        /\ events' = [events EXCEPT ![call[c].approval] = Append(@, NewEvent(c))]
    BY <1>2 DEF _append_event
  <2> DEFINE b == call[c].approval
  <2>2. b \in Approval /\ NewEvent(c) \in Event
        /\ (NewEvent(c).event = "sign" => NewEvent(c).step \in Steps(b))
    BY <2>1, NewEvents
  <2>3. events' = [events EXCEPT ![b] = Append(@, NewEvent(c))]
    BY <2>1
  <2> HIDE DEF b
  <2>4. /\ a # b => events'[a] = events[a]
        /\ DOMAIN events[b] \subseteq DOMAIN events'[b]
        /\ \A i \in DOMAIN events[b] : events'[b][i] = events[b][i]
    BY <2>2, <2>3, EventTypes
  <2> QED
    BY <2>4
<1>3. (~ \E b \in Approval : start_approval(b)) /\ (~ \E c \in Caller : _append_event(c))
         => UNCHANGED events
  BY DEF Next, vars, Sign, Proceed, sign_step, cancel_approval, remove_acceptance, expire,
         add_acceptance, _read_all, EmptyFile, WriteAcceptances, Crash
<1> QED
  BY <1>1, <1>2, <1>3

\* A signature on record stays there.
LEMMA StaysSigned ==
    ASSUME TypeOK, CallsFit, [Next]_vars, NEW a \in Approval, NEW s, SignedWell(a, s)
    PROVE  SignedWell(a, s)'
BY EventsGrow DEF SignedWell, Of

\* A caller that does nothing fits as before.
LEMMA OthersFit ==
    ASSUME TypeOK, CallsFit, [Next]_vars, NEW d \in Caller,
           call'[d] = call[d], pc'[d] = pc[d] \/ (pc'[d] = "appending" /\ call[d].op = "sign")
    PROVE  Fits(d)'
<1>1. Fits(d) /\ call[d] \in Call
  BY DEF CallsFit, TypeOK
<1>2. CASE call[d].op # "sign"
  BY <1>1, <1>2 DEF Fits
<1>3. CASE call[d].op = "sign"
  <2>1. PICK a \in Approval : call[d].approval = a
    BY <1>1, <1>3 DEF Call
  <2>2. \A s \in Steps(a) : SignedWell(a, s) => SignedWell(a, s)'
    BY StaysSigned
  <2>3. call'[d].approval = a /\ call'[d].op = "sign" /\ call'[d].step = call[d].step
    BY <1>3, <2>1
  <2>4. \A s \in Steps(a) : s < call[d].step => SignedWell(a, s)'
    BY <1>1, <1>3, <2>1, <2>2 DEF Fits
  <2> QED
    BY <1>1, <1>3, <2>1, <2>3, <2>4 DEF Fits, IsLast, Steps, Holders, SignedWell, Of
<1> QED
  BY <1>2, <1>3

LEMMA NextCalls ==
    ASSUME TypeOK, CallsFit, EventsFit, [Next]_vars
    PROVE  CallsFit'
<1>1. ASSUME NEW a \in Approval, start_approval(a)
      PROVE  CallsFit'
  BY <1>1, OthersFit DEF start_approval, CallsFit
<1>2. ASSUME NEW a \in Approval, NEW c \in Caller, NEW step \in Steps(a), NEW u \in User,
             sign_step(c, a, step, u)
      PROVE  CallsFit'
  <2> DEFINE new == [op |-> "sign", approval |-> a, step |-> step, user |-> u]
  <2>1. /\ call' = [call EXCEPT ![c] = new] /\ UNCHANGED events
        /\ pc' = [pc EXCEPT ![c] = IF IsLast(a, step) THEN "listing" ELSE "appending"]
        /\ u \in Holders(a, step) /\ NextStep(a, step)
    BY <1>2 DEF sign_step, Enter
  <2>2. ASSUME NEW s \in Steps(a), s < step
        PROVE  SignedWell(a, s)'
    <3>1. s \in Int /\ step \in Int
      BY Chains
    <3>2. Signed(a, s)
      BY <2>1, <2>2, <3>1 DEF NextStep, Unsigned
    <3>3. SignedWell(a, s)
      BY <3>2 DEF Signed, SignedWell, EventsFit
    <3> QED
      BY <3>3, StaysSigned
  <2>3. Fits(c)'
    <3>1. call'[c] = new /\ pc'[c] = IF IsLast(a, step) THEN "listing" ELSE "appending"
      BY <2>1 DEF TypeOK
    <3> HIDE DEF SignedWell
    <3> QED
      BY <2>1, <2>2, <3>1 DEF Fits, Steps, Holders, IsLast
  <2>4. \A d \in Caller \ {c} : call'[d] = call[d] /\ pc'[d] = pc[d]
    BY <2>1 DEF TypeOK
  <2> QED
    BY <2>3, <2>4, OthersFit DEF CallsFit
<1>3. ASSUME NEW c \in Caller,
             \/ \E a \in Approval : cancel_approval(c, a)
             \/ \E e \in Acceptance : remove_acceptance(c, e)
             \/ expire(c)
      PROVE  CallsFit'
  <2>1. \/ /\ call'[c].op = "cancel" /\ pc'[c] = "appending"
        \/ /\ call'[c].op \in {"remove", "expire"} /\ pc'[c] = "listed"
    BY <1>3 DEF cancel_approval, remove_acceptance, expire, Enter, TypeOK
  <2>2. Fits(c)'
    BY <2>1 DEF Fits
  <2>3. \A d \in Caller \ {c} : call'[d] = call[d] /\ pc'[d] = pc[d]
    BY <1>3 DEF cancel_approval, remove_acceptance, expire, Enter, TypeOK
  <2> QED
    BY <2>2, <2>3, OthersFit DEF CallsFit
<1>4. ASSUME NEW c \in Caller, add_acceptance(c) \/ EmptyFile(c)
      PROVE  CallsFit'
  <2>1. /\ \/ pc[c] = "listing" /\ pc'[c] = "listed"
           \/ pc[c] = "listed" /\ pc'[c] = "writing"
        /\ UNCHANGED <<call, events>>
        /\ \A d \in Caller \ {c} : pc'[d] = pc[d]
    BY <1>4 DEF add_acceptance, _read_all, EmptyFile, Goto, TypeOK
  <2>2. Fits(c)
    BY DEF CallsFit
  <2>3. Fits(c)'
    BY <2>1, <2>2 DEF Fits, SignedWell, Of
  <2> QED
    BY <2>1, <2>3, OthersFit DEF CallsFit
<1>5. ASSUME NEW c \in Caller, WriteAcceptances(c), call[c].op = "sign"
      PROVE  CallsFit'
  <2>1. UNCHANGED call /\ pc' = [pc EXCEPT ![c] = "appending"]
    BY <1>5 DEF WriteAcceptances, Goto
  <2>2. \A d \in Caller : pc'[d] = pc[d] \/ (pc'[d] = "appending" /\ call[d].op = "sign")
    BY <1>5, <2>1 DEF TypeOK
  <2> QED
    BY <2>1, <2>2, OthersFit DEF CallsFit
<1>6. ASSUME NEW c \in Caller, Leave(c)
      PROVE  CallsFit'
  <2>1. /\ call'[c] = NoCall /\ pc'[c] = "idle"
        /\ \A d \in Caller \ {c} : call'[d] = call[d] /\ pc'[d] = pc[d]
    BY <1>6 DEF Leave, TypeOK
  <2>2. Fits(c)'
    BY <2>1 DEF Fits, NoCall
  <2> QED
    BY <2>1, <2>2, OthersFit DEF CallsFit
<1>7. CASE UNCHANGED vars
  BY <1>7, OthersFit DEF vars, CallsFit
<1>8. ASSUME NEW c \in Caller, WriteAcceptances(c) \/ _append_event(c) \/ Crash(c)
      PROVE  Leave(c) \/ (WriteAcceptances(c) /\ call[c].op = "sign")
  BY <1>8 DEF WriteAcceptances, _append_event, Crash
<1> QED
  BY <1>1, <1>2, <1>3, <1>4, <1>5, <1>6, <1>7, <1>8 DEF Next, Sign, Proceed

-------------------------------------------------------------------------------
(* What is on record, and what was applied. *)

LEMMA AppliedGrows ==
    ASSUME [Next]_vars
    PROVE  /\ applied \subseteq applied' /\ crashes' \in {crashes, crashes + 1}
           /\ \A e \in applied' \ applied : \E c \in Caller :
                 WriteAcceptances(c) /\ call[c].op = "sign" /\ e = Entry(c)
BY DEF Next, vars, Sign, Proceed, ghosts, start_approval, sign_step, cancel_approval,
       remove_acceptance, expire, add_acceptance, _read_all, EmptyFile, WriteAcceptances,
       _append_event, Crash

LEMMA NextEvents ==
    ASSUME TypeOK, CallsFit, EventsFit, AppliedFit, [Next]_vars
    PROVE  EventsFit'
<1> SUFFICES ASSUME NEW b \in Approval, NEW i \in DOMAIN events'[b],
                    events'[b][i].event = "sign"
             PROVE  LET e == events'[b][i] IN
                    /\ e.step \in Steps(b) /\ e.user \in Holders(b, e.step)
                    /\ e.approved <=> IsLast(b, e.step)
                    /\ e.approved => [approval |-> b, accepted_by |-> e.user] \in applied'
  BY DEF EventsFit, Of, Steps, Holders, IsLast
<1>1. applied \subseteq applied'
  BY AppliedGrows
<1>2. CASE i \in DOMAIN events[b]
  BY <1>1, <1>2, EventsGrow DEF EventsFit, Of
<1>3. CASE i \notin DOMAIN events[b]
  <2>1. ASSUME NEW a \in Approval, start_approval(a)
        PROVE  FALSE
    <3>1. [event |-> "start"] \in Event /\ [event |-> "start"].event # "sign"
      BY DEF Event
    <3>2. events' = [events EXCEPT ![a] = Append(@, [event |-> "start"])]
      BY <2>1 DEF start_approval
    <3>3. /\ \A x \in Approval \ {a} : events'[x] = events[x]
          /\ events'[a][Len(events[a]) + 1] = [event |-> "start"]
          /\ \A j \in DOMAIN events'[a] : j \in DOMAIN events[a] \/ j = Len(events[a]) + 1
      BY <3>1, <3>2, EventTypes
    <3> QED
      BY <1>3, <3>1, <3>3
  <2>2. PICK c \in Caller : _append_event(c)
    BY <1>3, <2>1 DEF Next, vars, Sign, Proceed, sign_step, cancel_approval,
       remove_acceptance, expire, add_acceptance, _read_all, EmptyFile, WriteAcceptances, Crash
  <2>3. /\ pc[c] = "appending"
        /\ events' = [events EXCEPT ![call[c].approval] = Append(@, NewEvent(c))]
    BY <2>2 DEF _append_event
  <2>4. PICK a \in Approval : call[c].approval = a
    BY <2>3, NewEvents
  <2>5. /\ \A x \in Approval \ {a} : events'[x] = events[x]
        /\ events'[a][Len(events[a]) + 1] = NewEvent(c)
        /\ \A j \in DOMAIN events'[a] : j \in DOMAIN events[a] \/ j = Len(events[a]) + 1
    <3>1. NewEvent(c) \in Event /\ (NewEvent(c).event = "sign" => NewEvent(c).step \in Steps(a))
      BY <2>3, <2>4, NewEvents
    <3>2. events' = [events EXCEPT ![a] = Append(@, NewEvent(c))]
      BY <2>3, <2>4
    <3> QED
      BY <3>1, <3>2, EventTypes
  <2>6. b = a /\ events'[b][i] = NewEvent(c) /\ call[c].op = "sign"
    <3>1. b = a
      BY <1>3, <2>5
    <3>2. events'[b][i] = NewEvent(c)
      BY <1>3, <2>5, <3>1
    <3>3. NewEvent(c).event = call[c].op
      BY <2>3, NewEvents
    <3> QED
      BY <3>1, <3>2, <3>3
  <2>7. /\ NewEvent(c).step = call[c].step /\ NewEvent(c).user = call[c].user
        /\ NewEvent(c).approved <=> IsLast(a, call[c].step)
        /\ call[c].step \in Steps(a) /\ call[c].user \in Holders(a, call[c].step)
    BY <2>3, <2>4, <2>6, NewEvents
  <2>8. IsLast(a, call[c].step) => [approval |-> a, accepted_by |-> call[c].user] \in applied
    BY <2>3, <2>4, <2>6 DEF AppliedFit, Entry
  <2> HIDE DEF IsLast, Steps, Holders
  <2> QED
    BY <1>1, <2>6, <2>7, <2>8
<1> QED
  BY <1>2, <1>3

\* A risk is accepted with every signature.
LEMMA NextSigned ==
    ASSUME TypeOK, CallsFit, AcceptedIsSigned, [Next]_vars
    PROVE  AcceptedIsSigned'
<1> SUFFICES ASSUME NEW e \in applied'
             PROVE  LET a == e.approval
                        last == Len(ChainOf[a]) IN
                    /\ e.accepted_by \in Holders(a, last)
                    /\ \A step \in Steps(a) \ {last} : SignedWell(a, step)'
  BY DEF AcceptedIsSigned, SignedWell, Steps, Holders
<1> DEFINE a == e.approval
<1>1. CASE e \in applied
  <2>1. a \in Approval
    BY <1>1 DEF TypeOK, Acceptance
  <2>2. /\ e.accepted_by \in Holders(a, Len(ChainOf[a]))
        /\ \A step \in Steps(a) \ {Len(ChainOf[a])} : SignedWell(a, step)
    BY <1>1 DEF AcceptedIsSigned, SignedWell
  <2> HIDE DEF a
  <2>3. \A step \in Steps(a) \ {Len(ChainOf[a])} : SignedWell(a, step)'
    BY <2>1, <2>2, StaysSigned
  <2> QED
    BY <2>2, <2>3 DEF a
<1>2. CASE e \notin applied
  <2>1. PICK c \in Caller : WriteAcceptances(c) /\ call[c].op = "sign" /\ e = Entry(c)
    BY <1>2, AppliedGrows
  <2>2. PICK b \in Approval : call[c].approval = b
    BY <2>1 DEF TypeOK, Call
  <2>3. /\ a = b /\ e.accepted_by = call[c].user /\ UNCHANGED events
        /\ pc[c] = "writing"
    BY <2>1, <2>2 DEF Entry, WriteAcceptances
  <2>4. Fits(c)
    BY DEF CallsFit
  <2>5. /\ call[c].step = Len(ChainOf[b]) /\ call[c].user \in Holders(b, call[c].step)
        /\ \A s \in Steps(b) : s < call[c].step => SignedWell(b, s)
    BY <2>1, <2>2, <2>3, <2>4 DEF Fits, IsLast
  <2>6. \A s \in Steps(b) \ {Len(ChainOf[b])} : SignedWell(b, s)
    <3>1. \A s \in Steps(b) \ {Len(ChainOf[b])} : s < Len(ChainOf[b])
      BY Chains
    <3> QED
      BY <2>5, <3>1
  <2>7. \A s \in Steps(b) \ {Len(ChainOf[b])} : SignedWell(b, s)'
    BY <2>6, StaysSigned
  <2> QED
    BY <2>3, <2>5, <2>7
<1> QED
  BY <1>1, <1>2

\* What is applied is recorded next.
LEMMA NextApplied ==
    ASSUME TypeOK, CallsFit, AppliedFit, [Next]_vars
    PROVE  AppliedFit'
<1>1. applied \subseteq applied' /\ crashes' \in {crashes, crashes + 1} /\ crashes \in Nat
  BY AppliedGrows, ChainAssumption DEF TypeOK
<1>2. ASSUME NEW d \in Caller, pc'[d] = "appending", call'[d].op = "sign",
             IsLast(call'[d].approval, call'[d].step)
      PROVE  Entry(d)' \in applied'
  <2>1. CASE pc[d] = "appending" /\ call'[d] = call[d]
    BY <1>1, <1>2, <2>1 DEF AppliedFit, Entry
  <2>2. CASE WriteAcceptances(d) /\ call[d].op = "sign"
    BY <2>2 DEF WriteAcceptances, Goto, Entry
  <2>3. ASSUME NEW c \in Caller, c # d,
               \/ \E a \in Approval : \E step \in Steps(a), u \in User : sign_step(c, a, step, u)
               \/ \E a \in Approval : cancel_approval(c, a)
               \/ \E e \in Acceptance : remove_acceptance(c, e)
               \/ expire(c) \/ Proceed(c) \/ Crash(c)
        PROVE  pc[d] = "appending" /\ call'[d] = call[d]
    BY <1>2, <2>3 DEF sign_step, cancel_approval, remove_acceptance, expire, Proceed,
       add_acceptance, EmptyFile, WriteAcceptances, _append_event, Crash, Enter, Goto, Leave,
       TypeOK
  <2>4. ASSUME NEW a \in Approval, NEW step \in Steps(a), NEW u \in User,
               sign_step(d, a, step, u)
        PROVE  FALSE
    <3>1. /\ call'[d] = [op |-> "sign", approval |-> a, step |-> step, user |-> u]
          /\ pc'[d] = IF IsLast(a, step) THEN "listing" ELSE "appending"
      BY <2>4 DEF sign_step, Enter, TypeOK
    <3> HIDE DEF IsLast
    <3> QED
      BY <1>2, <3>1
  <2>5. ~ \/ \E a \in Approval : cancel_approval(d, a)
          \/ \E e \in Acceptance : remove_acceptance(d, e)
          \/ expire(d) \/ add_acceptance(d) \/ EmptyFile(d)
          \/ (WriteAcceptances(d) /\ call[d].op # "sign")
          \/ _append_event(d) \/ Crash(d)
    BY <1>2 DEF cancel_approval, remove_acceptance, expire, add_acceptance, EmptyFile,
       WriteAcceptances, _append_event, Crash, Enter, Goto, Leave, TypeOK
  <2>6. ASSUME UNCHANGED vars \/ \E a \in Approval : start_approval(a)
        PROVE  pc[d] = "appending" /\ call'[d] = call[d]
    BY <1>2, <2>6 DEF vars, start_approval
  <2> QED
    BY <2>1, <2>2, <2>3, <2>4, <2>5, <2>6 DEF Next, Sign, Proceed
<1>3. ASSUME NEW e \in applied', crashes' = 0
      PROVE  \/ \E c \in Caller : Recording(c, e)'
             \/ \E i \in Of(e.approval, "sign")' :
                   events'[e.approval][i].approved
                   /\ events'[e.approval][i].user = e.accepted_by
  <2>1. CASE e \notin applied
    <3>1. PICK c \in Caller : WriteAcceptances(c) /\ call[c].op = "sign" /\ e = Entry(c)
      BY <2>1, AppliedGrows
    <3>2. /\ pc[c] = "writing" /\ UNCHANGED call /\ pc'[c] = "appending"
      BY <3>1 DEF WriteAcceptances, Goto, TypeOK
    <3>3. IsLast(call[c].approval, call[c].step)
      BY <3>1, <3>2 DEF CallsFit, Fits
    <3>4. Recording(c, e)'
      BY <3>1, <3>2, <3>3 DEF Recording, Entry, IsLast
    <3> QED
      BY <3>4
  <2>2. CASE e \in applied /\ \E i \in Of(e.approval, "sign") :
                events[e.approval][i].approved /\ events[e.approval][i].user = e.accepted_by
    <3>1. e.approval \in Approval
      BY <2>2 DEF TypeOK, Acceptance
    <3> QED
      BY <2>2, <3>1, EventsGrow DEF Of
  <2>3. CASE e \in applied /\ \E c \in Caller : Recording(c, e)
    <3>1. PICK c \in Caller : Recording(c, e)
      BY <2>3
    <3>2. CASE call'[c] = call[c] /\ pc'[c] = "appending"
      BY <3>1, <3>2 DEF Recording, Entry, IsLast
    <3>3. CASE _append_event(c)
      <4>1. PICK a \in Approval : call[c].approval = a
        BY <3>1 DEF Recording, TypeOK, Call
      <4>2. /\ NewEvent(c) \in Event /\ NewEvent(c).event = "sign"
            /\ NewEvent(c).step \in Steps(a)
            /\ NewEvent(c).approved /\ NewEvent(c).user = call[c].user
        BY <3>1, <4>1, NewEvents DEF Recording
      <4>3. events' = [events EXCEPT ![a] = Append(@, NewEvent(c))]
        BY <3>3, <4>1 DEF _append_event
      <4>4. /\ Len(events[a]) + 1 \in DOMAIN events'[a]
            /\ events'[a][Len(events[a]) + 1] = NewEvent(c)
        BY <4>2, <4>3, EventTypes
      <4>5. e.approval = a /\ e.accepted_by = call[c].user
        BY <3>1, <4>1 DEF Recording, Entry
      <4> QED
        BY <4>2, <4>4, <4>5 DEF Of
    <3>4. CASE Crash(c)
      BY <1>1, <1>3, <3>4 DEF Crash
    <3>5. ASSUME NEW d \in Caller, c # d,
                 \/ \E a \in Approval : \E step \in Steps(a), u \in User : sign_step(d, a, step, u)
                 \/ \E a \in Approval : cancel_approval(d, a)
                 \/ \E f \in Acceptance : remove_acceptance(d, f)
                 \/ expire(d) \/ Proceed(d) \/ Crash(d)
          PROVE  call'[c] = call[c] /\ pc'[c] = "appending"
      BY <3>1, <3>5 DEF Recording, sign_step, cancel_approval, remove_acceptance, expire,
         Proceed, add_acceptance, EmptyFile, WriteAcceptances, _append_event, Crash, Enter,
         Goto, Leave, TypeOK
    <3>6. ~ \/ \E a \in Approval : \E step \in Steps(a), u \in User : sign_step(c, a, step, u)
            \/ \E a \in Approval : cancel_approval(c, a)
            \/ \E f \in Acceptance : remove_acceptance(c, f)
            \/ expire(c) \/ add_acceptance(c) \/ EmptyFile(c) \/ WriteAcceptances(c)
      BY <3>1 DEF Recording, sign_step, cancel_approval, remove_acceptance, expire,
         add_acceptance, EmptyFile, WriteAcceptances, Enter
    <3>7. ASSUME UNCHANGED vars \/ \E a \in Approval : start_approval(a)
          PROVE  call'[c] = call[c] /\ pc'[c] = "appending"
      BY <3>1, <3>7 DEF Recording, vars, start_approval
    <3> QED
      BY <3>2, <3>3, <3>4, <3>5, <3>6, <3>7 DEF Next, Sign, Proceed
  <2>4. crashes = 0
    BY <1>1, <1>3
  <2> QED
    BY <2>1, <2>2, <2>3, <2>4 DEF AppliedFit
<1> QED
  BY <1>1, <1>2, <1>3 DEF AppliedFit, Of, Recording, IsLast

-------------------------------------------------------------------------------
(* The acceptance log. *)

\* Steps of callers that do not rewrite the log, and leave it alone.
LEMMA LogLeftAlone ==
    ASSUME LogFits, UNCHANGED <<acceptances, applied, removed, spoiled>>,
           NEW c \in Caller, ~ Rewriting(c), ~ Rewriting(c)',
           \A d \in Caller \ {c} : pc'[d] = pc[d] /\ listed'[d] = listed[d]
    PROVE  LogFits'
BY DEF LogFits, Rewriting, Rewritten

\* A caller that reads the log is the only one that rewrites it, or spoils it.
LEMMA LogRead ==
    ASSUME TypeOK, LogFits, NEW c \in Caller, ~ Rewriting(c), _read_all(c),
           pc' = [pc EXCEPT ![c] = "listed"]
    PROVE  LogFits'
<1> SUFFICES ASSUME ~ spoiled, \A d \in Caller : ~ Rewriting(d)
             PROVE  LogFits'
  BY DEF _read_all, LogFits
<1>1. /\ applied \subseteq acceptances \cup removed
      /\ \A d \in Caller \ {c} : pc'[d] = pc[d]
      /\ pc'[c] = "listed" /\ listed'[c] = acceptances
      /\ UNCHANGED <<acceptances, applied, removed>>
  BY DEF LogFits, Rewriting, Rewritten, _read_all, TypeOK
<1> QED
  BY <1>1 DEF LogFits, Rewriting, Rewritten

LEMMA NextLog ==
    ASSUME TypeOK, CallsFit, LogFits, [Next]_vars
    PROVE  LogFits'
<1>1. ASSUME NEW a \in Approval, start_approval(a)
      PROVE  LogFits'
  BY <1>1 DEF start_approval, ghosts, LogFits, Rewriting, Rewritten
<1>2. ASSUME NEW a \in Approval, NEW c \in Caller,
             \/ \E step \in Steps(a), u \in User : sign_step(c, a, step, u)
             \/ cancel_approval(c, a)
      PROVE  LogFits'
  <2>1. /\ UNCHANGED <<acceptances, listed, ghosts>> /\ pc[c] = "idle"
        /\ pc'[c] \in {"listing", "appending"}
        /\ \A d \in Caller \ {c} : pc'[d] = pc[d]
    BY <1>2 DEF sign_step, cancel_approval, Enter, TypeOK
  <2> QED
    BY <2>1, LogLeftAlone DEF ghosts, Rewriting
<1>3. ASSUME NEW c \in Caller,
             \/ add_acceptance(c) \/ expire(c)
             \/ \E e \in Acceptance : remove_acceptance(c, e)
      PROVE  LogFits'
  <2>1. /\ _read_all(c) /\ pc[c] \in {"idle", "listing"}
        /\ pc' = [pc EXCEPT ![c] = "listed"]
    BY <1>3 DEF add_acceptance, expire, remove_acceptance, Enter, Goto
  <2> QED
    BY <2>1, LogRead DEF Rewriting
<1>4. ASSUME NEW c \in Caller, EmptyFile(c)
      PROVE  LogFits'
  <2>1. /\ pc[c] = "listed" /\ pc'[c] = "writing" /\ acceptances' = {}
        /\ \A d \in Caller \ {c} : pc'[d] = pc[d]
        /\ UNCHANGED <<listed, ghosts>>
    BY <1>4 DEF EmptyFile, Goto, TypeOK
  <2> SUFFICES ASSUME ~ spoiled
               PROVE  LogFits'
    BY <2>1 DEF LogFits, ghosts
  <2>2. \A d \in Caller \ {c} : ~ Rewriting(d) /\ ~ Rewriting(d)'
    BY <2>1 DEF LogFits, Rewriting
  <2>3. listed[c] = acceptances /\ applied \subseteq acceptances \cup removed
    BY <2>1, <2>2 DEF LogFits, Rewritten, Rewriting
  <2> QED
    BY <2>1, <2>2, <2>3 DEF LogFits, ghosts, Rewriting, Rewritten
<1>5. ASSUME NEW c \in Caller, WriteAcceptances(c)
      PROVE  LogFits'
  <2>1. /\ pc[c] = "writing" /\ pc'[c] \in {"appending", "idle"} /\ UNCHANGED spoiled
        /\ \A d \in Caller \ {c} : pc'[d] = pc[d]
    BY <1>5 DEF WriteAcceptances, Goto, Leave, TypeOK
  <2> SUFFICES ASSUME ~ spoiled
               PROVE  LogFits'
    BY <2>1 DEF LogFits
  <2>2. \A d \in Caller : ~ Rewriting(d)'
    BY <2>1 DEF LogFits, Rewriting
  <2>3. acceptances = {} /\ applied \subseteq listed[c] \cup removed
    BY <2>1 DEF LogFits
  <2>4. acceptances' = NewList(c)
    BY <1>5, <2>3 DEF WriteAcceptances
  <2>5. CASE call[c].op = "sign"
    <3>1. /\ NewList(c) = listed[c] \cup {Entry(c)}
          /\ applied' = applied \cup {Entry(c)} /\ removed' = removed \ {Entry(c)}
      BY <1>5, <2>5 DEF WriteAcceptances, NewList
    <3>2. applied' \subseteq acceptances' \cup removed'
      BY <2>3, <2>4, <3>1
    <3> QED
      BY <2>2, <3>2 DEF LogFits, Rewriting, Rewritten
  <2>6. CASE call[c].op = "remove"
    <3>1. /\ NewList(c) = listed[c] \ {call[c].entry}
          /\ applied' = applied /\ removed' = removed \cup {call[c].entry}
      BY <1>5, <2>6 DEF WriteAcceptances, NewList
    <3>2. applied' \subseteq acceptances' \cup removed'
      BY <2>3, <2>4, <3>1
    <3> QED
      BY <2>2, <3>2 DEF LogFits, Rewriting, Rewritten
  <2>7. CASE call[c].op = "expire"
    <3>1. NewList(c) = listed[c] /\ applied' = applied /\ removed' = removed
      BY <1>5, <2>7 DEF WriteAcceptances, NewList
    <3>2. applied' \subseteq acceptances' \cup removed'
      BY <2>3, <2>4, <3>1
    <3> QED
      BY <2>2, <3>2 DEF LogFits, Rewriting, Rewritten
  <2> QED
    BY <2>1, <2>5, <2>6, <2>7 DEF CallsFit, Fits
<1>6. ASSUME NEW c \in Caller, _append_event(c)
      PROVE  LogFits'
  <2>1. /\ UNCHANGED <<acceptances, ghosts>> /\ pc[c] = "appending" /\ pc'[c] = "idle"
        /\ \A d \in Caller \ {c} : pc'[d] = pc[d] /\ listed'[d] = listed[d]
    BY <1>6 DEF _append_event, Leave, TypeOK
  <2> QED
    BY <2>1, LogLeftAlone DEF ghosts, Rewriting
<1>7. ASSUME NEW c \in Caller, Crash(c)
      PROVE  LogFits'
  <2>1. /\ UNCHANGED <<acceptances, applied, removed>> /\ pc'[c] = "idle"
        /\ spoiled' = (spoiled \/ pc[c] = "writing")
        /\ \A d \in Caller \ {c} : pc'[d] = pc[d] /\ listed'[d] = listed[d]
    BY <1>7 DEF Crash, Leave, TypeOK
  <2> SUFFICES ASSUME ~ spoiled, pc[c] # "writing"
               PROVE  LogFits'
    BY <2>1 DEF LogFits
  <2> QED
    BY <2>1 DEF LogFits, Rewriting, Rewritten
<1>8. CASE UNCHANGED vars
  BY <1>8 DEF vars, LogFits, Rewriting, Rewritten
<1> QED
  BY <1>1, <1>2, <1>3, <1>4, <1>5, <1>6, <1>7, <1>8 DEF Next, Sign, Proceed

-------------------------------------------------------------------------------
(* The theorems. *)

\* The inductive invariant: calls in flight, the trail of events, what was
\* applied and the log fit each other.
THEOREM ApprovalsFit == Spec => []ApprovalInv
<1>1. Init => ApprovalInv
  <2>1. Init => TypeOK
    <3>1. \A a \in Approval : <<>> \in Seq(Event) /\ DOMAIN <<>> = {}
      OBVIOUS
    <3>2. NoCall \in Call /\ 0 \in 0..MaxCrashes
      BY ChainAssumption DEF NoCall, Call
    <3> QED
      BY <3>1, <3>2 DEF Init, TypeOK
  <2>2. Init => CallsFit /\ EventsFit
    BY DEF Init, CallsFit, Fits, NoCall, EventsFit, Of
  <2>3. Init => AppliedFit /\ LogFits /\ AcceptedIsSigned
    BY DEF Init, AppliedFit, LogFits, AcceptedIsSigned, Rewriting
  <2> QED
    BY <2>1, <2>2, <2>3 DEF ApprovalInv
<1>2. ApprovalInv /\ [Next]_vars => ApprovalInv'
  BY NextTypes, NextCalls, NextEvents, NextApplied, NextLog, NextSigned DEF ApprovalInv
<1> QED
  BY <1>1, <1>2, PTL DEF Spec

\* Every variable keeps its type (TypeOK).
THEOREM TypesKept == Spec => []TypeOK
<1>1. ApprovalInv => TypeOK
  BY DEF ApprovalInv
<1> QED
  BY <1>1, ApprovalsFit, PTL

\* A risk is accepted only after every other step was signed by a holder of
\* its role, and by a holder of the last (AcceptedIsSigned).
THEOREM Signatures == Spec => []AcceptedIsSigned
<1>1. ApprovalInv => AcceptedIsSigned
  BY DEF ApprovalInv
<1> QED
  BY <1>1, ApprovalsFit, PTL

\* Unless a caller died, an acceptance has its signature on record once the
\* call is over (AcceptedIsRecorded).
THEOREM Trail == Spec => []AcceptedIsRecorded
<1>1. ApprovalInv => AcceptedIsRecorded
  BY DEF ApprovalInv, AppliedFit, Recording, AcceptedIsRecorded
<1> QED
  BY <1>1, ApprovalsFit, PTL

\* What reads as approved was applied, and is in the log unless rewrites
\* overlapped or one was cut short (ApprovedIsAccepted).
THEOREM PolicyIsLog == Spec => []ApprovedIsAccepted
<1>1. ApprovalInv => ApprovedIsAccepted
  <2> SUFFICES ASSUME ApprovalInv, NEW a \in Approval, Status(a) = "approved"
               PROVE  \E e \in applied :
                         /\ e.approval = a
                         /\ e \in acceptances \cup removed \/ spoiled \/ Rewritten
    BY DEF ApprovedIsAccepted
  <2>1. PICK i \in Of(a, "sign") : events[a][i].approved
    BY DEF Status
  <2>2. [approval |-> a, accepted_by |-> events[a][i].user] \in applied
    BY <2>1 DEF ApprovalInv, EventsFit
  <2>3. spoiled \/ Rewritten \/ applied \subseteq acceptances \cup removed
    BY DEF ApprovalInv, LogFits
  <2> QED
    BY <2>2, <2>3
<1> QED
  BY <1>1, ApprovalsFit, PTL

\* A decision is overturned only by a call that began before it
\* (DecisionStands).
THEOREM Decided == Spec => DecisionStands
<1>1. ApprovalInv /\ [Next]_vars =>
         [\A a \in Approval : Settled(a) => Settled(a)' /\ events'[a] = events[a]]_vars
  <2> SUFFICES ASSUME ApprovalInv, Next, NEW a \in Approval, Settled(a)
               PROVE  Settled(a)' /\ events'[a] = events[a]
    OBVIOUS
  <2>0. /\ TypeOK /\ CallsFit /\ [Next]_vars /\ Started(a) /\ ~ IsPending(a)
        /\ \A c \in Caller :
              call[c].op \in {"sign", "cancel"} => call[c].approval # a
    BY DEF ApprovalInv, Settled, IsPending, InFlight
  <2>1. ASSUME NEW b \in Approval, start_approval(b)
        PROVE  events'[a] = events[a] /\ UNCHANGED call
    BY <2>0, <2>1 DEF start_approval, TypeOK
  <2>2. ASSUME NEW b \in Approval, NEW c \in Caller,
               \/ \E step \in Steps(b), u \in User : sign_step(c, b, step, u)
               \/ cancel_approval(c, b)
        PROVE  /\ UNCHANGED events /\ b # a
               /\ \A d \in Caller : call'[d] = call[d] \/ call'[d].approval = b
    BY <2>0, <2>2 DEF sign_step, cancel_approval, Enter, TypeOK
  <2>3. ASSUME NEW c \in Caller,
               \/ \E e \in Acceptance : remove_acceptance(c, e)
               \/ expire(c) \/ add_acceptance(c) \/ EmptyFile(c) \/ WriteAcceptances(c)
               \/ Crash(c)
        PROVE  /\ UNCHANGED events
               /\ \A d \in Caller : call'[d] = call[d] \/ call'[d].op \notin {"sign", "cancel"}
    BY <2>0, <2>3 DEF remove_acceptance, expire, add_acceptance, _read_all, EmptyFile,
       WriteAcceptances, Crash, Enter, Goto, Leave, NoCall, TypeOK
  <2>4. ASSUME NEW c \in Caller, _append_event(c)
        PROVE  /\ events'[a] = events[a]
               /\ \A d \in Caller : call'[d] = call[d] \/ call'[d].op \notin {"sign", "cancel"}
    <3>1. call[c].approval # a
      BY <2>0, <2>4, NewEvents DEF _append_event
    <3> QED
      BY <2>4, <3>1, <2>0 DEF _append_event, Leave, NoCall, TypeOK
  <2>5. /\ events'[a] = events[a]
        /\ \A d \in Caller : call'[d].op \in {"sign", "cancel"} => call'[d].approval # a
    BY <2>0, <2>1, <2>2, <2>3, <2>4 DEF Next, Sign, Proceed
  <2>6. Of(a, "start")' = Of(a, "start") /\ Of(a, "sign")' = Of(a, "sign")
        /\ Of(a, "cancel")' = Of(a, "cancel")
    BY <2>5 DEF Of
  <2>7. Started(a)' = Started(a) /\ Status(a)' = Status(a)
    BY <2>5, <2>6 DEF Started, Status
  <2> QED
    BY <2>5, <2>7 DEF Settled, InFlight
<1> QED
  BY <1>1, ApprovalsFit, PTL DEF Spec, DecisionStands
===============================================================================
