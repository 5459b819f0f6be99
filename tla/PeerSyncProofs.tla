---------------------------- MODULE PeerSyncProofs ----------------------------
(***************************************************************************)
(* Theorems about PeerSync, for every number of events, batch size, buffer *)
(* and number of failures: the types, that the handshake alone keeps       *)
(* events from being sent twice, that nothing is deleted before the        *)
(* standby has confirmed it, that what the standby has passed was handled, *)
(* and that only its deaths repeat a handler.                              *)
(***************************************************************************)
EXTENDS PeerSync, FiniteSetTheorems, SequenceTheorems, TLAPS

\* Where the stop-and-wait conversation stands in each phase.  While nothing
\* is on its way the streamer's count is the standby's.
Conversation ==
    /\ phase \in {"down", "polling"} => batch = <<>>
    /\ phase = "sending" => batch # <<>>
    /\ phase \in {"polling", "sending"} => frame = None
    /\ phase # "waiting" => ack = None
    /\ ack # None => frame = None /\ ack = last_applied_seq
    /\ phase # "down" /\ frame = None /\ ack = None => last_acked_seq = last_applied_seq
    /\ phase # "down" => last_acked_seq <= last_applied_seq

\* Every event on its way or waiting to be sent is one the standby has not
\* got, and the batch is in order.
Ahead ==
    /\ frame # None => last_applied_seq < frame.seq /\ frame.seq <= top
    /\ \A i \in DOMAIN batch :
         /\ last_applied_seq < batch[i].seq /\ batch[i].seq <= top
         /\ frame # None => frame.seq < batch[i].seq
    /\ \A i, j \in DOMAIN batch : i < j => batch[i].seq < batch[j].seq

IInv ==
    /\ TypeOK
    /\ Len(log) <= top
    /\ Conversation
    /\ Ahead
    /\ ConfirmedBeforeTrimmed

------------------------------------------------------------------------------
(* Facts about the operators. *)

LEMMA MaxPair ==
    ASSUME NEW a \in Int, NEW b \in Int
    PROVE  Max({a, b}) \in {a, b} /\ Max({a, b}) >= a /\ Max({a, b}) >= b
BY DEF Max

LEMMA MinPair ==
    ASSUME NEW a \in Int, NEW b \in Int
    PROVE  Min({a, b}) \in {a, b} /\ Min({a, b}) <= a /\ Min({a, b}) <= b
BY DEF Min

\* There are finitely many events, numbered from 1.
LEMMA EventRange ==
    /\ Cardinality(Event) \in Nat
    /\ \A e : e \in Event <=> e \in 1..Cardinality(Event)
<1>1. Cardinality(Event) \in Nat
  BY SyncAssumption, FS_CardinalityType
<1> QED
  BY <1>1, SyncAssumption

\* What list_events_since reads is in order, behind seq and in the log.
LEMMA ListedEvents ==
    ASSUME TypeOK, NEW seq \in Nat, Len(log) \in Event \cup {0}
    PROVE  LET listed == list_events_since(seq, Batch)
           IN  /\ listed \in Seq(Frame)
               /\ \A i \in DOMAIN listed :
                    listed[i].seq > seq /\ listed[i].seq <= Len(log)
               /\ \A i, j \in DOMAIN listed : i < j => listed[i].seq < listed[j].seq
               /\ \A i \in DOMAIN listed :
                    /\ listed[i].seq = Max({seq, trimmed}) + i
                    /\ listed[i].seq \in 1..Len(log)
                    /\ listed[i].event = log[listed[i].seq].event
               /\ seq < Len(log) /\ trimmed < Len(log) => listed # <<>>
<1> DEFINE first == Max({seq, trimmed}) + 1
           last == Min({first + Batch - 1, Len(log)})
           listed == list_events_since(seq, Batch)
<1>0. /\ log \in Seq(Row) /\ Len(log) \in Nat /\ trimmed \in Nat /\ Batch \in Nat \ {0}
      /\ \A i \in 1..Len(log) : log[i] \in Row
  <2>1. log \in Seq(Row) /\ disk \in Seq(Row) /\ trimmed \in 0..Len(disk)
    BY DEF TypeOK
  <2> QED
    BY <2>1, SyncAssumption
<1>1. first \in Nat /\ first > seq /\ first > trimmed
  <2>1. seq \in Int /\ trimmed \in Int
    BY <1>0
  <2>2. /\ Max({seq, trimmed}) \in {seq, trimmed}
        /\ Max({seq, trimmed}) >= seq /\ Max({seq, trimmed}) >= trimmed
    BY <2>1, MaxPair
  <2> HIDE DEF first
  <2>3. first = Max({seq, trimmed}) + 1
    BY DEF first
  <2> QED
    BY <2>2, <2>3, <1>0
<1>2. last \in Int /\ last <= first + Batch - 1 /\ last <= Len(log)
      /\ last \in {first + Batch - 1, Len(log)}
  <2>1. first + Batch - 1 \in Int /\ Len(log) \in Int
    BY <1>0, <1>1
  <2> HIDE DEF first
  <2> QED
    BY <2>1, MinPair
<1> HIDE DEF first, last
<1>3. listed = [i \in 1..(last - first + 1) |->
                  [seq |-> first + i - 1, event |-> log[first + i - 1].event,
                   signed |-> log[first + i - 1].signed]]
  BY DEF list_events_since, first, last
<1>4. \A i \in 1..(last - first + 1) :
         /\ first + i - 1 \in 1..Len(log) /\ first + i - 1 > seq
         /\ first + i - 1 \in Event
  BY <1>0, <1>1, <1>2, EventRange
<1>5. \A i \in 1..(last - first + 1) :
         [seq |-> first + i - 1, event |-> log[first + i - 1].event,
          signed |-> log[first + i - 1].signed] \in Frame
  BY <1>0, <1>4 DEF Frame, Row
<1>6. DOMAIN listed = 1..(last - first + 1)
  BY <1>3
<1>7. listed \in Seq(Frame)
  <2>1. PICK n \in Nat : 1..(last - first + 1) = 1..n
    <3>1. CASE last - first + 1 >= 0
      <4>1. last - first + 1 \in Nat
        BY <3>1, <1>1, <1>2
      <4> QED
        BY <4>1
    <3>2. CASE last - first + 1 < 0
      <4>1. 1..(last - first + 1) = 1..0
        BY <3>2, <1>1, <1>2
      <4> QED
        BY <4>1
    <3> QED
      BY <3>1, <3>2, <1>1, <1>2
  <2>2. listed \in [1..n -> Frame]
    BY <2>1, <1>3, <1>5
  <2> QED
    BY <2>2
<1>8. \A i \in DOMAIN listed : listed[i].seq = first + i - 1
  BY <1>3, <1>6
<1>9. seq < Len(log) /\ trimmed < Len(log) => listed # <<>>
  <2> SUFFICES ASSUME seq < Len(log), trimmed < Len(log)
               PROVE  1 \in DOMAIN listed
    OBVIOUS
  <2>0. seq \in Int /\ trimmed \in Int
    BY <1>0
  <2>1. first <= Len(log)
    <3>1. Max({seq, trimmed}) \in {seq, trimmed}
      BY <2>0, MaxPair
    <3>2. first = Max({seq, trimmed}) + 1
      BY DEF first
    <3> QED
      BY <3>1, <3>2, <1>0
  <2> QED
    BY <2>1, <1>0, <1>1, <1>2, <1>6
<1>10. /\ \A i \in DOMAIN listed : listed[i].seq > seq /\ listed[i].seq <= Len(log)
       /\ \A i, j \in DOMAIN listed : i < j => listed[i].seq < listed[j].seq
  BY <1>1, <1>2, <1>4, <1>6, <1>8
<1>11. \A i \in DOMAIN listed :
          /\ listed[i].seq = Max({seq, trimmed}) + i
          /\ listed[i].seq \in 1..Len(log)
          /\ listed[i].event = log[listed[i].seq].event
  <2>1. Max({seq, trimmed}) \in Int /\ first = Max({seq, trimmed}) + 1
    <3>1. seq \in Int /\ trimmed \in Int
      BY <1>0
    <3>2. Max({seq, trimmed}) \in {seq, trimmed}
      BY <3>1, MaxPair
    <3> QED
      BY <3>1, <3>2 DEF first
  <2>2. \A i \in 1..(last - first + 1) : first + i - 1 = Max({seq, trimmed}) + i
    BY <1>1, <1>2, <2>1
  <2>3. \A i \in DOMAIN listed : listed[i].event = log[first + i - 1].event
    BY <1>3, <1>6
  <2> QED
    BY <1>4, <1>6, <1>8, <2>2, <2>3
<1> QED
  BY <1>7, <1>9, <1>10, <1>11

------------------------------------------------------------------------------
(* Facts about the states of IInv. *)

LEMMA Numbers ==
    ASSUME IInv
    PROVE  /\ {top, recorded, last_acked_seq, last_applied_seq, trimmed, Keep,
               MaxBreaks, breaks, deaths, Len(log), Len(disk)} \subseteq Nat
           /\ last_acked_seq <= top /\ last_applied_seq <= top
           /\ top <= recorded /\ recorded <= Cardinality(Event)
           /\ trimmed <= Len(disk) /\ Len(disk) <= Len(log) /\ Len(log) <= top
           /\ Len(log) \in Event \cup {0}
<1>1. /\ log \in Seq(Row) /\ disk \in Seq(Row)
      /\ trimmed \in 0..Len(disk) /\ Len(disk) <= Len(log) /\ Len(log) <= top
      /\ recorded \in 0..Cardinality(Event) /\ top \in 0..recorded
      /\ last_acked_seq \in 0..top /\ last_applied_seq \in 0..top
      /\ breaks \in 0..MaxBreaks /\ deaths \in 0..breaks
  BY DEF IInv, TypeOK
<1>2. Keep \in Nat /\ MaxBreaks \in Nat /\ Cardinality(Event) \in Nat
  BY SyncAssumption, EventRange
<1>3. Len(log) \in Nat /\ Len(disk) \in Nat
  BY <1>1
<1>4. Len(log) \in 1..Cardinality(Event) \/ Len(log) = 0
  BY <1>1, <1>2, <1>3
<1> QED
  BY <1>1, <1>2, <1>3, <1>4, EventRange

\* A frame names its seq and its event.
LEMMA FrameFields ==
    ASSUME IInv, frame # None
    PROVE  /\ frame \in Frame /\ frame.seq \in Event /\ frame.event \in Event
           /\ frame.seq \in Nat /\ frame.seq # None
           /\ last_applied_seq < frame.seq /\ frame.seq <= top
<1>1. frame \in Frame
  BY DEF IInv, TypeOK
<1>2. frame.seq \in Event /\ frame.event \in Event
  BY <1>1 DEF Frame
<1>3. frame.seq \in Nat /\ frame.seq # None
  BY <1>2, EventRange, SyncAssumption
<1> QED
  BY <1>1, <1>2, <1>3 DEF IInv, Ahead

\* The seqs of a batch are numbers.
LEMMA BatchFields ==
    ASSUME IInv
    PROVE  /\ batch \in Seq(Frame) /\ Len(batch) \in Nat /\ DOMAIN batch = 1..Len(batch)
           /\ \A i \in DOMAIN batch : batch[i] \in Frame /\ batch[i].seq \in Nat
<1>1. batch \in Seq(Frame)
  BY DEF IInv, TypeOK
<1>2. \A i \in DOMAIN batch : batch[i] \in Frame
  BY <1>1
<1>3. \A f \in Frame : f.seq \in Nat
  <2>1. \A f \in Frame : f.seq \in Event
    BY DEF Frame
  <2> QED
    BY <2>1, EventRange
<1> QED
  BY <1>1, <1>2, <1>3

\* The standby's count is a seq or 0, and so can be acknowledged.
LEMMA CountIsAnAck ==
    ASSUME IInv
    PROVE  last_applied_seq \in Event \cup {0} /\ last_applied_seq # None
<1>1. last_applied_seq = 0 \/ last_applied_seq \in 1..Cardinality(Event)
  BY Numbers, EventRange
<1> QED
  BY <1>1, EventRange, SyncAssumption

------------------------------------------------------------------------------
(* The writer. *)

LEMMA InsertKeeps ==
    ASSUME IInv, Insert
    PROVE  IInv'
<1>1. /\ recorded + 1 \in Event /\ recorded' = recorded + 1
      /\ log' = Append(log, [event |-> recorded', signed |-> FALSE])
      /\ unsigned' = unsigned \cup {Len(log')}
      /\ top' = Max({top, Len(log')})
      /\ excused' = IF Len(log') <= top THEN excused \cup {recorded'} ELSE excused
      /\ UNCHANGED <<disk, trimmed, phase, batch, last_acked_seq, frame, ack, applier,
                     last_applied_seq, handled, repeats, raised, deaths, breaks>>
  BY DEF Insert, streamer, standby, effects, bounds
<1>2. log \in Seq(Row) /\ unsigned \subseteq DOMAIN log
      /\ \A s \in unsigned : ~log[s].signed
  BY DEF IInv, TypeOK
<1>3. [event |-> recorded', signed |-> FALSE] \in Row
  BY <1>1 DEF Row
<1>4. /\ log' \in Seq(Row) /\ Len(log') = Len(log) + 1
      /\ DOMAIN log' = 1..(Len(log) + 1)
      /\ \A s \in 1..Len(log) : log'[s] = log[s]
      /\ log'[Len(log) + 1] = [event |-> recorded', signed |-> FALSE]
  BY <1>1, <1>2, <1>3
<1>5. top' \in Nat /\ top' >= top /\ top' >= Len(log') /\ top' <= recorded'
  <2>1. top \in Int /\ Len(log') \in Int
    BY <1>4, Numbers
  <2>2. /\ Max({top, Len(log')}) \in {top, Len(log')}
        /\ Max({top, Len(log')}) >= top /\ Max({top, Len(log')}) >= Len(log')
    BY <2>1, MaxPair
  <2> QED
    BY <2>2, <1>1, <1>4, Numbers
<1>0. /\ top \in Nat /\ recorded \in Nat /\ last_applied_seq \in Nat /\ last_acked_seq \in Nat
      /\ last_acked_seq <= top /\ last_applied_seq <= top
  BY Numbers
<1>6. recorded' \in 0..Cardinality(Event)
  BY <1>1, EventRange, Numbers
<1>7. unsigned' \subseteq DOMAIN log' /\ \A s \in unsigned' : ~log'[s].signed
  <2>1. Len(log) \in Nat /\ unsigned \subseteq 1..Len(log)
    BY <1>2
  <2>2. unsigned' = unsigned \cup {Len(log) + 1}
    BY <1>1, <1>4
  <2>3. ~log'[Len(log) + 1].signed
    BY <1>4
  <2>4. \A s \in unsigned : ~log'[s].signed
    BY <1>2, <1>4, <2>1
  <2>5. unsigned' \subseteq 1..(Len(log) + 1)
    <3>1. Len(log) + 1 \in 1..(Len(log) + 1) /\ 1..Len(log) \subseteq 1..(Len(log) + 1)
      BY <2>1
    <3> QED
      BY <2>1, <2>2, <3>1
  <2> QED
    BY <1>4, <2>2, <2>3, <2>4, <2>5
<1>8. TypeOK'
  <2>1. disk' \in Seq(Row) /\ Len(disk') <= Len(log') /\ trimmed' \in 0..Len(disk')
    BY <1>1, <1>4, Numbers DEF IInv, TypeOK
  <2>2. last_acked_seq' \in 0..top' /\ last_applied_seq' \in 0..top' /\ top' \in 0..recorded'
    BY <1>0, <1>1, <1>5
  <2>3. excused' \subseteq Event
    BY <1>1 DEF IInv, TypeOK
  <2> QED
    BY <1>1, <1>4, <1>6, <1>7, <2>1, <2>2, <2>3 DEF IInv, TypeOK
<1>9. Conversation'
  BY <1>1 DEF IInv, Conversation
<1>10. Ahead'
  <2>1. frame' # None => last_applied_seq' < frame'.seq /\ frame'.seq <= top'
    <3>1. frame # None => last_applied_seq < frame.seq /\ frame.seq <= top /\ frame.seq \in Nat
      BY FrameFields
    <3> QED
      BY <1>0, <1>1, <1>5, <3>1
  <2>2. \A i \in DOMAIN batch : batch[i].seq <= top'
    <3>1. \A i \in DOMAIN batch : batch[i].seq \in Nat /\ batch[i].seq <= top
      BY BatchFields DEF IInv, Ahead
    <3> QED
      BY <1>0, <1>5, <3>1
  <2> QED
    BY <1>1, <2>1, <2>2 DEF IInv, Ahead
<1>11. ConfirmedBeforeTrimmed'
  BY <1>1 DEF IInv, ConfirmedBeforeTrimmed
<1> QED
  BY <1>5, <1>8, <1>9, <1>10, <1>11 DEF IInv

LEMMA SignKeeps ==
    ASSUME IInv, NEW s \in unsigned, Sign(s)
    PROVE  IInv'
<1>1. /\ unsigned' = unsigned \ {s} /\ log' = [log EXCEPT ![s].signed = TRUE]
      /\ UNCHANGED <<disk, trimmed, recorded, top, phase, batch, last_acked_seq, frame,
                     ack, applier, last_applied_seq, handled, repeats, raised, excused,
                     deaths, breaks>>
  BY DEF Sign, streamer, standby, effects, refusals, bounds
<1>2. /\ log \in Seq(Row) /\ unsigned \subseteq DOMAIN log
      /\ \A r \in unsigned : ~log[r].signed
  BY DEF IInv, TypeOK
<1>3. /\ log' \in Seq(Row) /\ Len(log') = Len(log) /\ DOMAIN log' = DOMAIN log
      /\ \A r \in DOMAIN log : r # s => log'[r] = log[r]
  <2>1. s \in 1..Len(log) /\ log[s] \in Row
    BY <1>2
  <2>2. [log[s] EXCEPT !.signed = TRUE] \in Row
    BY <2>1 DEF Row
  <2>3. log' = [log EXCEPT ![s] = [log[s] EXCEPT !.signed = TRUE]]
    BY <1>1
  <2> QED
    BY <1>2, <2>1, <2>2, <2>3, ExceptSeq
<1>4. unsigned' \subseteq DOMAIN log' /\ \A r \in unsigned' : ~log'[r].signed
  BY <1>1, <1>2, <1>3
<1>5. TypeOK'
  BY <1>1, <1>3, <1>4 DEF IInv, TypeOK
<1> QED
  BY <1>1, <1>3, <1>5 DEF IInv, Conversation, Ahead, ConfirmedBeforeTrimmed

LEMMA CommitKeeps ==
    ASSUME IInv, Commit
    PROVE  IInv'
<1>1. /\ disk' = log
      /\ UNCHANGED <<log, trimmed, unsigned, recorded, top, phase, batch, last_acked_seq,
                     frame, ack, applier, last_applied_seq, handled, repeats, raised, excused,
                     deaths, breaks>>
  BY DEF Commit, streamer, standby, effects, refusals, bounds
<1>2. trimmed' \in 0..Len(disk') /\ Len(disk') <= Len(log')
  BY <1>1, Numbers
<1>3. TypeOK'
  BY <1>1, <1>2 DEF IInv, TypeOK
<1> QED
  BY <1>1, <1>3 DEF IInv, Conversation, Ahead, ConfirmedBeforeTrimmed

------------------------------------------------------------------------------
(* The streamer. *)

LEMMA ConnectKeeps ==
    ASSUME IInv, Connect
    PROVE  IInv'
<1>1. /\ phase = "down" /\ frame = None /\ phase' = "polling"
      /\ last_acked_seq' = last_applied_seq
      /\ UNCHANGED <<log, disk, trimmed, unsigned, recorded, top, batch, frame, ack, applier,
                     last_applied_seq, handled, repeats, raised, excused, deaths, breaks>>
  BY DEF Connect, active, standby, effects, refusals, bounds
<1>2. TypeOK'
  BY <1>1 DEF IInv, TypeOK
<1>3. Conversation'
  BY <1>1, Numbers DEF IInv, Conversation
<1> QED
  BY <1>1, <1>2, <1>3 DEF IInv, Ahead, ConfirmedBeforeTrimmed

LEMMA FetchKeeps ==
    ASSUME IInv, Fetch
    PROVE  IInv'
<1> DEFINE listed == list_events_since(last_acked_seq, Batch)
<1>1. /\ phase = "polling" /\ last_acked_seq < Len(log)
      /\ batch' = listed /\ phase' = "sending"
      /\ UNCHANGED <<log, disk, trimmed, unsigned, recorded, top, last_acked_seq, frame, ack,
                     applier, last_applied_seq, handled, repeats, raised, excused,
                     deaths, breaks>>
  BY DEF Fetch, active, standby, effects, refusals, bounds
<1>2. frame = None /\ ack = None /\ last_acked_seq = last_applied_seq
  BY <1>1 DEF IInv, Conversation
<1>3. trimmed < Len(log)
  BY <1>1, <1>2, Numbers DEF IInv, ConfirmedBeforeTrimmed
<1>4. /\ listed \in Seq(Frame) /\ listed # <<>>
      /\ \A i \in DOMAIN listed :
           listed[i].seq > last_acked_seq /\ listed[i].seq <= Len(log)
      /\ \A i, j \in DOMAIN listed : i < j => listed[i].seq < listed[j].seq
  <2>1. TypeOK /\ last_acked_seq \in Nat /\ Len(log) \in Event \cup {0}
    BY Numbers DEF IInv
  <2> QED
    BY <1>1, <1>3, <2>1, ListedEvents
<1> HIDE DEF listed
<1>5. \A i \in DOMAIN listed : listed[i].seq \in Nat
  <2>1. \A f \in Frame : f.seq \in Nat
    <3>1. \A f \in Frame : f.seq \in Event
      BY DEF Frame
    <3> QED
      BY <3>1, EventRange
  <2> QED
    BY <1>4, <2>1
<1>6. TypeOK'
  BY <1>1, <1>4 DEF IInv, TypeOK
<1>7. Conversation'
  BY <1>1, <1>2, <1>4 DEF IInv, Conversation
<1>8. Ahead'
  <2>1. \A i \in DOMAIN listed : last_applied_seq < listed[i].seq /\ listed[i].seq <= top
    BY <1>2, <1>4, <1>5, Numbers
  <2> QED
    BY <1>1, <1>2, <1>4, <2>1 DEF Ahead
<1> QED
  BY <1>1, <1>6, <1>7, <1>8 DEF IInv, ConfirmedBeforeTrimmed

LEMMA SendKeeps ==
    ASSUME IInv, Send
    PROVE  IInv'
<1>1. /\ phase = "sending" /\ frame' = Head(batch) /\ batch' = Tail(batch)
      /\ phase' = "waiting"
      /\ UNCHANGED <<log, disk, trimmed, unsigned, recorded, top, last_acked_seq, ack, applier,
                     last_applied_seq, handled, repeats, raised, excused, deaths, breaks>>
  BY DEF Send, active, standby, effects, refusals, bounds
<1>2. batch # <<>> /\ frame = None /\ ack = None /\ last_acked_seq <= last_applied_seq
  BY <1>1 DEF IInv, Conversation
<1>3. /\ batch \in Seq(Frame) /\ Len(batch) \in Nat /\ Len(batch) # 0
      /\ DOMAIN batch = 1..Len(batch)
  BY <1>2, BatchFields
<1>4. /\ frame' = batch[1] /\ batch[1] \in Frame /\ 1 \in DOMAIN batch
      /\ batch' \in Seq(Frame) /\ DOMAIN batch' = 1..(Len(batch) - 1)
      /\ \A i \in 1..(Len(batch) - 1) : batch'[i] = batch[i + 1]
  BY <1>1, <1>3, <1>2
<1>5. frame' # None
  BY <1>4, NoneIsNoFrame
<1>6. applier # "dispatched"
  BY <1>2 DEF IInv, TypeOK
<1>7. TypeOK'
  BY <1>1, <1>4, <1>6 DEF IInv, TypeOK
<1>8. Conversation'
  BY <1>1, <1>2, <1>5 DEF IInv, Conversation
<1>9. Ahead'
  <2>1. /\ \A i \in DOMAIN batch : last_applied_seq < batch[i].seq /\ batch[i].seq <= top
        /\ \A i, j \in DOMAIN batch : i < j => batch[i].seq < batch[j].seq
    BY DEF IInv, Ahead
  <2>2. \A i \in DOMAIN batch' : i + 1 \in DOMAIN batch /\ 1 < i + 1 /\ batch'[i] = batch[i + 1]
    BY <1>3, <1>4
  <2>3. last_applied_seq' < frame'.seq /\ frame'.seq <= top'
    BY <1>1, <1>4, <2>1
  <2>4. \A i \in DOMAIN batch' :
          /\ last_applied_seq < batch'[i].seq /\ batch'[i].seq <= top
          /\ frame'.seq < batch'[i].seq
    BY <1>4, <2>1, <2>2
  <2>5. \A i, j \in DOMAIN batch' : i < j => i + 1 < j + 1
    BY <1>4
  <2>6. \A i, j \in DOMAIN batch' : i < j => batch'[i].seq < batch'[j].seq
    BY <2>1, <2>2, <2>5
  <2> QED
    BY <1>1, <2>3, <2>4, <2>6 DEF Ahead
<1> QED
  BY <1>1, <1>7, <1>8, <1>9 DEF IInv, ConfirmedBeforeTrimmed

\* What _maybe_trim deletes is confirmed, Keep rows behind the ack, and there.
LEMMA TrimIsSafe ==
    ASSUME IInv, NEW acked \in Nat, acked <= last_applied_seq, _maybe_trim(acked)
    PROVE  /\ trimmed' > 0 => trimmed' + Keep < last_applied_seq
           /\ disk' \in {disk, log} /\ trimmed' \in 0..Len(disk')
<1> DEFINE keep_from == acked - Keep
<1>1. CASE keep_from > 1 /\ trimmed < keep_from - 1
  <2>1. trimmed' = Min({keep_from - 1, Len(log)}) /\ disk' = log
    BY <1>1 DEF _maybe_trim
  <2>2. keep_from - 1 \in Int /\ Len(log) \in Int
    BY Numbers
  <2>3. trimmed' \in {keep_from - 1, Len(log)} /\ trimmed' <= keep_from - 1
        /\ trimmed' <= Len(log)
    BY <2>1, <2>2, MinPair
  <2>4. Keep \in Nat /\ last_applied_seq \in Nat /\ Len(log) \in Nat /\ trimmed \in Nat
    BY Numbers
  <2>5. keep_from = acked - Keep /\ keep_from \in Int
    BY <2>4
  <2> HIDE DEF keep_from
  <2>6. trimmed' \in Int /\ trimmed' >= 0
    BY <1>1, <2>3, <2>4, <2>5
  <2>7. trimmed' + Keep < last_applied_seq
    <3>1. PICK t \in Int : t = trimmed'
      BY <2>6
    <3>2. t <= keep_from - 1
      BY <2>3, <3>1
    <3>3. t + Keep < last_applied_seq
      BY <2>4, <2>5, <3>2
    <3> QED
      BY <3>1, <3>3
  <2>8. trimmed' \in 0..Len(log)
    BY <2>3, <2>4, <2>6
  <2> QED
    BY <2>1, <2>7, <2>8
<1>2. CASE ~(keep_from > 1 /\ trimmed < keep_from - 1)
  <2>1. UNCHANGED <<trimmed, disk>>
    BY <1>2 DEF _maybe_trim
  <2> QED
    BY <2>1, Numbers DEF IInv, ConfirmedBeforeTrimmed
<1> QED
  BY <1>1, <1>2

LEMMA ReceiveAckKeeps ==
    ASSUME IInv, ReceiveAck
    PROVE  IInv'
<1>1. /\ phase = "waiting" /\ ack # None
      /\ last_acked_seq' = Max({last_acked_seq, ack}) /\ ack' = None
      /\ IF batch # <<>>
         THEN phase' = "sending" /\ UNCHANGED <<trimmed, disk>>
         ELSE phase' = "polling" /\ _maybe_trim(last_acked_seq')
      /\ UNCHANGED <<log, unsigned, recorded, top, batch, frame, applier, last_applied_seq,
                     handled, repeats, raised, excused, deaths, breaks>>
  BY DEF ReceiveAck, standby, effects, refusals, bounds
<1>2. frame = None /\ ack = last_applied_seq /\ last_acked_seq <= last_applied_seq
  BY <1>1 DEF IInv, Conversation
<1>3. last_acked_seq' = last_applied_seq
  <2>1. last_acked_seq \in Int /\ ack \in Int
    BY <1>2, Numbers
  <2>2. /\ Max({last_acked_seq, ack}) \in {last_acked_seq, ack}
        /\ Max({last_acked_seq, ack}) >= ack
    BY <2>1, MaxPair
  <2> QED
    BY <1>1, <1>2, <2>1, <2>2, Numbers
<1>4. /\ trimmed' > 0 => trimmed' + Keep < last_applied_seq
      /\ disk' \in {disk, log} /\ trimmed' \in 0..Len(disk')
  <2>1. CASE batch # <<>>
    BY <1>1, <2>1, Numbers DEF IInv, ConfirmedBeforeTrimmed
  <2>2. CASE batch = <<>>
    BY <1>1, <1>3, <2>2, Numbers, TrimIsSafe
  <2> QED
    BY <2>1, <2>2
<1>5. disk' \in Seq(Row) /\ Len(disk') <= Len(log')
  BY <1>1, <1>4, Numbers DEF IInv, TypeOK
<1>6. last_acked_seq' \in 0..top'
  BY <1>1, <1>3, Numbers
<1>7. phase' \in {"sending", "polling"} /\ (phase' = "sending" <=> batch # <<>>)
  BY <1>1
<1>8. TypeOK'
  BY <1>1, <1>4, <1>5, <1>6, <1>7 DEF IInv, TypeOK
<1>9. Conversation'
  BY <1>1, <1>2, <1>3, <1>7, Numbers DEF Conversation
<1> QED
  BY <1>1, <1>4, <1>8, <1>9 DEF IInv, Ahead, ConfirmedBeforeTrimmed

------------------------------------------------------------------------------
(* The applier. *)

\* Answering a frame with the standby's count, whether it moved to the frame
\* or stayed, keeps the conversation.
LEMMA AnswerKeeps ==
    ASSUME IInv, frame # None, UNCHANGED active, UNCHANGED streamer,
           last_applied_seq' \in {last_applied_seq, frame.seq},
           Answer(last_applied_seq')
    PROVE  /\ Conversation' /\ Ahead' /\ ConfirmedBeforeTrimmed'
           /\ frame' = None /\ ack' \in Event \cup {0, None}
           /\ last_applied_seq' \in 0..top'
<1>1. /\ UNCHANGED <<log, disk, trimmed, unsigned, recorded, top, phase, batch, last_acked_seq>>
      /\ frame' = None
      /\ ack' = IF phase = "down" THEN None ELSE last_applied_seq'
  BY DEF active, streamer, Answer
<1>2. /\ last_applied_seq' \in Event \cup {0} /\ last_applied_seq' # None
      /\ last_applied_seq' \in 0..top' /\ last_applied_seq <= last_applied_seq'
      /\ last_applied_seq' <= frame.seq
  BY <1>1, FrameFields, CountIsAnAck, Numbers
<1>3. Conversation'
  <2>1. phase \notin {"polling", "sending"}
    BY DEF IInv, Conversation
  <2>2. phase # "down" => last_acked_seq <= last_applied_seq
    BY DEF IInv, Conversation
  <2>3. phase \in {"down", "waiting"}
    BY <2>1 DEF IInv, TypeOK
  <2>4. phase # "down" => last_acked_seq' <= last_applied_seq'
    BY <1>1, <1>2, <2>2, FrameFields, Numbers
  <2> QED
    BY <1>1, <1>2, <2>3, <2>4 DEF IInv, Conversation
<1>4. Ahead'
  <2>1. /\ \A i \in DOMAIN batch : batch[i].seq <= top /\ frame.seq < batch[i].seq
        /\ \A i, j \in DOMAIN batch : i < j => batch[i].seq < batch[j].seq
    BY DEF IInv, Ahead
  <2>2. \A i \in DOMAIN batch : last_applied_seq' < batch[i].seq
    <3>1. frame.seq \in Nat /\ last_applied_seq' \in Nat /\ last_applied_seq' <= frame.seq
      <4>1. top' = top /\ top \in Nat
        BY <1>1, Numbers
      <4> QED
        BY <1>2, <4>1, FrameFields
    <3>2. \A i \in DOMAIN batch : batch[i].seq \in Nat
      BY BatchFields
    <3> QED
      BY <2>1, <3>1, <3>2
  <2> QED
    BY <1>1, <2>1, <2>2 DEF Ahead
<1>5. ConfirmedBeforeTrimmed'
  BY <1>1, <1>2, FrameFields, Numbers DEF IInv, ConfirmedBeforeTrimmed
<1> QED
  BY <1>1, <1>2, <1>3, <1>4, <1>5

LEMMA RefuseKeeps ==
    ASSUME IInv, Refuse
    PROVE  IInv'
<1>1. /\ frame # None /\ applier = "ready"
      /\ excused' = IF frame.signed THEN excused ELSE excused \cup {frame.event}
      /\ Answer(last_applied_seq)
      /\ UNCHANGED active /\ UNCHANGED streamer
      /\ UNCHANGED <<applier, last_applied_seq, handled, repeats, raised, deaths, breaks>>
  BY DEF Refuse, standby, effects, bounds
<1>2. Answer(last_applied_seq')
  BY <1>1 DEF Answer
<1>3. /\ Conversation' /\ Ahead' /\ ConfirmedBeforeTrimmed'
      /\ frame' = None /\ ack' \in Event \cup {0, None}
  BY <1>1, <1>2, AnswerKeeps
<1>4. excused' \subseteq Event
  BY <1>1, FrameFields DEF IInv, TypeOK
<1>5. TypeOK'
  BY <1>1, <1>3, <1>4 DEF IInv, TypeOK, active, streamer
<1>6. UNCHANGED <<log, top>>
  BY <1>1 DEF active
<1> QED
  BY <1>3, <1>5, <1>6 DEF IInv

LEMMA HandlerRaisesKeeps ==
    ASSUME IInv, HandlerRaises
    PROVE  IInv'
<1>1. /\ frame # None /\ applier = "ready" /\ frame.event \in Registered
      /\ raised' = raised \cup {frame.event}
      /\ Answer(last_applied_seq)
      /\ UNCHANGED active /\ UNCHANGED streamer
      /\ UNCHANGED <<applier, last_applied_seq, handled, repeats, excused, deaths, breaks>>
  BY DEF HandlerRaises, standby, effects, bounds
<1>2. Answer(last_applied_seq')
  BY <1>1 DEF Answer
<1>3. /\ Conversation' /\ Ahead' /\ ConfirmedBeforeTrimmed'
      /\ frame' = None /\ ack' \in Event \cup {0, None}
  BY <1>1, <1>2, AnswerKeeps
<1>4. TypeOK'
  BY <1>1, <1>3 DEF IInv, TypeOK, active, streamer
<1>5. UNCHANGED <<log, top>>
  BY <1>1 DEF active
<1> QED
  BY <1>3, <1>4, <1>5 DEF IInv

LEMMA DropUnhandledKeeps ==
    ASSUME IInv, DropUnhandled
    PROVE  IInv'
<1>1. /\ frame # None /\ applier = "ready" /\ last_applied_seq' = frame.seq
      /\ Answer(frame.seq)
      /\ UNCHANGED active /\ UNCHANGED streamer
      /\ UNCHANGED <<applier, handled, repeats, raised, excused, deaths, breaks>>
  BY DEF DropUnhandled, refusals, effects, bounds
<1>2. Answer(last_applied_seq')
  BY <1>1 DEF Answer
<1>3. /\ Conversation' /\ Ahead' /\ ConfirmedBeforeTrimmed'
      /\ frame' = None /\ ack' \in Event \cup {0, None}
      /\ last_applied_seq' \in 0..top'
  BY <1>1, <1>2, AnswerKeeps
<1>4. TypeOK'
  BY <1>1, <1>3 DEF IInv, TypeOK, active, streamer
<1>5. UNCHANGED <<log, top>>
  BY <1>1 DEF active
<1> QED
  BY <1>3, <1>4, <1>5 DEF IInv

LEMMA DispatchKeeps ==
    ASSUME IInv, Dispatch
    PROVE  IInv'
<1>1. /\ frame # None /\ applier' = "dispatched"
      /\ frame.event \in Registered /\ handled' = handled \cup {frame.event}
      /\ repeats' = IF frame.event \in handled THEN repeats + 1 ELSE repeats
      /\ UNCHANGED <<log, disk, trimmed, unsigned, recorded, top, phase, batch, last_acked_seq,
                     frame, ack, last_applied_seq, raised, excused, deaths, breaks>>
  BY DEF Dispatch, active, streamer, refusals, bounds
<1>2. handled' \subseteq Registered /\ repeats' \in Nat
  BY <1>1 DEF IInv, TypeOK
<1>3. TypeOK'
  BY <1>1, <1>2 DEF IInv, TypeOK
<1> QED
  BY <1>1, <1>3 DEF IInv, Conversation, Ahead, ConfirmedBeforeTrimmed

LEMMA MoveSeqKeeps ==
    ASSUME IInv, MoveSeq
    PROVE  IInv'
<1>1. /\ applier = "dispatched" /\ last_applied_seq' = frame.seq /\ applier' = "ready"
      /\ Answer(frame.seq)
      /\ UNCHANGED active /\ UNCHANGED streamer
      /\ UNCHANGED <<handled, repeats, raised, excused, deaths, breaks>>
  BY DEF MoveSeq, refusals, effects, bounds
<1>2. frame # None /\ Answer(last_applied_seq')
  BY <1>1 DEF Answer, IInv, TypeOK
<1>3. /\ Conversation' /\ Ahead' /\ ConfirmedBeforeTrimmed'
      /\ frame' = None /\ ack' \in Event \cup {0, None}
      /\ last_applied_seq' \in 0..top'
  BY <1>1, <1>2, AnswerKeeps
<1>4. TypeOK'
  BY <1>1, <1>3 DEF IInv, TypeOK, active, streamer
<1>5. UNCHANGED <<log, top>>
  BY <1>1 DEF active
<1> QED
  BY <1>3, <1>4, <1>5 DEF IInv

------------------------------------------------------------------------------
(* Failures. *)

\* A broken connection leaves at most the frame that was on its way.
LEMMA LoseConnectionKeeps ==
    ASSUME IInv, LoseConnection, frame' \in {frame, None},
           UNCHANGED <<last_applied_seq, top, trimmed>>
    PROVE  Conversation' /\ Ahead' /\ ConfirmedBeforeTrimmed'
<1>1. phase' = "down" /\ batch' = <<>> /\ ack' = None
  BY DEF LoseConnection
<1>2. DOMAIN batch' = {}
  BY <1>1
<1> QED
  BY <1>1, <1>2 DEF IInv, Conversation, Ahead, ConfirmedBeforeTrimmed

LEMMA DisconnectKeeps ==
    ASSUME IInv, Disconnect
    PROVE  IInv'
<1>1. /\ breaks < MaxBreaks /\ breaks' = breaks + 1 /\ LoseConnection
      /\ frame' \in {frame, None} /\ (applier = "dispatched" => frame' = frame)
      /\ UNCHANGED <<log, disk, trimmed, unsigned, recorded, top, applier, last_applied_seq,
                     handled, repeats, raised, excused, deaths>>
  BY DEF Disconnect, active, standby, effects, refusals
<1>2. Conversation' /\ Ahead' /\ ConfirmedBeforeTrimmed'
  BY <1>1, LoseConnectionKeeps
<1>3. deaths' \in 0..breaks' /\ breaks' \in 0..MaxBreaks
  BY <1>1, Numbers DEF IInv, TypeOK
<1>4. TypeOK'
  BY <1>1, <1>3 DEF IInv, TypeOK, LoseConnection
<1> QED
  BY <1>1, <1>2, <1>4 DEF IInv

LEMMA ActiveDiesKeeps ==
    ASSUME IInv, ActiveDies
    PROVE  IInv'
<1>1. /\ breaks < MaxBreaks /\ breaks' = breaks + 1 /\ LoseConnection
      /\ frame' \in {frame, None} /\ (applier = "dispatched" => frame' = frame)
      /\ log' = disk /\ unsigned' = {}
      /\ UNCHANGED <<disk, trimmed, recorded, top, applier, last_applied_seq,
                     handled, repeats, raised, excused, deaths>>
  BY DEF ActiveDies, standby, effects, refusals
<1>2. Conversation' /\ Ahead' /\ ConfirmedBeforeTrimmed'
  BY <1>1, LoseConnectionKeeps
<1>3. deaths' \in 0..breaks' /\ breaks' \in 0..MaxBreaks
  BY <1>1, Numbers DEF IInv, TypeOK
<1>4. Len(disk') <= Len(log') /\ Len(log') <= top'
  BY <1>1, Numbers
<1>5. TypeOK'
  BY <1>1, <1>3, <1>4 DEF IInv, TypeOK, LoseConnection
<1> QED
  BY <1>2, <1>4, <1>5 DEF IInv

LEMMA StandbyDiesKeeps ==
    ASSUME IInv, StandbyDies
    PROVE  IInv'
<1>1. /\ breaks < MaxBreaks /\ breaks' = breaks + 1 /\ deaths' = deaths + 1
      /\ LoseConnection /\ frame' = None /\ applier' = "ready"
      /\ UNCHANGED <<log, disk, trimmed, unsigned, recorded, top, last_applied_seq,
                     handled, repeats, raised, excused>>
  BY DEF StandbyDies, active, effects, refusals
<1>2. Conversation' /\ Ahead' /\ ConfirmedBeforeTrimmed'
  BY <1>1, LoseConnectionKeeps
<1>3. deaths' \in 0..breaks' /\ breaks' \in 0..MaxBreaks
  BY <1>1, Numbers DEF IInv, TypeOK
<1>4. TypeOK'
  BY <1>1, <1>3 DEF IInv, TypeOK, LoseConnection
<1> QED
  BY <1>1, <1>2, <1>4 DEF IInv

------------------------------------------------------------------------------
(* The specification. *)

LEMMA InitHolds == Init => IInv
<1> SUFFICES ASSUME Init
             PROVE  IInv
  OBVIOUS
<1>1. TypeOK
  BY EventRange, SyncAssumption DEF Init, TypeOK
<1> QED
  BY <1>1 DEF Init, IInv, Conversation, Ahead, ConfirmedBeforeTrimmed

LEMMA NextKeeps == IInv /\ [Next]_vars => IInv'
<1> SUFFICES ASSUME IInv, [Next]_vars
             PROVE  IInv'
  OBVIOUS
<1>1. CASE Insert
  BY <1>1, InsertKeeps
<1>2. CASE Write
  BY <1>2, SignKeeps, CommitKeeps DEF Write
<1>3. CASE Stream
  BY <1>3, ConnectKeeps, FetchKeeps, SendKeeps, ReceiveAckKeeps DEF Stream
<1>4. CASE Apply
  BY <1>4, RefuseKeeps, HandlerRaisesKeeps, DropUnhandledKeeps, DispatchKeeps,
     MoveSeqKeeps DEF Apply
<1>5. CASE Disconnect
  BY <1>5, DisconnectKeeps
<1>6. CASE ActiveDies
  BY <1>6, ActiveDiesKeeps
<1>7. CASE StandbyDies
  BY <1>7, StandbyDiesKeeps
<1>8. CASE UNCHANGED vars
  BY <1>8 DEF vars, active, streamer, standby, effects, refusals, bounds, IInv, TypeOK,
     Conversation, Ahead, ConfirmedBeforeTrimmed
<1> QED
  BY <1>1, <1>2, <1>3, <1>4, <1>5, <1>6, <1>7, <1>8 DEF Next

\* The inductive invariant holds in every state the two nodes reach.
THEOREM Invariant == Spec => []IInv
<1> QED
  BY InitHolds, NextKeeps, PTL DEF Spec

\* The variables keep their types and the counters their order.
THEOREM TypeCorrect == Spec => []TypeOK
<1>1. IInv => TypeOK
  BY DEF IInv
<1> QED
  BY <1>1, Invariant, PTL

\* _maybe_trim deletes only what the standby confirmed, with Keep later
\* events, whatever is lost and whoever dies.
THEOREM ConfirmedHolds == Spec => []ConfirmedBeforeTrimmed
<1>1. IInv => ConfirmedBeforeTrimmed
  BY DEF IInv
<1> QED
  BY <1>1, Invariant, PTL

\* The handshake alone keeps apply_event's dedupe from ever having work.
THEOREM NotSentTwice == Spec => []NothingSentTwice
<1>1. IInv => NothingSentTwice
  BY FrameFields, Numbers DEF NothingSentTwice, Duplicate
<1> QED
  BY <1>1, Invariant, PTL

------------------------------------------------------------------------------
(* What the standby has gone past. *)

\* The seqs and events of the frame that is sent and of those read to be
\* sent, of the rows of the log, and of both.
Sent == IF frame = None THEN {} ELSE {<<frame.seq, frame.event>>}

Unsent == {<<batch[i].seq, batch[i].event>> : i \in DOMAIN batch}

InFlight == Sent \cup Unsent

Logged == {<<s, log[s].event>> : s \in DOMAIN log}

Around == Logged \cup InFlight

\* An event the standby may leave behind.
Settled(e) == e \in Registered \ (raised \cup excused) => e \in handled

\* The first seq that the standby has not been asked to apply.
Frontier ==
    IF frame # None THEN frame.seq
    ELSE IF batch # <<>> THEN batch[1].seq
    ELSE last_applied_seq + 1

\* A batch has no gap, and follows the frame sent before it.
Consecutive ==
    /\ \A i \in DOMAIN batch : batch[i].seq = batch[1].seq + i - 1
    /\ frame # None /\ batch # <<>> => batch[1].seq = frame.seq + 1

\* PassedIsHandled is not inductive: a refused or raising event is left
\* behind without last_applied_seq passing it, and is passed with the next
\* one; and what was sent must still be what the log says under its seq,
\* unless the active died and gave the seq out again.
DeliveryInv ==
    /\ \A s \in DOMAIN log : s < Frontier => Settled(log[s].event)
    /\ \A p \in InFlight : p[1] \in DOMAIN log => log[p[1]].event \in {p[2]} \cup excused
    /\ \A s \in DOMAIN disk : disk[s].event = log[s].event
    /\ Consecutive
    /\ applier = "dispatched" => frame.event \in handled

LEMMA LogFields ==
    ASSUME IInv
    PROVE  /\ log \in Seq(Row) /\ DOMAIN log = 1..Len(log) /\ Len(log) \in Nat
           /\ disk \in Seq(Row) /\ DOMAIN disk = 1..Len(disk) /\ Len(disk) \in Nat
           /\ Len(disk) <= Len(log)
           /\ DOMAIN disk \subseteq DOMAIN log
<1>1. log \in Seq(Row) /\ disk \in Seq(Row) /\ Len(disk) <= Len(log)
  BY DEF IInv, TypeOK
<1>2. /\ DOMAIN log = 1..Len(log) /\ Len(log) \in Nat
      /\ DOMAIN disk = 1..Len(disk) /\ Len(disk) \in Nat
  BY <1>1
<1> QED
  BY <1>1, <1>2

\* The frontier is a seq, or one past the highest, and not yet passed.
LEMMA FrontierFacts ==
    ASSUME IInv
    PROVE  /\ Frontier \in Nat
           /\ last_applied_seq < Frontier /\ Frontier <= top + 1
<1>1. last_applied_seq \in Nat /\ top \in Nat /\ last_applied_seq <= top
  BY Numbers
<1>2. CASE frame # None
  BY <1>1, <1>2, FrameFields DEF Frontier
<1>3. CASE frame = None /\ batch # <<>>
  <2>1. 1 \in DOMAIN batch
    BY <1>3, BatchFields
  <2>2. last_applied_seq < batch[1].seq /\ batch[1].seq <= top /\ batch[1].seq \in Nat
    BY <2>1, BatchFields DEF IInv, Ahead
  <2> QED
    BY <1>1, <1>3, <2>2 DEF Frontier
<1>4. CASE frame = None /\ batch = <<>>
  BY <1>1, <1>4 DEF Frontier
<1> QED
  BY <1>2, <1>3, <1>4

LEMMA NextFrontier ==
    ASSUME IInv'
    PROVE  Frontier' \in Nat
<1>1. IInv' => (Frontier \in Nat)'
  BY FrontierFacts, PTL
<1> QED
  BY <1>1

\* The seqs in flight are numbers between the standby's count and top.
LEMMA FlightFields ==
    ASSUME IInv, NEW p \in InFlight
    PROVE  p[1] \in Nat /\ last_applied_seq < p[1] /\ p[1] <= top
<1>1. CASE p \in Sent
  BY <1>1, FrameFields DEF Sent
<1>2. CASE p \in Unsent
  BY <1>2, BatchFields DEF Unsent, IInv, Ahead
<1> QED
  BY <1>1, <1>2 DEF InFlight

\* A step that leaves the rows that stay as they are, sends nothing else than
\* the log says, and moves the frontier at most past the frame it settles, keeps
\* the invariant.
LEMMA DeliveryStep ==
    ASSUME IInv, IInv', DeliveryInv,
           InFlight' \subseteq Around,
           \A s \in DOMAIN log' : s \in DOMAIN log /\ log'[s].event = log[s].event,
           \A s \in DOMAIN disk' : disk'[s].event = log'[s].event,
           handled \subseteq handled', raised \subseteq raised', excused \subseteq excused',
           \/ Frontier' <= Frontier
           \/ /\ frame # None /\ Frontier' <= frame.seq + 1
              /\ frame.event \in Registered \ (raised' \cup excused') => frame.event \in handled',
           Consecutive',
           applier' = "dispatched" => frame'.event \in handled'
    PROVE  DeliveryInv'
<1> DEFINE After(e) == e \in Registered \ (raised' \cup excused') => e \in handled'
<1>1. \A e : Settled(e) => After(e)
  BY DEF Settled
<1>2. ASSUME NEW s \in DOMAIN log', s < Frontier'
      PROVE  After(log'[s].event)
  <2>1. s \in DOMAIN log /\ log'[s].event = log[s].event /\ s \in Nat
    BY <1>2, LogFields
  <2>2. CASE s < Frontier
    BY <1>1, <2>1, <2>2 DEF DeliveryInv
  <2>3. CASE ~(s < Frontier)
    <3>1. /\ frame # None /\ Frontier' <= frame.seq + 1
          /\ frame.event \in Registered \ (raised' \cup excused') => frame.event \in handled'
      <4>1. Frontier \in Nat /\ Frontier' \in Nat
        BY NextFrontier, FrontierFacts
      <4> QED
        BY <1>2, <2>1, <2>3, <4>1
    <3>2. s = frame.seq
      <4>1. Frontier = frame.seq /\ frame.seq \in Nat
        BY <3>1, FrameFields DEF Frontier
      <4> QED
        BY <1>2, <2>1, <2>3, <3>1, <4>1, NextFrontier
    <3>3. log[s].event \in {frame.event} \cup excused
      <4>1. <<frame.seq, frame.event>> \in InFlight
        BY <3>1 DEF InFlight, Sent
      <4> QED
        BY <2>1, <3>2, <4>1 DEF DeliveryInv
    <3> QED
      BY <2>1, <3>1, <3>3
  <2> QED
    BY <2>2, <2>3
<1>3. \A p \in InFlight' : p[1] \in DOMAIN log' => log'[p[1]].event \in {p[2]} \cup excused'
  <2> SUFFICES ASSUME NEW p \in InFlight', p[1] \in DOMAIN log'
               PROVE  log'[p[1]].event \in {p[2]} \cup excused'
    OBVIOUS
  <2>1. p[1] \in DOMAIN log /\ log'[p[1]].event = log[p[1]].event
    OBVIOUS
  <2>2. CASE p \in InFlight
    BY <2>1, <2>2 DEF DeliveryInv
  <2>3. CASE p \in Logged
    BY <2>1, <2>3 DEF Logged
  <2> QED
    BY <2>2, <2>3 DEF Around
<1> QED
  BY <1>2, <1>3 DEF DeliveryInv, Settled

\* Where the frontier is once a frame is answered.
LEMMA AnswerFrontier ==
    ASSUME IInv, DeliveryInv, frame # None, frame' = None, batch' = batch,
           last_applied_seq' \in {last_applied_seq, frame.seq}
    PROVE  /\ Frontier' <= frame.seq + 1
           /\ InFlight' \subseteq Around
           /\ Consecutive'
<1>1. Consecutive' /\ (batch # <<>> => batch[1].seq = frame.seq + 1)
  BY DEF DeliveryInv, Consecutive
<1>2. Frontier' = IF batch # <<>> THEN batch[1].seq ELSE last_applied_seq' + 1
  BY DEF Frontier
<1>3. last_applied_seq \in Nat /\ frame.seq \in Nat /\ last_applied_seq < frame.seq
  BY Numbers, FrameFields
<1>4. InFlight' \subseteq Around
  BY DEF InFlight, Sent, Unsent, Around
<1> QED
  BY <1>1, <1>2, <1>3, <1>4

\* Where the frontier is once the connection is lost.
LEMMA LossFrontier ==
    ASSUME IInv, LoseConnection, frame' \in {frame, None},
           last_applied_seq' = last_applied_seq
    PROVE  /\ Frontier' <= Frontier
           /\ InFlight' \subseteq Around
           /\ Consecutive'
<1>1. batch' = <<>> /\ DOMAIN batch' = {}
  BY DEF LoseConnection
<1>2. Frontier' = IF frame' # None THEN frame.seq ELSE last_applied_seq + 1
  BY <1>1 DEF Frontier
<1>3. Frontier \in Nat /\ last_applied_seq \in Nat /\ last_applied_seq < Frontier
  BY Numbers, FrontierFacts
<1>4. frame' # None => Frontier = frame.seq
  BY DEF Frontier
<1>5. InFlight' \subseteq Around
  BY <1>1 DEF InFlight, Sent, Unsent, Around
<1>6. Consecutive'
  BY <1>1 DEF Consecutive
<1> QED
  BY <1>2, <1>3, <1>4, <1>5, <1>6

\* A new row is at the end, and its event is excused when its seq is not new.
LEMMA InsertDelivers ==
    ASSUME IInv, DeliveryInv, Insert
    PROVE  DeliveryInv'
<1> DEFINE n == Len(log) + 1
           After(e) == e \in Registered \ (raised' \cup excused') => e \in handled'
<1>1. /\ log' = Append(log, [event |-> recorded + 1, signed |-> FALSE])
      /\ excused' = IF Len(log') <= top THEN excused \cup {recorded + 1} ELSE excused
      /\ UNCHANGED <<disk, batch, frame, applier, last_applied_seq, handled, raised>>
  BY DEF Insert, streamer, standby, effects, bounds
<1>2. /\ Len(log') = n /\ DOMAIN log' = 1..n /\ n \in Nat
      /\ \A s \in 1..Len(log) : log'[s] = log[s]
      /\ log'[n].event = recorded + 1
  BY <1>1, LogFields
<1>3. excused \subseteq excused' /\ (n <= top => recorded + 1 \in excused')
  BY <1>1, <1>2
<1>4. Frontier' = Frontier /\ InFlight' = InFlight /\ Consecutive'
  BY <1>1 DEF Frontier, InFlight, Sent, Unsent, DeliveryInv, Consecutive
<1>5. \A e : Settled(e) => After(e)
  BY <1>1, <1>3 DEF Settled
<1>6. ASSUME NEW s \in DOMAIN log', s < Frontier'
      PROVE  After(log'[s].event)
  <2>1. CASE s = n
    <3>1. n <= top
      BY <1>2, <1>4, <1>6, <2>1, FrontierFacts, Numbers
    <3> QED
      BY <1>2, <1>3, <2>1, <3>1
  <2>2. CASE s # n
    <3>1. s \in DOMAIN log /\ log'[s] = log[s]
      BY <1>2, <2>2, LogFields
    <3> QED
      BY <1>4, <1>5, <1>6, <3>1 DEF DeliveryInv
  <2> QED
    BY <2>1, <2>2
<1>7. ASSUME NEW p \in InFlight, p[1] \in DOMAIN log'
      PROVE  log'[p[1]].event \in {p[2]} \cup excused'
  <2>1. CASE p[1] = n
    BY <1>2, <1>3, <2>1, FlightFields
  <2>2. CASE p[1] # n
    <3>1. p[1] \in DOMAIN log /\ log'[p[1]] = log[p[1]]
      BY <1>2, <1>7, <2>2, LogFields
    <3> QED
      BY <1>3, <3>1 DEF DeliveryInv
  <2> QED
    BY <2>1, <2>2
<1>8. \A s \in DOMAIN disk' : disk'[s].event = log'[s].event
  <2>1. \A s \in DOMAIN disk : s \in 1..Len(log)
    BY LogFields
  <2> QED
    BY <1>1, <1>2, <2>1 DEF DeliveryInv
<1>9. applier' = "dispatched" => frame'.event \in handled'
  BY <1>1 DEF DeliveryInv
<1> QED
  BY <1>4, <1>6, <1>7, <1>8, <1>9 DEF DeliveryInv, Settled

\* What is fetched is what the log says, from the frontier on.
LEMMA FetchedRows ==
    ASSUME IInv, Fetch
    PROVE  /\ frame = None /\ batch = <<>> /\ frame' = None
           /\ Unsent' \subseteq Logged
           /\ batch' # <<>>
           /\ \A i \in DOMAIN batch' : batch'[i].seq = last_applied_seq + i
<1>1. /\ phase = "polling" /\ last_acked_seq < Len(log) /\ frame' = frame
      /\ batch' = list_events_since(last_acked_seq, Batch)
  BY DEF Fetch
<1>2. frame = None /\ batch = <<>> /\ ack = None /\ last_acked_seq = last_applied_seq
  BY <1>1 DEF IInv, Conversation
<1>3. trimmed < Len(log) /\ trimmed <= last_acked_seq
  BY <1>1, <1>2, Numbers, SyncAssumption DEF IInv, ConfirmedBeforeTrimmed
<1>4. Max({last_acked_seq, trimmed}) = last_acked_seq
  <2>1. last_acked_seq \in Int /\ trimmed \in Int
    BY Numbers
  <2>2. /\ Max({last_acked_seq, trimmed}) \in {last_acked_seq, trimmed}
        /\ Max({last_acked_seq, trimmed}) >= last_acked_seq
    BY <2>1, MaxPair
  <2> QED
    BY <1>3, <2>1, <2>2
<1>5. /\ batch' # <<>>
      /\ \A i \in DOMAIN batch' : batch'[i].seq = last_acked_seq + i
      /\ \A i \in DOMAIN batch' :
             batch'[i].seq \in 1..Len(log) /\ batch'[i].event = log[batch'[i].seq].event
  <2>1. TypeOK /\ last_acked_seq \in Nat /\ Len(log) \in Event \cup {0}
    BY Numbers DEF IInv
  <2> QED
    BY <1>1, <1>3, <1>4, <2>1, ListedEvents
<1>6. Unsent' \subseteq Logged
  <2>1. DOMAIN log = 1..Len(log)
    BY LogFields
  <2> QED
    BY <1>5, <2>1 DEF Unsent, Logged
<1> QED
  BY <1>1, <1>2, <1>5, <1>6

LEMMA FetchDelivers ==
    ASSUME IInv, IInv', DeliveryInv, Fetch
    PROVE  DeliveryInv'
<1>1. /\ frame = None /\ batch = <<>> /\ frame' = None
      /\ Unsent' \subseteq Logged
      /\ batch' # <<>>
      /\ \A i \in DOMAIN batch' : batch'[i].seq = last_applied_seq + i
  BY FetchedRows
<1>2. UNCHANGED <<log, disk, applier, last_applied_seq, handled, raised, excused>>
  BY DEF Fetch, active, standby, effects, refusals
<1>3. batch' \in Seq(Frame) /\ last_applied_seq \in Nat
  BY Numbers DEF IInv, TypeOK
<1>4. DOMAIN batch' = 1..Len(batch') /\ Len(batch') \in Nat /\ Len(batch') # 0
  BY <1>1, <1>3
<1>5. Frontier = last_applied_seq + 1 /\ Frontier' = last_applied_seq + 1
  <2>1. batch'[1].seq = last_applied_seq + 1
    BY <1>1, <1>4
  <2> QED
    BY <1>1, <2>1 DEF Frontier
<1>6. Consecutive'
  <2>1. 1 \in DOMAIN batch' /\ \A i \in DOMAIN batch' : i \in Nat
    BY <1>4
  <2>2. \A i \in DOMAIN batch' : last_applied_seq + i = (last_applied_seq + 1) + i - 1
    <3>1. ASSUME NEW a \in Nat, NEW i \in Nat
          PROVE  a + i = (a + 1) + i - 1
      OBVIOUS
    <3> QED
      BY <1>3, <2>1, <3>1
  <2> QED
    BY <1>1, <2>1, <2>2 DEF Consecutive
<1>7. InFlight' \subseteq Around
  BY <1>1 DEF InFlight, Sent, Around
<1>8. applier' # "dispatched"
  BY <1>1, <1>2 DEF IInv, TypeOK
<1> QED
  BY <1>2, <1>3, <1>5, <1>6, <1>7, <1>8, DeliveryStep DEF DeliveryInv

\* Sending moves the head of the batch into the frame.
LEMMA SentRows ==
    ASSUME IInv, Send
    PROVE  /\ frame = None /\ batch # <<>> /\ frame' = batch[1] /\ frame' # None
           /\ InFlight' \subseteq InFlight
           /\ DOMAIN batch' = 1..(Len(batch) - 1)
           /\ \A i \in DOMAIN batch' : i + 1 \in DOMAIN batch /\ batch'[i] = batch[i + 1]
<1>1. phase = "sending" /\ frame' = Head(batch) /\ batch' = Tail(batch)
  BY DEF Send
<1>2. batch # <<>> /\ frame = None
  BY <1>1 DEF IInv, Conversation
<1>3. /\ batch \in Seq(Frame) /\ Len(batch) \in Nat /\ Len(batch) # 0
      /\ DOMAIN batch = 1..Len(batch)
  BY <1>2, BatchFields
<1>4. /\ frame' = batch[1] /\ batch[1] \in Frame /\ 1 \in DOMAIN batch
      /\ DOMAIN batch' = 1..(Len(batch) - 1)
      /\ \A i \in 1..(Len(batch) - 1) : batch'[i] = batch[i + 1]
  BY <1>1, <1>3, <1>2
<1>5. \A i \in DOMAIN batch' : i + 1 \in DOMAIN batch /\ batch'[i] = batch[i + 1]
  BY <1>3, <1>4
<1>6. frame' # None
  BY <1>4, NoneIsNoFrame
<1>7. InFlight' \subseteq InFlight
  BY <1>4, <1>5 DEF InFlight, Sent, Unsent
<1> QED
  BY <1>2, <1>4, <1>5, <1>6, <1>7

LEMMA SendDelivers ==
    ASSUME IInv, IInv', DeliveryInv, Send
    PROVE  DeliveryInv'
<1>1. /\ frame = None /\ batch # <<>> /\ frame' = batch[1] /\ frame' # None
      /\ InFlight' \subseteq Around
      /\ DOMAIN batch' = 1..(Len(batch) - 1)
      /\ \A i \in DOMAIN batch' : i + 1 \in DOMAIN batch /\ batch'[i] = batch[i + 1]
  BY SentRows DEF Around
<1>2. UNCHANGED <<log, disk, applier, last_applied_seq, handled, raised, excused>>
  BY DEF Send, active, standby, effects, refusals
<1>3. Frontier' = Frontier /\ Frontier \in Nat
  BY <1>1, FrontierFacts DEF Frontier
<1>4. Consecutive'
  <2>1. \A i \in DOMAIN batch : batch[i].seq = batch[1].seq + i - 1
    BY DEF DeliveryInv, Consecutive
  <2>2. batch[1].seq \in Nat /\ Len(batch) \in Nat
    BY <1>1, BatchFields
  <2>3. \A i \in DOMAIN batch' : i \in Nat /\ batch'[i].seq = batch[1].seq + i
    <3>1. \A i \in DOMAIN batch' : i \in Nat /\ batch'[i].seq = batch[1].seq + (i + 1) - 1
      BY <1>1, <2>1, <2>2
    <3>2. \A i \in DOMAIN batch' : batch[1].seq + (i + 1) - 1 = batch[1].seq + i
      BY <2>2, <3>1
    <3> QED
      BY <3>1, <3>2
  <2>4. batch' # <<>> => 1 \in DOMAIN batch'
    <3>1. batch' \in Seq(Frame)
      BY DEF IInv, TypeOK
    <3> QED
      BY <3>1
  <2>5. 1 \in DOMAIN batch' => batch'[1].seq = batch[1].seq + 1
    BY <2>2, <2>3
  <2>6. \A i \in DOMAIN batch' : 1 \in DOMAIN batch' /\ batch'[i].seq = batch'[1].seq + i - 1
    <3>1. \A i \in DOMAIN batch' : 1 \in DOMAIN batch'
      BY <1>1, <2>2
    <3>2. \A i \in DOMAIN batch' : (batch[1].seq + 1) + i - 1 = batch[1].seq + i
      BY <2>2, <2>3
    <3> QED
      BY <2>3, <2>5, <3>1, <3>2
  <2> QED
    BY <1>1, <2>4, <2>5, <2>6 DEF Consecutive
<1>5. applier' # "dispatched"
  BY <1>1, <1>2 DEF IInv, TypeOK
<1> QED
  BY <1>1, <1>2, <1>3, <1>4, <1>5, DeliveryStep DEF DeliveryInv

\* Every step of the applier keeps the invariant.
LEMMA ApplyDelivers ==
    ASSUME IInv, IInv', DeliveryInv, Apply
    PROVE  DeliveryInv'
<1>1. UNCHANGED <<log, disk, batch>> /\ frame # None
  BY DEF Apply, Refuse, HandlerRaises, DropUnhandled, Dispatch, MoveSeq, active, streamer,
     IInv, TypeOK
<1>2. /\ \A s \in DOMAIN log' : s \in DOMAIN log /\ log'[s].event = log[s].event
      /\ \A s \in DOMAIN disk' : disk'[s].event = log'[s].event
  BY <1>1 DEF DeliveryInv
<1>3. CASE Refuse
  <2>1. ~frame.signed
    BY <1>3, FrameFields, Numbers DEF Refuse, Duplicate
  <2>2. /\ frame' = None /\ last_applied_seq' = last_applied_seq
        /\ excused' = excused \cup {frame.event}
        /\ applier' = "ready" /\ handled' = handled /\ raised' = raised
    BY <1>3, <2>1 DEF Refuse, Answer, standby, effects
  <2> QED
    BY <1>1, <1>2, <2>2, AnswerFrontier, DeliveryStep
<1>4. CASE HandlerRaises
  <2>1. /\ frame' = None /\ last_applied_seq' = last_applied_seq
        /\ raised' = raised \cup {frame.event}
        /\ applier' = "ready" /\ handled' = handled /\ excused' = excused
    BY <1>4 DEF HandlerRaises, Answer, standby, effects
  <2> QED
    BY <1>1, <1>2, <2>1, AnswerFrontier, DeliveryStep
<1>5. CASE DropUnhandled
  <2>1. /\ frame' = None /\ last_applied_seq' = frame.seq
        /\ frame.event \notin Registered
        /\ applier' = "ready" /\ handled' = handled /\ excused' = excused
        /\ raised' = raised
    BY <1>5 DEF DropUnhandled, Answer, effects, refusals
  <2> QED
    BY <1>1, <1>2, <2>1, AnswerFrontier, DeliveryStep
<1>6. CASE Dispatch
  <2>1. /\ frame' = frame /\ last_applied_seq' = last_applied_seq
        /\ handled' = handled \cup {frame.event}
        /\ excused' = excused /\ raised' = raised
    BY <1>6 DEF Dispatch, refusals
  <2>2. Frontier' = Frontier /\ Frontier \in Nat /\ InFlight' = InFlight /\ Consecutive'
    BY <1>1, <2>1, FrontierFacts
    DEF Frontier, InFlight, Sent, Unsent, DeliveryInv, Consecutive
  <2> QED
    BY <1>2, <2>1, <2>2, DeliveryStep DEF Around
<1>7. CASE MoveSeq
  <2>1. /\ frame' = None /\ last_applied_seq' = frame.seq
        /\ applier = "dispatched" /\ applier' = "ready"
        /\ handled' = handled /\ excused' = excused /\ raised' = raised
    BY <1>7 DEF MoveSeq, Answer, effects, refusals
  <2>2. frame.event \in handled
    BY <2>1 DEF DeliveryInv
  <2> QED
    BY <1>1, <1>2, <2>1, <2>2, AnswerFrontier, DeliveryStep
<1> QED
  BY <1>3, <1>4, <1>5, <1>6, <1>7 DEF Apply

\* A death or a broken connection keeps the invariant.
LEMMA FailuresDeliver ==
    ASSUME IInv, IInv', DeliveryInv, Disconnect \/ ActiveDies \/ StandbyDies
    PROVE  DeliveryInv'
<1>1. /\ LoseConnection /\ frame' \in {frame, None}
      /\ UNCHANGED <<disk, last_applied_seq, handled, raised, excused>>
      /\ log' \in {log, disk}
      /\ applier' = "dispatched" => applier = "dispatched" /\ frame' = frame
  BY DEF Disconnect, ActiveDies, StandbyDies, active, standby, effects, refusals
<1>2. /\ \A s \in DOMAIN log' : s \in DOMAIN log /\ log'[s].event = log[s].event
      /\ \A s \in DOMAIN disk' : disk'[s].event = log'[s].event
  BY <1>1, LogFields DEF DeliveryInv
<1>3. applier' = "dispatched" => frame'.event \in handled'
  BY <1>1 DEF DeliveryInv
<1> QED
  BY <1>1, <1>2, <1>3, LossFrontier, DeliveryStep

\* The steps that only sign, commit or acknowledge keep the invariant.
LEMMA RowsDeliver ==
    ASSUME IInv, IInv', DeliveryInv, Write \/ Connect \/ ReceiveAck \/ UNCHANGED vars
    PROVE  DeliveryInv'
<1>1. UNCHANGED <<batch, frame, applier, last_applied_seq, handled, raised, excused>>
  BY DEF Write, Sign, Commit, Connect, ReceiveAck, vars, active, streamer, standby, effects,
     refusals
<1>2. \A s \in DOMAIN log' : s \in DOMAIN log /\ log'[s].event = log[s].event
  <2>1. ASSUME NEW r \in unsigned, Sign(r), NEW s \in DOMAIN log'
        PROVE  s \in DOMAIN log /\ log'[s].event = log[s].event
    <3>1. log' = [log EXCEPT ![r].signed = TRUE] /\ r \in DOMAIN log
      BY <2>1 DEF Sign, IInv, TypeOK
    <3>2. log[r] \in Row /\ DOMAIN log' = DOMAIN log
      BY <3>1, LogFields
    <3> QED
      BY <3>1, <3>2 DEF Row
  <2>2. CASE Commit \/ Connect \/ ReceiveAck \/ UNCHANGED vars
    BY <2>2 DEF Commit, Connect, ReceiveAck, vars, active
  <2> QED
    BY <2>1, <2>2 DEF Write
<1>3. \A s \in DOMAIN disk' : disk'[s].event = log'[s].event
  <2>1. disk' \in {disk, log'}
    BY DEF Write, Sign, Commit, Connect, ReceiveAck, _maybe_trim, vars, active
  <2>2. \A s \in DOMAIN disk : s \in DOMAIN log'
    <3>1. DOMAIN log' = DOMAIN log
      BY DEF Write, Sign, Commit, Connect, ReceiveAck, vars, active
    <3> QED
      BY <3>1, LogFields
  <2> QED
    BY <1>2, <2>1, <2>2 DEF DeliveryInv
<1>4. Frontier' = Frontier /\ Frontier \in Nat /\ InFlight' = InFlight /\ Consecutive'
  BY <1>1, FrontierFacts DEF Frontier, InFlight, Sent, Unsent, DeliveryInv, Consecutive
<1>5. applier' = "dispatched" => frame'.event \in handled'
  BY <1>1 DEF DeliveryInv
<1> QED
  BY <1>1, <1>2, <1>3, <1>4, <1>5, DeliveryStep DEF Around

\* What the standby leaves behind is settled, at first and after every step.
LEMMA DeliverySteps ==
    /\ Init => DeliveryInv
    /\ IInv /\ IInv' /\ DeliveryInv /\ [Next]_vars => DeliveryInv'
<1>1. Init => DeliveryInv
  BY DEF Init, DeliveryInv, InFlight, Sent, Unsent, Consecutive
<1>2. IInv /\ IInv' /\ DeliveryInv /\ [Next]_vars => DeliveryInv'
  BY InsertDelivers, RowsDeliver, FetchDelivers, SendDelivers, ApplyDelivers,
     FailuresDeliver DEF Next, Stream
<1> QED
  BY <1>1, <1>2

\* An event the standby has gone past was handled, unless it has no handler,
\* its handler raised, or it was refused or got a used seq.
THEOREM PassedHandled == Spec => []PassedIsHandled
<1>1. IInv /\ DeliveryInv => PassedIsHandled
  <2> SUFFICES ASSUME IInv, DeliveryInv,
                      NEW s \in 1..Min({last_applied_seq, Len(log)})
               PROVE  Settled(log[s].event)
    BY DEF PassedIsHandled, Settled
  <2>1. last_applied_seq \in Int /\ Len(log) \in Int
    BY Numbers
  <2>2. /\ Min({last_applied_seq, Len(log)}) \in {last_applied_seq, Len(log)}
        /\ Min({last_applied_seq, Len(log)}) <= last_applied_seq
        /\ Min({last_applied_seq, Len(log)}) <= Len(log)
    BY <2>1, MinPair
  <2>3. s \in DOMAIN log /\ s <= last_applied_seq
    BY <2>1, <2>2, LogFields
  <2> QED
    BY <2>1, <2>2, FrontierFacts DEF DeliveryInv
<1> QED
  BY <1>1, DeliverySteps, Invariant, PTL DEF Spec

------------------------------------------------------------------------------
(* What the standby repeats. *)

\* Events that may still reach the standby's handler.
ToCome == {p[2] : p \in {q \in Around : last_applied_seq < q[1]}}

\* The repetitions that deaths of the standby have made possible and that
\* have not happened: handled events that may come again, except the one
\* whose handler has just run.
Owed == (handled \cap ToCome) \ (IF applier = "dispatched" THEN {frame.event} ELSE {})

\* RepeatsNeedDeaths is not inductive: a death pays for a repetition that
\* comes later.  An event has one seq wherever it is, and none is handled
\* before it is recorded, so a handled event that is passed never comes back.
RepeatInv ==
    /\ \A p, q \in Around : p[2] = q[2] => p[1] = q[1]
    /\ \A p \in Around : p[2] <= recorded
    /\ \A e \in handled : e <= recorded
    /\ repeats + Cardinality(Owed) <= deaths

\* The events around are numbers.
LEMMA AroundFields ==
    ASSUME IInv, NEW p \in Around
    PROVE  p[1] \in Nat /\ p[2] \in Event /\ p[2] \in Nat
<1>1. CASE p \in Sent
  BY <1>1, FrameFields, EventRange DEF Sent
<1>2. CASE p \in Unsent
  <2>1. PICK i \in DOMAIN batch : p = <<batch[i].seq, batch[i].event>>
    BY <1>2 DEF Unsent
  <2>2. batch[i].seq \in Nat /\ batch[i].event \in Event
    <3>1. batch[i] \in Frame /\ batch[i].seq \in Nat
      BY BatchFields
    <3> QED
      BY <3>1 DEF Frame
  <2> QED
    BY <2>1, <2>2, EventRange
<1>3. CASE p \in Logged
  <2>1. PICK s \in DOMAIN log : p = <<s, log[s].event>>
    BY <1>3 DEF Logged
  <2>2. s \in Nat /\ log[s].event \in Event
    <3>1. s \in 1..Len(log) /\ Len(log) \in Nat /\ log[s] \in Row
      BY LogFields
    <3> QED
      BY <3>1 DEF Row
  <2> QED
    BY <2>1, <2>2, EventRange
<1> QED
  BY <1>1, <1>2, <1>3 DEF Around, InFlight

\* What is owed is finite.
LEMMA OwedFinite ==
    ASSUME IInv
    PROVE  /\ IsFiniteSet(Owed) /\ Cardinality(Owed) \in Nat
           /\ repeats \in Nat /\ deaths \in Nat
<1>1. Owed \subseteq Event /\ repeats \in Nat
  BY SyncAssumption DEF Owed, IInv, TypeOK
<1>2. IsFiniteSet(Owed)
  BY <1>1, SyncAssumption, FS_Subset
<1> QED
  BY <1>1, <1>2, FS_CardinalityType, Numbers

\* A step with nothing new owed and nothing repeated keeps the invariant.
LEMMA RepeatStep ==
    ASSUME IInv, RepeatInv, Around' \subseteq Around,
           recorded' = recorded, handled' = handled, repeats' = repeats,
           deaths' = deaths, Owed' \subseteq Owed
    PROVE  RepeatInv'
<1>1. /\ IsFiniteSet(Owed) /\ Cardinality(Owed) \in Nat
      /\ repeats \in Nat /\ deaths \in Nat
  BY OwedFinite
<1>2. Cardinality(Owed') <= Cardinality(Owed) /\ Cardinality(Owed') \in Nat
  BY <1>1, FS_Subset, FS_CardinalityType
<1>3. repeats' + Cardinality(Owed') <= deaths'
  BY <1>1, <1>2 DEF RepeatInv
<1> QED
  BY <1>3 DEF RepeatInv

\* A step that handles nothing and moves nothing the standby has passed back
\* owes nothing new.
LEMMA QuietOwed ==
    ASSUME IInv, Around' \subseteq Around, handled' = handled,
           last_applied_seq' \in Nat, last_applied_seq <= last_applied_seq',
           applier' = applier, applier = "dispatched" => frame' = frame
    PROVE  Owed' \subseteq Owed
<1>1. ToCome' \subseteq ToCome
  <2> SUFFICES ASSUME NEW p \in Around, last_applied_seq' < p[1]
               PROVE  last_applied_seq < p[1]
    BY DEF ToCome
  <2> QED
    BY AroundFields, Numbers
<1> QED
  BY <1>1 DEF Owed

\* Rows that stay as they are, and frames with what the log says, bring
\* nothing new around.
LEMMA QuietAround ==
    ASSUME InFlight' \subseteq Around,
           \A s \in DOMAIN log' : s \in DOMAIN log /\ log'[s].event = log[s].event
    PROVE  Around' \subseteq Around
BY DEF Around, Logged

LEMMA InsertRepeats ==
    ASSUME IInv, RepeatInv, Insert
    PROVE  RepeatInv'
<1> DEFINE n == Len(log) + 1
           new == <<n, recorded + 1>>
<1>1. /\ log' = Append(log, [event |-> recorded + 1, signed |-> FALSE])
      /\ recorded' = recorded + 1
      /\ UNCHANGED <<batch, frame, applier, last_applied_seq, handled, repeats, deaths>>
  BY DEF Insert, streamer, standby, effects, bounds
<1>2. /\ DOMAIN log' = 1..n /\ n \in Nat /\ DOMAIN log = 1..Len(log) /\ Len(log) \in Nat
      /\ \A s \in 1..Len(log) : log'[s] = log[s]
      /\ log'[n].event = recorded + 1
  BY <1>1, LogFields
<1>3. Around' \subseteq Around \cup {new}
  <2>1. InFlight' = InFlight
    BY <1>1 DEF InFlight, Sent, Unsent
  <2>2. Logged' \subseteq Logged \cup {new}
    <3> SUFFICES ASSUME NEW s \in 1..n
                 PROVE  <<s, log'[s].event>> \in Logged \cup {new}
      BY <1>2 DEF Logged
    <3>1. CASE s = n
      BY <1>2, <3>1
    <3>2. CASE s # n
      <4>1. s \in DOMAIN log /\ log'[s] = log[s]
        BY <1>2, <3>2
      <4> QED
        BY <4>1 DEF Logged
    <3> QED
      BY <3>1, <3>2
  <2> QED
    BY <2>1, <2>2 DEF Around
<1> HIDE DEF new
<1>4. new[1] = n /\ new[2] = recorded + 1
  BY DEF new
<1>5. recorded \in Nat
  BY Numbers
<1>6. \A p \in Around : p[2] # new[2]
  <2> SUFFICES ASSUME NEW p \in Around
               PROVE  p[2] # recorded + 1
    BY <1>4
  <2>1. p[2] <= recorded /\ p[2] \in Nat
    BY AroundFields DEF RepeatInv
  <2> QED
    BY <1>5, <2>1
<1>7. \A p, q \in Around' : p[2] = q[2] => p[1] = q[1]
  BY <1>3, <1>6 DEF RepeatInv
<1>8. \A p \in Around' : p[2] <= recorded'
  <2> SUFFICES ASSUME NEW p \in Around'
               PROVE  p[2] <= recorded + 1
    BY <1>1
  <2>1. CASE p \in Around
    BY <1>5, <2>1, AroundFields DEF RepeatInv
  <2>2. CASE p = new
    BY <1>4, <1>5, <2>2
  <2> QED
    BY <1>3, <2>1, <2>2
<1>9. \A e \in handled : e \in Nat /\ e <= recorded
  <2>1. handled \subseteq Event
    BY SyncAssumption DEF IInv, TypeOK
  <2> QED
    BY <2>1, EventRange DEF RepeatInv
<1>10. Owed' \subseteq Owed
  <2> SUFFICES ASSUME NEW e \in handled, NEW p \in Around', last_applied_seq < p[1], e = p[2]
               PROVE  e \in ToCome
    BY <1>1 DEF Owed, ToCome
  <2>1. e # recorded + 1
    BY <1>5, <1>9
  <2>2. p \in Around
    BY <1>3, <1>4, <2>1
  <2> QED
    BY <2>2 DEF ToCome
<1>11. Cardinality(Owed') <= Cardinality(Owed) /\ Cardinality(Owed') \in Nat
  BY <1>10, OwedFinite, FS_Subset, FS_CardinalityType
<1>12. repeats' + Cardinality(Owed') <= deaths'
  BY <1>1, <1>11, OwedFinite DEF RepeatInv
<1>13. \A e \in handled' : e <= recorded'
  BY <1>1, <1>5, <1>9
<1> QED
  BY <1>7, <1>8, <1>12, <1>13 DEF RepeatInv

\* The handler of an event that may come again pays its debt.
LEMMA DispatchRepeats ==
    ASSUME IInv, RepeatInv, Dispatch
    PROVE  RepeatInv'
<1> DEFINE e == frame.event
<1>1. /\ frame # None /\ applier = "ready" /\ applier' = "dispatched"
      /\ handled' = handled \cup {e}
      /\ repeats' = IF e \in handled THEN repeats + 1 ELSE repeats
      /\ UNCHANGED <<log, batch, frame, last_applied_seq, recorded, deaths>>
  BY DEF Dispatch, active, streamer, bounds
<1>2. Around' = Around /\ ToCome' = ToCome
  BY <1>1 DEF Around, Logged, InFlight, Sent, Unsent, ToCome
<1>3. <<frame.seq, e>> \in Around /\ last_applied_seq < frame.seq
  BY <1>1, FrameFields DEF Around, InFlight, Sent
<1>4. e \in ToCome /\ e <= recorded
  BY <1>3 DEF ToCome, RepeatInv
<1>5. Owed' = Owed \ {e}
  BY <1>1, <1>2 DEF Owed
<1>6. /\ IsFiniteSet(Owed) /\ Cardinality(Owed) \in Nat
      /\ repeats \in Nat /\ deaths \in Nat
  BY OwedFinite
<1>7. repeats' + Cardinality(Owed') <= deaths'
  <2>1. CASE e \in handled
    <3>1. e \in Owed
      BY <1>1, <1>4, <2>1 DEF Owed
    <3>2. Cardinality(Owed') = Cardinality(Owed) - 1
      BY <1>5, <1>6, <3>1, FS_RemoveElement
    <3> QED
      BY <1>1, <1>6, <2>1, <3>2 DEF RepeatInv
  <2>2. CASE e \notin handled
    <3>1. Owed' = Owed
      BY <1>5, <2>2 DEF Owed
    <3> QED
      BY <1>1, <2>2, <3>1 DEF RepeatInv
  <2> QED
    BY <2>1, <2>2
<1>8. \A x \in handled' : x <= recorded'
  BY <1>1, <1>4 DEF RepeatInv
<1> QED
  BY <1>1, <1>2, <1>7, <1>8 DEF RepeatInv

\* What is passed never comes again.
LEMMA MoveSeqRepeats ==
    ASSUME IInv, RepeatInv, MoveSeq
    PROVE  RepeatInv'
<1>1. /\ applier = "dispatched" /\ applier' = "ready" /\ frame' = None
      /\ last_applied_seq' = frame.seq
      /\ UNCHANGED <<log, batch, handled, repeats, recorded, deaths>>
  BY DEF MoveSeq, Answer, active, streamer, effects, bounds
<1>2. frame # None
  BY <1>1 DEF IInv, TypeOK
<1>3. <<frame.seq, frame.event>> \in Around /\ last_applied_seq < frame.seq
      /\ frame.seq \in Nat /\ last_applied_seq \in Nat
  BY <1>2, FrameFields, Numbers DEF Around, InFlight, Sent
<1>4. Around' \subseteq Around
  BY <1>1 DEF Around, Logged, InFlight, Sent, Unsent
<1>5. Owed' \subseteq Owed
  <2> SUFFICES ASSUME NEW p \in Around', frame.seq < p[1], p[2] \in handled
               PROVE  p[2] \in ToCome /\ p[2] # frame.event
    BY <1>1 DEF Owed, ToCome
  <2>1. p \in Around /\ p[1] \in Nat
    BY <1>4, AroundFields
  <2>2. last_applied_seq < p[1]
    BY <1>3, <2>1
  <2>3. p[1] # frame.seq
    BY <1>3, <2>1
  <2>4. p[2] # frame.event
    BY <1>3, <2>1, <2>3 DEF RepeatInv
  <2> QED
    BY <2>1, <2>2, <2>4 DEF ToCome
<1> QED
  BY <1>1, <1>4, <1>5, RepeatStep

\* A death between the handler and the seq owes one repetition.
LEMMA StandbyDiesRepeats ==
    ASSUME IInv, RepeatInv, StandbyDies
    PROVE  RepeatInv'
<1>1. /\ LoseConnection /\ frame' = None /\ applier' = "ready" /\ deaths' = deaths + 1
      /\ UNCHANGED <<log, last_applied_seq, handled, repeats, recorded>>
  BY DEF StandbyDies, active, effects
<1>2. batch' = <<>> /\ DOMAIN batch' = {}
  BY <1>1 DEF LoseConnection
<1>3. Around' \subseteq Around
  BY <1>1, <1>2 DEF Around, Logged, InFlight, Sent, Unsent
<1>4. Owed' \subseteq Owed \cup {frame.event}
  BY <1>1, <1>3 DEF Owed, ToCome
<1>5. /\ IsFiniteSet(Owed) /\ Cardinality(Owed) \in Nat
      /\ repeats \in Nat /\ deaths \in Nat
  BY OwedFinite
<1>6. /\ IsFiniteSet(Owed \cup {frame.event})
      /\ Cardinality(Owed \cup {frame.event}) <= Cardinality(Owed) + 1
      /\ Cardinality(Owed \cup {frame.event}) \in Nat
  <2>1. /\ IsFiniteSet(Owed \cup {frame.event})
        /\ Cardinality(Owed \cup {frame.event})
               = IF frame.event \in Owed THEN Cardinality(Owed) ELSE Cardinality(Owed) + 1
    BY <1>5, FS_AddElement
  <2> QED
    BY <1>5, <2>1
<1>7. Cardinality(Owed') <= Cardinality(Owed) + 1 /\ Cardinality(Owed') \in Nat
  <2>1. /\ IsFiniteSet(Owed')
        /\ Cardinality(Owed') <= Cardinality(Owed \cup {frame.event})
    BY <1>4, <1>6, FS_Subset
  <2> QED
    BY <1>5, <1>6, <2>1, FS_CardinalityType
<1>8. repeats' + Cardinality(Owed') <= deaths'
  BY <1>1, <1>5, <1>7 DEF RepeatInv
<1> QED
  BY <1>1, <1>3, <1>8 DEF RepeatInv

\* The other steps bring nothing new around and repeat nothing.
LEMMA OtherRepeats ==
    ASSUME IInv, DeliveryInv, RepeatInv,
           \/ Write \/ Stream
           \/ Refuse \/ HandlerRaises \/ DropUnhandled
           \/ Disconnect \/ ActiveDies
           \/ UNCHANGED vars
    PROVE  RepeatInv'
<1>1. /\ UNCHANGED <<recorded, handled, repeats, deaths, applier>>
      /\ applier = "dispatched" => frame' = frame
  <2>1. CASE Write \/ Stream \/ UNCHANGED vars
    <3>1. UNCHANGED <<recorded, handled, repeats, deaths, applier>>
      BY <2>1 DEF Write, Sign, Commit, Stream, Connect, Fetch, Send, ReceiveAck, vars, active,
         standby, effects, bounds
    <3>2. frame' = frame \/ Send
      BY <2>1 DEF Write, Sign, Commit, Stream, Connect, Fetch, ReceiveAck, vars
    <3>3. Send => applier # "dispatched"
      BY SentRows DEF IInv, TypeOK
    <3> QED
      BY <3>1, <3>2, <3>3
  <2>2. CASE Refuse \/ HandlerRaises \/ DropUnhandled
    BY <2>2 DEF Refuse, HandlerRaises, DropUnhandled, active, standby, effects, bounds
  <2>3. CASE Disconnect \/ ActiveDies
    BY <2>3 DEF Disconnect, ActiveDies, active, standby, effects
  <2> QED
    BY <2>1, <2>2, <2>3
<1>2. last_applied_seq' \in Nat /\ last_applied_seq <= last_applied_seq'
  <2>1. CASE DropUnhandled
    BY <2>1, FrameFields, Numbers DEF DropUnhandled
  <2>2. CASE ~DropUnhandled
    <3>1. last_applied_seq' = last_applied_seq
      BY <2>2 DEF Write, Sign, Commit, Stream, Connect, Fetch, Send, ReceiveAck, Refuse,
         HandlerRaises, Disconnect, ActiveDies, vars, standby
    <3> QED
      BY <3>1, Numbers
  <2> QED
    BY <2>1, <2>2
<1>3. \A s \in DOMAIN log' : s \in DOMAIN log /\ log'[s].event = log[s].event
  <2>1. ASSUME NEW r \in unsigned, Sign(r), NEW s \in DOMAIN log'
        PROVE  s \in DOMAIN log /\ log'[s].event = log[s].event
    <3>1. log' = [log EXCEPT ![r].signed = TRUE] /\ r \in DOMAIN log
      BY <2>1 DEF Sign, IInv, TypeOK
    <3>2. log[r] \in Row /\ DOMAIN log' = DOMAIN log
      BY <3>1, LogFields
    <3> QED
      BY <3>1, <3>2 DEF Row
  <2>2. CASE ActiveDies
    BY <2>2, LogFields DEF ActiveDies, DeliveryInv
  <2>3. CASE \/ Commit \/ Stream \/ Refuse \/ HandlerRaises \/ DropUnhandled \/ Disconnect
             \/ UNCHANGED vars
    BY <2>3 DEF Commit, Stream, Connect, Fetch, Send, ReceiveAck, Refuse, HandlerRaises,
       DropUnhandled, Disconnect, vars, active
  <2> QED
    BY <2>1, <2>2, <2>3 DEF Write
<1>4. InFlight' \subseteq Around
  <2>1. CASE Fetch
    BY <2>1, FetchedRows DEF InFlight, Sent, Around
  <2>2. CASE Send
    BY <2>2, SentRows DEF Around
  <2>3. CASE Write \/ Connect \/ ReceiveAck \/ UNCHANGED vars
    <3>1. UNCHANGED <<batch, frame>>
      BY <2>3 DEF Write, Sign, Commit, Connect, ReceiveAck, vars, streamer
    <3> QED
      BY <3>1 DEF InFlight, Sent, Unsent, Around
  <2>4. CASE Refuse \/ HandlerRaises \/ DropUnhandled
    <3>1. batch' = batch /\ frame' = None
      BY <2>4 DEF Refuse, HandlerRaises, DropUnhandled, Answer, streamer
    <3> QED
      BY <3>1 DEF InFlight, Sent, Unsent, Around
  <2>5. CASE Disconnect \/ ActiveDies
    <3>1. batch' = <<>> /\ DOMAIN batch' = {} /\ frame' \in {frame, None}
      BY <2>5 DEF Disconnect, ActiveDies, LoseConnection
    <3> QED
      BY <3>1 DEF InFlight, Sent, Unsent, Around
  <2> QED
    BY <2>1, <2>2, <2>3, <2>4, <2>5 DEF Stream
<1>5. Around' \subseteq Around
  BY <1>3, <1>4, QuietAround
<1> QED
  BY <1>1, <1>2, <1>5, QuietOwed, RepeatStep

\* Every repeated run of a handler is paid for by a death of the standby.
THEOREM RepeatsPaid == Spec => []RepeatsNeedDeaths
<1>1. Init => RepeatInv
  <2> SUFFICES ASSUME Init
               PROVE  RepeatInv
    OBVIOUS
  <2>1. Around = {} /\ Owed = {}
    BY DEF Init, Around, Logged, InFlight, Sent, Unsent, Owed
  <2> QED
    BY <2>1, FS_EmptySet DEF Init, RepeatInv
<1>2. IInv /\ DeliveryInv /\ RepeatInv /\ [Next]_vars => RepeatInv'
  BY InsertRepeats, DispatchRepeats, MoveSeqRepeats, StandbyDiesRepeats, OtherRepeats
  DEF Next, Apply
<1>3. IInv /\ RepeatInv => RepeatsNeedDeaths
  BY OwedFinite DEF RepeatInv, RepeatsNeedDeaths
<1> QED
  BY <1>1, <1>2, <1>3, DeliverySteps, Invariant, PTL DEF Spec

==============================================================================
