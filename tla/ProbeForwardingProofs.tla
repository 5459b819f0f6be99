------------------------- MODULE ProbeForwardingProofs -------------------------
(***************************************************************************)
(* Theorems about ProbeForwarding, for every number of processes, every    *)
(* spool and chunk size, and every number of records, rotations and late   *)
(* requests: the types; that no batch is lost, skipped or refused as out   *)
(* of sequence; that every line the cursor has passed is staged; that what *)
(* the collector has of a file is its beginning; and that the probe and    *)
(* its collector implement ProbeChannel.                                   *)
(***************************************************************************)
EXTENDS ProbeForwarding, SequenceTheorems, TLAPS

\* A process in the middle of a command has a command; one that follows holds
\* a file the log has named, and one that has a request under way or answered
\* holds a batch.
Held ==
    \A p \in Procs :
        /\ pc[p] # "idle" => todo[p] # <<>>
        /\ pc[p] \in {"opened", "read"} => view[p].ident \in DOMAIN files
        /\ pc[p] \in {"sent", "accepted", "duplicate"} => batch[p] \in Batch

TypeInv == TypeOK /\ Held

\* The part of it about the processes.
ProcsOK ==
    /\ todo \in [Procs -> Seq(Commands)]
    /\ pc \in [Procs -> {"idle", "opened", "read", "sent", "accepted", "duplicate"}]
    /\ view \in [Procs -> View]
    /\ batch \in [Procs -> Batch \cup {NoBatch}]
    /\ sent \in [Procs -> Nat]
    /\ Held

-------------------------------------------------------------------------------
(* Facts about the operators. *)

LEMMA MinPair ==
    ASSUME NEW a \in Int, NEW b \in Int
    PROVE  Min({a, b}) \in {a, b} /\ Min({a, b}) <= a /\ Min({a, b}) <= b
BY DEF Min

\* Appending to or emptying a file leaves the others and their number.
LEMMA FileUpdate ==
    ASSUME TypeOK, NEW f \in Seq(Nat)
    PROVE  LET new == [files EXCEPT ![Current] = f]
           IN  /\ new \in Seq(Seq(Nat)) /\ new # <<>>
               /\ Len(new) = Len(files) /\ DOMAIN new = DOMAIN files
BY DEF TypeOK, Current

\* What a follow reads is a stretch of its file, as long as the file allows.
LEMMA UnreadLines ==
    ASSUME TypeOK, NEW ident \in DOMAIN files
    PROVE  LET from == Offset(ident)
               recs == Unread(ident)
           IN  /\ from \in 0..Len(files[ident]) /\ recs \in Seq(Nat)
               /\ from + Len(recs) <= Len(files[ident])
               /\ \A i \in 1..Len(recs) : recs[i] = files[ident][from + i]
<1> DEFINE from == Offset(ident)
           last == Min({Len(files[ident]), from + Chunk})
<1>1. files[ident] \in Seq(Nat) /\ cursor[1] \in Nat /\ cursor[2] \in Nat /\ Chunk \in Nat
  BY ProbeAssumption DEF TypeOK
<1>2. from \in 0..Len(files[ident])
  BY <1>1 DEF Offset, Rotated
<1>3. last \in from..Len(files[ident])
  <2>1. Len(files[ident]) \in Int /\ from + Chunk \in Int /\ from \in Int
    BY <1>1, <1>2
  <2> HIDE DEF from
  <2>2. /\ last \in {Len(files[ident]), from + Chunk}
        /\ last <= Len(files[ident]) /\ last <= from + Chunk
    BY <2>1, MinPair
  <2> QED
    BY <1>1, <1>2, <2>1, <2>2
<1> HIDE DEF from, last
<1>4. ASSUME NEW i \in from + 1 .. last
      PROVE  files[ident][i] \in Nat
  <2>1. i \in 1..Len(files[ident])
    BY <1>1, <1>2, <1>3
  <2> QED
    BY <1>1, <2>1, ElementOfSeq
<1>5. /\ SubSeq(files[ident], from + 1, last) \in Seq(Nat)
      /\ Len(SubSeq(files[ident], from + 1, last)) = last - from
      /\ \A i \in 1..last - from : SubSeq(files[ident], from + 1, last)[i] = files[ident][from + i]
  <2>1. /\ SubSeq(files[ident], from + 1, last) \in Seq(Nat)
        /\ Len(SubSeq(files[ident], from + 1, last)) =
              IF from + 1 <= last THEN last - (from + 1) + 1 ELSE 0
        /\ \A i \in 1..last - (from + 1) + 1 :
              SubSeq(files[ident], from + 1, last)[i] = files[ident][(from + 1) + i - 1]
    <3>1. from + 1 \in Int /\ last \in Int
      BY <1>2, <1>3
    <3> QED
      BY <1>4, <3>1, SubSeqProperties
  <2>2. from \in Int /\ last \in Int /\ from <= last
    BY <1>2, <1>3
  <2> QED
    BY <2>1, <2>2
<1>6. Unread(ident) = SubSeq(files[ident], from + 1, last)
  BY DEF Unread, from, last
<1>7. from + Len(Unread(ident)) <= Len(files[ident])
  BY <1>1, <1>2, <1>3, <1>5, <1>6
<1>8. Len(Unread(ident)) = last - from
  BY <1>5, <1>6
<1> QED
  BY <1>2, <1>5, <1>6, <1>7, <1>8 DEF from

LEMMA NewBatchType ==
    ASSUME TypeOK, NEW kind \in {"events", "heartbeat"}, NEW recs \in Seq(Nat)
    PROVE  NewBatch(kind, recs) \in Batch
BY DEF TypeOK, NewBatch, Batch

LEMMA EnqueueTypes ==
    ASSUME TypeOK, NEW kind \in {"events", "heartbeat"}, NEW recs \in Seq(Nat),
           Enqueue(NewBatch(kind, recs))
    PROVE  queue' \subseteq Batch /\ next' \in Nat \ {0}
BY NewBatchType DEF TypeOK, Enqueue

-------------------------------------------------------------------------------
(* Types. *)

\* Ending a command keeps the types of the processes.
LEMMA ContinueTypes ==
    ASSUME TypeInv, NEW p \in Procs, NEW commands \in Seq(Commands),
           Continue(p, commands), files' = files
    PROVE  ProcsOK'
<1>1. NoView \in View
  BY DEF NoView, View
<1> QED
  BY <1>1 DEF TypeInv, TypeOK, Held, ProcsOK, Continue

LEMMA SucceedTypes ==
    ASSUME TypeInv, NEW p \in Procs, todo[p] # <<>>, Succeed(p), files' = files
    PROVE  ProcsOK'
<1>1. Tail(todo[p]) \in Seq(Commands)
  BY HeadTailProperties DEF TypeInv, TypeOK
<1> QED
  BY <1>1, ContinueTypes DEF Succeed

LEMMA FailTypes ==
    ASSUME TypeInv, NEW p \in Procs, Fail(p), files' = files
    PROVE  ProcsOK'
<1>1. <<>> \in Seq(Commands)
  OBVIOUS
<1> QED
  BY <1>1, ContinueTypes DEF Fail

\* The log's own steps.
LEMMA LogTypes ==
    ASSUME TypeInv, Log
    PROVE  TypeInv'
<1>1. CASE WriteRecord
  <2>1. Append(files[Current], written + 1) \in Seq(Nat)
    BY DEF TypeInv, TypeOK, Current
  <2>2. files' \in Seq(Seq(Nat)) /\ files' # <<>> /\ DOMAIN files' = DOMAIN files
    <3> DEFINE f == Append(files[Current], written + 1)
    <3>1. files' = [files EXCEPT ![Current] = f]
      BY <1>1 DEF WriteRecord
    <3> QED
      BY <2>1, <3>1, FileUpdate DEF TypeInv
  <2> QED
    <3>1. /\ written' \in Nat
          /\ UNCHANGED <<truncated, cursor, queue, next, todo, pc, view, batch, sent,
                         late, receipts, events, health>>
      BY <1>1 DEF WriteRecord, TypeInv, TypeOK, spool, procs, collector
    <3> QED
      BY <2>2, <3>1 DEF TypeInv, TypeOK, Held
<1>2. CASE Rotate
  <2>1. files' \in Seq(Seq(Nat)) /\ files' # <<>> /\ DOMAIN files \subseteq DOMAIN files'
    <3>1. files' = Append(files, <<>>) /\ files \in Seq(Seq(Nat)) /\ <<>> \in Seq(Nat)
      BY <1>2 DEF Rotate, TypeInv, TypeOK
    <3>2. /\ files' \in Seq(Seq(Nat)) /\ files' # <<>> /\ Len(files) \in Nat
          /\ Len(files') = Len(files) + 1
      BY <3>1, AppendProperties, LenProperties
    <3> QED
      BY <3>1, <3>2
  <2> QED
    BY <1>2, <2>1 DEF Rotate, TypeInv, TypeOK, Held, spool, procs, collector
<1>3. CASE Truncate
  <2>1. Current \in Nat /\ <<>> \in Seq(Nat)
    BY DEF TypeInv, TypeOK, Current
  <2>2. files' \in Seq(Seq(Nat)) /\ files' # <<>> /\ DOMAIN files' = DOMAIN files
    BY <1>3, <2>1, FileUpdate DEF Truncate, TypeInv
  <2> QED
    BY <1>3, <2>1, <2>2 DEF Truncate, TypeInv, TypeOK, Held, spool, procs, collector
<1> QED
  BY <1>1, <1>2, <1>3 DEF Log

\* The steps of a process, between two requests.
LEMMA StepTypes ==
    ASSUME TypeInv, NEW p \in Procs, Step(p)
    PROVE  TypeInv'
<1>1. CASE FollowOpen(p)
  <2>1. Current \in DOMAIN files
    BY DEF TypeInv, TypeOK, Current
  <2>2. [NoView EXCEPT !.ident = Current] \in View
    <3>1. Current \in Nat /\ <<>> \in Seq(Nat)
      BY DEF Current, TypeInv, TypeOK
    <3> QED
      BY <3>1 DEF NoView, View
  <2>3. /\ view' \in [Procs -> View] /\ view'[p].ident = Current
        /\ \A q \in Procs \ {p} : view'[q] = view[q]
    BY <1>1, <2>2 DEF FollowOpen, TypeInv, TypeOK, NoView
  <2> QED
    BY <1>1, <2>1, <2>3 DEF FollowOpen, Following, Running, TypeInv, TypeOK, Held,
       logs, spool, collector
<1>2. CASE FollowRead(p)
  <2>1. view[p].ident \in DOMAIN files /\ todo[p] # <<>>
    BY <1>2 DEF FollowRead, TypeInv, Held
  <2>2. ProcsOK'
    <3>1. CASE Unread(view[p].ident) = <<>>
      BY <1>2, <2>1, <3>1, SucceedTypes DEF FollowRead, logs
    <3>2. CASE Unread(view[p].ident) # <<>>
      <4> DEFINE v == [ident |-> view[p].ident, from |-> Offset(view[p].ident),
                       recs |-> Unread(view[p].ident)]
      <4>1. v \in View
        <5>1. view[p].ident \in Nat
          BY DEF View, TypeInv, TypeOK
        <5>2. /\ Offset(view[p].ident) \in Nat
              /\ Unread(view[p].ident) \in Seq(Nat)
          BY <2>1, UnreadLines DEF TypeInv
        <5> QED
          BY <5>1, <5>2 DEF View
      <4>2. view' = [view EXCEPT ![p] = v] /\ pc' = [pc EXCEPT ![p] = "read"]
            /\ UNCHANGED <<files, todo, batch, sent>>
        BY <1>2, <3>2 DEF FollowRead, logs
      <4>3. v.ident = view[p].ident
        OBVIOUS
      <4> HIDE DEF v
      <4> QED
        BY <4>1, <4>2, <4>3, <2>1 DEF TypeInv, TypeOK, Held, ProcsOK
    <3> QED
      BY <3>1, <3>2
  <2> QED
    BY <1>2, <2>2 DEF FollowRead, TypeInv, TypeOK, ProcsOK, logs, spool, collector
<1>3. CASE FollowReviewNeeded(p) \/ FollowRefused(p) \/ AckOutOfOrder(p) \/ RefuseBatch(p)
  <2>1. ProcsOK'
    BY <1>3, FailTypes
       DEF FollowReviewNeeded, FollowRefused, AckOutOfOrder, RefuseBatch, logs
  <2> QED
    BY <1>3, <2>1 DEF FollowReviewNeeded, FollowRefused, AckOutOfOrder, RefuseBatch,
       TypeInv, TypeOK, ProcsOK, logs, spool, collector
<1>4. CASE FollowStage(p)
  <2>1. view[p] \in View /\ todo[p] # <<>>
    BY <1>4 DEF FollowStage, TypeInv, TypeOK, Held
  <2>2. view[p].ident \in Nat /\ view[p].from \in Nat /\ view[p].recs \in Seq(Nat)
    BY <2>1 DEF View
  <2>3. ProcsOK'
    BY <1>4, <2>1, SucceedTypes DEF FollowStage, logs
  <2>4. queue' \subseteq Batch /\ next' \in Nat \ {0}
    BY <1>4, <2>2, EnqueueTypes DEF FollowStage, TypeInv
  <2>5. cursor' \in Nat \X Nat
    BY <1>4, <2>2 DEF FollowStage
  <2> QED
    BY <1>4, <2>3, <2>4, <2>5 DEF FollowStage, TypeInv, TypeOK, ProcsOK, logs, collector
<1>5. CASE StageFile(p)
  <2>1. todo[p] # <<>>
    BY <1>5 DEF StageFile, Running
  <2>2. PICK ident \in DOMAIN files :
           \/ Enqueue(NewBatch("events", files[ident])) /\ Succeed(p)
           \/ Fail(p) /\ UNCHANGED spool
    BY <1>5 DEF StageFile
  <2>3. files[ident] \in Seq(Nat)
    BY DEF TypeInv, TypeOK
  <2>4. ProcsOK'
    BY <1>5, <2>1, <2>2, SucceedTypes, FailTypes DEF StageFile, logs
  <2>5. queue' \subseteq Batch /\ next' \in Nat \ {0}
    BY <2>2, <2>3, EnqueueTypes DEF TypeInv, TypeOK, spool
  <2> QED
    BY <1>5, <2>4, <2>5 DEF StageFile, TypeInv, TypeOK, ProcsOK, logs, collector
<1>6. CASE Heartbeat(p)
  <2>1. todo[p] # <<>> /\ <<>> \in Seq(Nat)
    BY <1>6 DEF Heartbeat, Running
  <2>2. ProcsOK'
    BY <1>6, <2>1, SucceedTypes, FailTypes DEF Heartbeat, logs
  <2>3. queue' \subseteq Batch /\ next' \in Nat \ {0}
    BY <1>6, <2>1, EnqueueTypes DEF Heartbeat, TypeInv, TypeOK, spool
  <2> QED
    BY <1>6, <2>2, <2>3 DEF Heartbeat, TypeInv, TypeOK, ProcsOK, logs, collector
<1>7. CASE Pending(p)
  <2>1. ProcsOK'
    <3>1. CASE queue = {}
      BY <1>7, <3>1, SucceedTypes DEF Pending, Running, logs
    <3>2. CASE queue # {}
      <4>1. PICK b \in queue : batch' = [batch EXCEPT ![p] = b]
        BY <1>7, <3>2 DEF Pending
      <4>2. /\ pc' = [pc EXCEPT ![p] = "sent"] /\ todo[p] # <<>>
            /\ UNCHANGED <<files, todo, view, sent>>
        BY <1>7, <3>2 DEF Pending, Running, logs
      <4>3. b \in Batch
        BY DEF TypeInv, TypeOK
      <4> QED
        BY <4>1, <4>2, <4>3 DEF TypeInv, TypeOK, Held, ProcsOK
    <3> QED
      BY <3>1, <3>2
  <2> QED
    BY <1>7, <2>1 DEF Pending, TypeInv, TypeOK, ProcsOK, logs, spool, collector
<1>8. CASE Acknowledge(p)
  <2>1. todo[p] # <<>>
    BY <1>8 DEF Acknowledge, TypeInv, Held
  <2>2. ProcsOK'
    <3>1. CASE sent[p] + 1 < Limit
      <4>1. /\ pc' = [pc EXCEPT ![p] = "idle"]
            /\ batch' = [batch EXCEPT ![p] = NoBatch]
            /\ sent' = [sent EXCEPT ![p] = sent[p] + 1]
            /\ UNCHANGED <<files, todo, view>>
        BY <1>8, <3>1 DEF Acknowledge, logs
      <4>2. sent[p] + 1 \in Nat
        BY DEF TypeInv, TypeOK
      <4> QED
        BY <4>1, <4>2 DEF TypeInv, TypeOK, Held, ProcsOK
    <3>2. CASE ~ (sent[p] + 1 < Limit)
      BY <1>8, <2>1, <3>2, SucceedTypes DEF Acknowledge, logs
    <3> QED
      BY <3>1, <3>2
  <2>3. queue' \subseteq Batch
    BY <1>8 DEF Acknowledge, TypeInv, TypeOK
  <2> QED
    BY <1>8, <2>2, <2>3 DEF Acknowledge, TypeInv, TypeOK, ProcsOK, logs, collector
<1> QED
  BY <1>1, <1>2, <1>3, <1>4, <1>5, <1>6, <1>7, <1>8 DEF Step

\* The collector takes a batch in.
LEMMA TakeInTypes ==
    ASSUME TypeInv, NEW b \in Batch, TakeIn(b) \/ UNCHANGED collector
    PROVE  receipts' \subseteq Batch /\ events' \subseteq Nat /\ health' \in Nat
<1>1. ToSet(b.recs) \subseteq Nat /\ b.seq \in Nat
  BY DEF Batch, ToSet
<1> QED
  BY <1>1 DEF TakeIn, TypeInv, TypeOK, collector

\* The collector's answers, and a request it serves late.
LEMMA ServedTypes ==
    ASSUME TypeInv,
           (\E p \in Procs : Answer(p)) \/ \E b \in late : ServeLate(b)
    PROVE  TypeInv'
<1>1. ASSUME NEW p \in Procs, AcceptBatch(p) \/ AcceptAgain(p)
      PROVE  TypeInv'
  <2>1. batch[p] \in Batch
    BY <1>1 DEF AcceptBatch, AcceptAgain, TypeInv, Held
  <2>2. receipts' \subseteq Batch /\ events' \subseteq Nat /\ health' \in Nat
    BY <1>1, <2>1, TakeInTypes DEF AcceptBatch, AcceptAgain, Known
  <2> QED
    BY <1>1, <2>1, <2>2 DEF AcceptBatch, AcceptAgain, TypeInv, TypeOK, Held, logs, spool
<1>2. ASSUME NEW b \in late, ServeLate(b)
      PROVE  TypeInv'
  <2>1. receipts' \subseteq Batch /\ events' \subseteq Nat /\ health' \in Nat
    BY <1>2, TakeInTypes DEF ServeLate, TypeInv, TypeOK
  <2> QED
    BY <1>2, <2>1 DEF ServeLate, TypeInv, TypeOK, Held, logs, spool, procs
<1> QED
  BY <1>1, <1>2 DEF Answer

\* A program starts, or a process dies.
LEMMA ProcessTypes ==
    ASSUME TypeInv, NEW p \in Procs,
           (\E program \in Programs(p) : Start(p, program)) \/ Interrupt(p)
    PROVE  TypeInv'
<1>1. ASSUME NEW program \in Programs(p), Start(p, program)
      PROVE  TypeInv'
  <2>0. \/ program = <<"deliver">>
        \/ program = <<"follow", "heartbeat", "deliver">>
        \/ \E c \in Commands : program = <<c>>
    BY ProbeAssumption DEF Programs
  <2>1. program \in Seq(Commands)
    <3>1. {"follow", "heartbeat", "deliver"} \subseteq Commands
      BY DEF Commands
    <3>2. <<"deliver">> \in Seq(Commands)
      BY <3>1
    <3>3. <<"follow", "heartbeat", "deliver">> \in Seq(Commands)
      BY <3>1
    <3>4. \A c \in Commands : <<c>> \in Seq(Commands)
      OBVIOUS
    <3> QED
      BY <2>0, <3>2, <3>3, <3>4
  <2>2. program # <<>>
    BY <2>0
  <2> QED
    BY <1>1, <2>1, <2>2 DEF Start, TypeInv, TypeOK, Held, logs, spool, collector
<1>2. CASE Interrupt(p)
  <2>1. ProcsOK'
    BY <1>2, FailTypes DEF Interrupt, logs
  <2>2. late' \subseteq Batch
    BY <1>2 DEF Interrupt, Outlive, TypeInv, TypeOK, Held
  <2> QED
    BY <1>2, <2>1, <2>2 DEF Interrupt, TypeInv, TypeOK, ProcsOK, logs, spool, collector
<1> QED
  BY <1>1, <1>2

LEMMA NextTypes ==
    ASSUME TypeInv, [Next]_vars
    PROVE  TypeInv'
<1>1. CASE Log
  BY <1>1, LogTypes
<1>2. ASSUME NEW p \in Procs,
             (\E program \in Programs(p) : Start(p, program)) \/ Interrupt(p)
      PROVE  TypeInv'
  BY <1>2, ProcessTypes
<1>3. ASSUME NEW p \in Procs, Step(p)
      PROVE  TypeInv'
  BY <1>3, StepTypes
<1>4. CASE (\E p \in Procs : Answer(p)) \/ \E b \in late : ServeLate(b)
  BY <1>4, ServedTypes
<1>5. CASE UNCHANGED vars
  BY <1>5 DEF vars, logs, spool, procs, collector, TypeInv, TypeOK, Held
<1> QED
  BY <1>1, <1>2, <1>3, <1>4, <1>5 DEF Next

(* The spool, the collector and every process keep their types, and a      *)
(* process has a batch in hand just while it delivers one.                 *)
THEOREM TypesAndHeld == Spec => []TypeInv
<1>1. Init => TypeInv
  BY DEF Init, TypeInv, TypeOK, Held, View, NoView
<1>2. TypeInv /\ [Next]_vars => TypeInv'
  BY NextTypes
<1> QED
  BY <1>1, <1>2, PTL DEF Spec

\* Every variable keeps its type.
THEOREM TypesKept == Spec => []TypeOK
BY TypesAndHeld, PTL DEF TypeInv

-------------------------------------------------------------------------------
(* Numbers.  NeverOutOfSequence is not inductive: that a request is no gap *)
(* when it comes to the collector rests on what the queue and the receipts *)
(* hold together.                                                          *)

\* The batches staged have the numbers given so far, one each.
Numbered ==
    /\ \A b \in Staged : b.seq \in 1..next - 1
    /\ NothingLost
    /\ \A b, c \in Staged : b.seq = c.seq => b = c

\* The receipts have no gap, and the queue is behind them.
InOrder ==
    /\ \A r \in receipts : \A s \in 1..r.seq : \E q \in receipts : q.seq = s
    /\ \A r \in receipts, b \in queue : r.seq <= b.seq

\* A request on its way has been served before or is the queue's first.
Due == \A b \in Travelling : b \in receipts \/ Oldest(b)

\* A receipt that has reached the probe is of a batch the collector has.
Acked == \A p \in Procs : pc[p] \in {"accepted", "duplicate"} => batch[p] \in receipts

SeqInv == Numbered /\ InOrder /\ Due /\ Acked

\* The four things a step can do to the numbers.
Stays == UNCHANGED <<queue, next, receipts>>

Grows(kind, recs) == Enqueue(NewBatch(kind, recs)) /\ receipts' = receipts

Arrives(b) == TakeIn(b) /\ UNCHANGED <<queue, next>>

Leaves(b) ==
    /\ Oldest(b) /\ queue' = {c \in queue : c.seq # b.seq}
    /\ UNCHANGED <<next, receipts>>

LEMMA TravellingIs ==
    /\ \A b : b \in Travelling <=>
          b \in late \/ \E p \in Procs : pc[p] = "sent" /\ batch[p] = b
    /\ \A b : b \in Travelling' <=>
          b \in late' \/ \E p \in Procs : pc'[p] = "sent" /\ batch'[p] = b
BY DEF Travelling

\* Ending a command takes requests off their way and forgets receipts.
LEMMA ContinueQuiet ==
    ASSUME TypeInv, Acked, NEW p \in Procs, NEW commands, Continue(p, commands),
           late' \subseteq Travelling, receipts' = receipts
    PROVE  Travelling' \subseteq Travelling /\ Acked'
<1>1. \A q \in Procs : pc'[q] # "idle" => pc'[q] = pc[q] /\ batch'[q] = batch[q]
  BY DEF Continue, TypeInv, TypeOK
<1> QED
  BY <1>1, TravellingIs DEF Acked

LEMMA StepSeq ==
    ASSUME TypeInv, SeqInv, NEW p \in Procs, Step(p)
    PROVE  /\ Travelling' \subseteq Travelling \cup {b \in queue : Oldest(b)}
           /\ Travelling' \subseteq Travelling \/ Stays
           /\ Acked'
           /\ \/ Stays
              \/ \E kind \in {"events", "heartbeat"}, recs \in Seq(Nat) : Grows(kind, recs)
              \/ \E b \in receipts : Leaves(b)
<1> USE DEF SeqInv
<1>0. late \subseteq Travelling
  BY TravellingIs
<1>1. CASE FollowOpen(p)
  <2>1. /\ Stays /\ UNCHANGED <<late, batch>>
        /\ \A q \in Procs : pc'[q] = pc[q] \/ pc'[q] = "opened"
    BY <1>1 DEF FollowOpen, Stays, TypeInv, TypeOK, spool, collector
  <2> QED
    BY <2>1, TravellingIs DEF Acked, Stays
<1>2. CASE FollowRead(p)
  <2>1. Stays /\ UNCHANGED late
    BY <1>2 DEF FollowRead, Stays, spool, collector
  <2>2. CASE Succeed(p)
    BY <2>1, <2>2, <1>0, ContinueQuiet DEF Succeed, Stays
  <2>3. CASE ~ Succeed(p)
    <3>1. UNCHANGED batch /\ \A q \in Procs : pc'[q] = pc[q] \/ pc'[q] = "read"
      BY <1>2, <2>3 DEF FollowRead, TypeInv, TypeOK
    <3> QED
      BY <2>1, <3>1, TravellingIs DEF Acked, Stays
  <2> QED
    BY <2>2, <2>3
<1>3. CASE FollowReviewNeeded(p) \/ FollowRefused(p) \/ AckOutOfOrder(p) \/ RefuseBatch(p)
  <2>1. Stays /\ UNCHANGED late /\ Continue(p, <<>>)
    BY <1>3 DEF FollowReviewNeeded, FollowRefused, AckOutOfOrder, RefuseBatch, Fail,
       Stays, spool, collector
  <2> QED
    BY <2>1, <1>0, ContinueQuiet DEF Stays
<1>4. CASE FollowStage(p)
  <2>1. view[p].recs \in Seq(Nat)
    BY DEF TypeInv, TypeOK, View
  <2>2. /\ Grows("events", view[p].recs) /\ UNCHANGED <<late, receipts>>
        /\ Continue(p, Tail(todo[p]))
    BY <1>4 DEF FollowStage, Grows, Succeed, collector
  <2> QED
    BY <2>1, <2>2, <1>0, ContinueQuiet
<1>5. CASE StageFile(p)
  <2>1. PICK ident \in DOMAIN files :
           \/ Enqueue(NewBatch("events", files[ident])) /\ Succeed(p)
           \/ Fail(p) /\ UNCHANGED spool
    BY <1>5 DEF StageFile
  <2>2. files[ident] \in Seq(Nat)
    BY DEF TypeInv, TypeOK
  <2>3. UNCHANGED <<late, receipts>> /\ \E commands : Continue(p, commands)
    BY <1>5, <2>1 DEF StageFile, Succeed, Fail, collector
  <2>4. Travelling' \subseteq Travelling /\ Acked'
    BY <2>3, <1>0, ContinueQuiet
  <2>5. Grows("events", files[ident]) \/ Stays
    BY <2>1, <2>3 DEF Grows, Stays, spool
  <2> QED
    BY <2>2, <2>4, <2>5
<1>6. CASE Heartbeat(p)
  <2>1. <<>> \in Seq(Nat)
    OBVIOUS
  <2>2. UNCHANGED <<late, receipts>> /\ \E commands : Continue(p, commands)
    BY <1>6 DEF Heartbeat, Succeed, Fail, collector
  <2>3. Travelling' \subseteq Travelling /\ Acked'
    BY <2>2, <1>0, ContinueQuiet
  <2>4. Grows("heartbeat", <<>>) \/ Stays
    BY <1>6, <2>2 DEF Heartbeat, Grows, Stays, spool
  <2> QED
    BY <2>1, <2>3, <2>4
<1>7. CASE Pending(p)
  <2>1. Stays /\ UNCHANGED late
    BY <1>7 DEF Pending, Stays, spool, collector
  <2>2. CASE queue = {}
    BY <1>7, <2>1, <2>2, <1>0, ContinueQuiet DEF Pending, Succeed, Stays
  <2>3. CASE queue # {}
    <3>1. PICK b \in queue : Oldest(b) /\ batch' = [batch EXCEPT ![p] = b]
      BY <1>7, <2>3 DEF Pending
    <3>2. pc' = [pc EXCEPT ![p] = "sent"]
      BY <1>7, <2>3 DEF Pending
    <3>3. /\ pc'[p] = "sent" /\ batch'[p] = b
          /\ \A q \in Procs \ {p} : pc'[q] = pc[q] /\ batch'[q] = batch[q]
      BY <3>1, <3>2 DEF TypeInv, TypeOK
    <3> QED
      BY <2>1, <3>1, <3>3, TravellingIs DEF Acked, Stays
  <2> QED
    BY <2>2, <2>3
<1>8. CASE Acknowledge(p)
  <2>1. Leaves(batch[p]) /\ batch[p] \in receipts /\ UNCHANGED <<late, receipts>>
    BY <1>8 DEF Acknowledge, Leaves, Acked, collector
  <2>2. CASE Succeed(p)
    BY <2>1, <2>2, <1>0, ContinueQuiet DEF Succeed
  <2>3. CASE ~ Succeed(p)
    <3>1. \A q \in Procs : pc'[q] # "idle" => pc'[q] = pc[q] /\ batch'[q] = batch[q]
      BY <1>8, <2>3 DEF Acknowledge, TypeInv, TypeOK
    <3> QED
      BY <2>1, <3>1, TravellingIs DEF Acked
  <2> QED
    BY <2>2, <2>3
<1> QED
  BY <1>1, <1>2, <1>3, <1>4, <1>5, <1>6, <1>7, <1>8 DEF Step

\* What a step of the system does to the numbers and to the requests.
Moves ==
    \/ Stays
    \/ \E kind \in {"events", "heartbeat"}, recs \in Seq(Nat) : Grows(kind, recs)
    \/ \E b \in Travelling : Arrives(b)
    \/ \E b \in receipts : Leaves(b)

LEMMA NextSeq ==
    ASSUME TypeInv, SeqInv, [Next]_vars
    PROVE  /\ Travelling' \subseteq Travelling \cup {b \in queue : Oldest(b)}
           /\ Travelling' \subseteq Travelling \/ Stays
           /\ Acked'
           /\ Moves
<1> USE DEF SeqInv
<1>1. CASE Log \/ (\E p \in Procs : \E program \in Programs(p) : Start(p, program))
           \/ UNCHANGED vars
  <2>1. Stays /\ UNCHANGED <<late, pc, batch>>
    BY <1>1 DEF Log, WriteRecord, Rotate, Truncate, Start, Stays, vars, spool, procs,
       collector
  <2> QED
    BY <2>1, TravellingIs DEF Acked, Moves, Stays
<1>2. ASSUME NEW p \in Procs, Interrupt(p)
      PROVE  Travelling' \subseteq Travelling /\ Acked' /\ Moves
  <2>1. Stays /\ Continue(p, <<>>) /\ late' \subseteq Travelling
    BY <1>2, TravellingIs DEF Interrupt, Outlive, Fail, Stays, spool, collector
  <2> QED
    BY <2>1, ContinueQuiet DEF Moves, Stays
<1>3. ASSUME NEW p \in Procs, Step(p)
      PROVE  /\ Travelling' \subseteq Travelling \cup {b \in queue : Oldest(b)}
             /\ Travelling' \subseteq Travelling \/ Stays
             /\ Acked' /\ Moves
  BY <1>3, StepSeq DEF Moves
<1>4. ASSUME NEW p \in Procs, Answer(p)
      PROVE  Travelling' \subseteq Travelling /\ Acked' /\ Moves
  <2>1. pc[p] = "sent" /\ batch[p] \in Travelling
    BY <1>4, TravellingIs DEF Answer, AcceptBatch, AcceptAgain
  <2>2. /\ UNCHANGED <<late, batch>>
        /\ \A q \in Procs \ {p} : pc'[q] = pc[q]
        /\ pc'[p] \in {"accepted", "duplicate"}
    BY <1>4 DEF Answer, AcceptBatch, AcceptAgain, TypeInv, TypeOK
  <2>3. CASE AcceptBatch(p)
    <3>1. Arrives(batch[p]) /\ receipts' = receipts \cup {batch[p]}
      BY <2>3 DEF AcceptBatch, Arrives, TakeIn, spool
    <3> QED
      BY <2>1, <2>2, <3>1, TravellingIs DEF Acked, Moves
  <2>4. CASE AcceptAgain(p)
    <3>1. Stays /\ batch[p] \in receipts
      BY <2>4 DEF AcceptAgain, Known, Receipt, Stays, spool, collector
    <3> QED
      BY <2>2, <3>1, TravellingIs DEF Acked, Moves, Stays
  <2> QED
    BY <1>4, <2>3, <2>4 DEF Answer
<1>5. ASSUME NEW b \in late, ServeLate(b)
      PROVE  Travelling' \subseteq Travelling /\ Acked' /\ Moves
  <2>1. /\ UNCHANGED <<pc, batch>> /\ late' \subseteq late /\ b \in Travelling
    BY <1>5, TravellingIs DEF ServeLate, procs
  <2>2. Arrives(b) \/ Stays
    BY <1>5 DEF ServeLate, Arrives, Stays, spool, collector
  <2>3. receipts \subseteq receipts'
    BY <2>2 DEF Arrives, TakeIn, Stays
  <2> QED
    BY <2>1, <2>2, <2>3, TravellingIs DEF Acked, Moves
<1> QED
  BY <1>1, <1>2, <1>3, <1>4, <1>5 DEF Next

\* A batch that may leave the queue is a receipt, so nothing staged is lost.
LEMMA StagedMoves ==
    ASSUME TypeInv, SeqInv, Moves
    PROVE  Staged \subseteq Staged' /\ receipts \subseteq receipts'
<1>1. ASSUME NEW b \in receipts, Leaves(b)
      PROVE  Staged' = Staged
  <2>1. \A c \in queue : c.seq = b.seq => c = b
    BY DEF SeqInv, Numbered, Staged
  <2> QED
    BY <1>1, <2>1 DEF Leaves, Staged
<1> QED
  BY <1>1 DEF Moves, Stays, Grows, Enqueue, Arrives, TakeIn, Leaves, Staged

\* The batch with the next number joins the queue.
LEMMA GrowsSeq ==
    ASSUME TypeInv, SeqInv, NEW kind \in {"events", "heartbeat"}, NEW recs \in Seq(Nat),
           Grows(kind, recs), Travelling' \subseteq Travelling
    PROVE  Numbered' /\ InOrder' /\ Due'
<1> DEFINE b == NewBatch(kind, recs)
<1>1. /\ queue' = queue \cup {b} /\ next' = next + 1 /\ receipts' = receipts
      /\ b.seq = next /\ next \in Nat \ {0}
  BY DEF Grows, Enqueue, NewBatch, TypeInv, TypeOK
<1> HIDE DEF b
<1>2. /\ Staged' = Staged \cup {b}
      /\ \A c \in Staged : c.seq \in Nat /\ c.seq >= 1 /\ c.seq < b.seq
  BY <1>1 DEF Staged, SeqInv, Numbered
<1>3. \A c \in Staged' : c.seq \in 1..next' - 1
  BY <1>1, <1>2
<1>4. NothingLost'
  <2> SUFFICES ASSUME NEW n \in 1..next' - 1
               PROVE  \E c \in Staged' : c.seq = n
    BY DEF NothingLost
  <2>1. n = b.seq \/ n \in 1..next - 1
    BY <1>1
  <2> QED
    BY <1>2, <2>1 DEF SeqInv, Numbered, NothingLost
<1>5. \A c, d \in Staged' : c.seq = d.seq => c = d
  <2>1. \A c, d \in Staged : c.seq = d.seq => c = d
    BY DEF SeqInv, Numbered
  <2>2. \A c \in Staged : c.seq # b.seq
    BY <1>1, <1>2
  <2> QED
    BY <1>2, <2>1, <2>2
<1>6. InOrder'
  <2>1. \A r \in receipts : r.seq <= b.seq
    BY <1>1, <1>2 DEF Staged
  <2> QED
    BY <1>1, <2>1 DEF SeqInv, InOrder
<1>7. Due'
  <2>1. \A c \in queue : Oldest(c) => Oldest(c)'
    BY <1>1, <1>2 DEF Oldest, Staged
  <2> QED
    BY <1>1, <2>1 DEF SeqInv, Due, Oldest
<1> QED
  BY <1>3, <1>4, <1>5, <1>6, <1>7 DEF Numbered

\* Where a request that is not a receipt stands.
LEMMA DueFollows ==
    ASSUME TypeInv, SeqInv, NEW b \in Travelling, b \notin receipts
    PROVE  b \in queue /\ Oldest(b) /\ Receipt(b) = {} /\ FollowsLast(b)
<1>1. Oldest(b) /\ b \in queue /\ b.seq \in 1..next - 1
  BY DEF SeqInv, Due, Oldest, Numbered, Staged
<1>2. \A r \in receipts : r.seq # b.seq
  BY <1>1 DEF SeqInv, Numbered, Staged
<1>3. \A r \in receipts : r.seq < b.seq
  <2>1. \A r \in receipts : r.seq \in Nat /\ r.seq <= b.seq
    BY <1>1 DEF SeqInv, InOrder, Numbered, Staged
  <2> QED
    BY <1>1, <1>2, <2>1
<1>4. b.seq = 1 \/ \E r \in receipts : r.seq = b.seq - 1
  <2> SUFFICES ASSUME b.seq # 1
               PROVE  \E r \in receipts : r.seq = b.seq - 1
    OBVIOUS
  <2>1. next \in Nat /\ b.seq - 1 \in 1..next - 1
    BY <1>1 DEF TypeInv, TypeOK
  <2>2. PICK c \in Staged : c.seq = b.seq - 1
    BY <2>1 DEF SeqInv, Numbered, NothingLost
  <2>3. c \notin queue
    BY <1>1, <2>2 DEF Oldest
  <2> QED
    BY <2>2, <2>3 DEF Staged
<1> QED
  BY <1>1, <1>2, <1>3, <1>4 DEF Receipt, FollowsLast

\* The request is served: its batch is the queue's first and becomes the
\* last receipt.
LEMMA ArrivesSeq ==
    ASSUME TypeInv, SeqInv, NEW b \in Travelling, Arrives(b),
           Travelling' \subseteq Travelling
    PROVE  Numbered' /\ InOrder' /\ Due'
<1>1. b \notin receipts
  BY DEF Arrives, TakeIn, Receipt
<1>2. b \in queue /\ Oldest(b) /\ FollowsLast(b) /\ b.seq \in 1..next - 1
  BY <1>1, DueFollows DEF SeqInv, Numbered, Staged
<1>3. receipts' = receipts \cup {b} /\ UNCHANGED <<queue, next>> /\ Staged' = Staged
  BY <1>2 DEF Arrives, TakeIn, Staged
<1>4. Numbered'
  BY <1>3 DEF SeqInv, Numbered, NothingLost
<1>5. \A n \in 1..b.seq : \E q \in receipts' : q.seq = n
  <2> SUFFICES ASSUME NEW n \in 1..b.seq, n # b.seq
               PROVE  \E q \in receipts : q.seq = n
    BY <1>3
  <2>1. PICK r \in receipts : r.seq = b.seq - 1
    BY <1>2 DEF FollowsLast
  <2>2. n \in 1..r.seq
    BY <1>2, <2>1
  <2> QED
    BY <2>1, <2>2 DEF SeqInv, InOrder
<1>6. InOrder'
  <2>1. \A r \in receipts : \A n \in 1..r.seq : \E q \in receipts' : q.seq = n
    BY <1>3 DEF SeqInv, InOrder
  <2>2. \A c \in queue : b.seq <= c.seq
    BY <1>2 DEF Oldest
  <2> QED
    BY <1>3, <1>5, <2>1, <2>2 DEF SeqInv, InOrder
<1>7. Due'
  BY <1>3 DEF SeqInv, Due, Oldest
<1> QED
  BY <1>4, <1>6, <1>7

\* A batch with its receipt leaves the queue.
LEMMA LeavesSeq ==
    ASSUME TypeInv, SeqInv, NEW b \in receipts, Leaves(b),
           Travelling' \subseteq Travelling
    PROVE  Numbered' /\ InOrder' /\ Due'
<1>1. \A c \in Staged : c.seq = b.seq => c = b
  BY DEF SeqInv, Numbered, Staged
<1>2. /\ queue' = queue \ {b} /\ UNCHANGED <<next, receipts>> /\ Oldest(b)
      /\ Staged' = Staged
  BY <1>1 DEF Leaves, Staged
<1>3. Numbered'
  BY <1>2 DEF SeqInv, Numbered, NothingLost
<1>4. InOrder'
  BY <1>2 DEF SeqInv, InOrder
<1>5. Due'
  BY <1>2 DEF SeqInv, Due, Oldest
<1> QED
  BY <1>3, <1>4, <1>5

(* Batches stay numbered without a gap from the collector's last one to    *)
(* the spool's newest, and no request on its way is ahead of the queue.    *)
THEOREM Sequence == Spec => [](TypeInv /\ SeqInv)
<1>1. Init => SeqInv
  <2> SUFFICES ASSUME Init
               PROVE  SeqInv
    OBVIOUS
  <2>1. Staged = {} /\ Travelling = {} /\ receipts = {} /\ queue = {} /\ next = 1
    BY DEF Init, Staged, Travelling
  <2>2. Acked
    BY DEF Init, Acked
  <2> QED
    BY <2>1, <2>2 DEF SeqInv, Numbered, NothingLost, InOrder, Due
<1>2. TypeInv /\ SeqInv /\ [Next]_vars => SeqInv'
  <2> SUFFICES ASSUME TypeInv, SeqInv, [Next]_vars
               PROVE  SeqInv'
    OBVIOUS
  <2>1. Acked'
    BY NextSeq
  <2>2. CASE Stays
    <3>1. Travelling' \subseteq Travelling \cup {b \in queue : Oldest(b)}
      BY NextSeq
    <3>2. Due'
      BY <2>2, <3>1 DEF SeqInv, Due, Stays, Oldest
    <3> QED
      BY <2>1, <2>2, <3>2 DEF SeqInv, Numbered, NothingLost, InOrder, Staged, Stays
  <2>3. CASE ~ Stays
    <3>1. Travelling' \subseteq Travelling /\ Moves
      BY <2>3, NextSeq
    <3> QED
      BY <2>1, <2>3, <3>1, GrowsSeq, ArrivesSeq, LeavesSeq DEF Moves, SeqInv
  <2> QED
    BY <2>2, <2>3
<1> QED
  BY <1>1, <1>2, TypesAndHeld, PTL DEF Spec

\* No batch that has been given a number is lost.
THEOREM NothingIsLost == Spec => []NothingLost
<1>1. SeqInv => NothingLost
  BY DEF SeqInv, Numbered
<1> QED
  BY <1>1, Sequence, PTL

\* No request comes to the collector out of sequence, whatever is late.
THEOREM Sequenced == Spec => []NeverOutOfSequence
<1>1. TypeInv /\ SeqInv => NeverOutOfSequence
  <2> SUFFICES ASSUME TypeInv, SeqInv, NEW b \in Travelling
               PROVE  ~ Collides(b) /\ ~ Gaps(b)
    BY DEF NeverOutOfSequence
  <2>1. CASE b \in receipts
    BY <2>1 DEF Collides, Gaps, Receipt
  <2>2. CASE b \notin receipts
    BY <2>2, DueFollows DEF Collides, Gaps
  <2> QED
    BY <2>1, <2>2
<1> QED
  BY <1>1, Sequence, PTL

\* The probe and the collector implement the abstract channel.
THEOREM Refines == Spec => Channel!ChannelSpec
<1>1. Init => Channel!ChannelInit
  BY DEF Init, Channel!ChannelInit, Staged
<1>2. TypeInv /\ SeqInv /\ [Next]_vars => [Channel!ChannelNext]_(Channel!channelVars)
  <2> SUFFICES ASSUME TypeInv, SeqInv, [Next]_vars
               PROVE  Channel!ChannelNext \/ UNCHANGED <<Staged, receipts>>
    BY DEF Channel!channelVars
  <2>1. CASE Stays
    BY <2>1 DEF Stays, Staged
  <2>2. ASSUME NEW kind \in {"events", "heartbeat"}, NEW recs \in Seq(Nat),
               Grows(kind, recs)
        PROVE  Channel!ChannelNext
    <3> DEFINE b == NewBatch(kind, recs)
    <3>1. /\ Staged' = Staged \cup {b} /\ receipts' = receipts
          /\ b.seq = next /\ next \in Nat \ {0}
      BY <2>2 DEF Grows, Enqueue, NewBatch, Staged, TypeInv, TypeOK
    <3> HIDE DEF b
    <3>2. \A c \in Staged : c.seq < b.seq
      BY <3>1 DEF SeqInv, Numbered
    <3>3. b.seq = 1 \/ \E c \in Staged : c.seq = b.seq - 1
      <4>1. b.seq = 1 \/ next - 1 \in 1..next - 1
        BY <3>1
      <4> QED
        BY <3>1, <4>1 DEF SeqInv, Numbered, NothingLost
    <3>4. Channel!Offer(b)
      BY <3>1, <3>2, <3>3 DEF Channel!Offer, Channel!IsNext
    <3> QED
      BY <3>1, <3>4 DEF Channel!ChannelNext
  <2>3. ASSUME NEW b \in Travelling, Arrives(b)
        PROVE  Channel!ChannelNext
    <3>1. b \in queue /\ FollowsLast(b)
      BY <2>3, DueFollows DEF Arrives, TakeIn, Receipt
    <3>2. receipts' = receipts \cup {b} /\ Staged' = Staged /\ b \in Staged
      BY <2>3, <3>1 DEF Arrives, TakeIn, Staged
    <3>3. Channel!Collect(b)
      BY <3>1, <3>2 DEF Channel!Collect, Channel!IsNext, FollowsLast
    <3> QED
      BY <3>2, <3>3 DEF Channel!ChannelNext
  <2>4. ASSUME NEW b \in receipts, Leaves(b)
        PROVE  UNCHANGED <<Staged, receipts>>
    <3>1. \A c \in queue : c.seq = b.seq => c = b
      BY DEF SeqInv, Numbered, Staged
    <3> QED
      BY <2>4, <3>1 DEF Leaves, Staged
  <2> QED
    BY <2>1, <2>2, <2>3, <2>4, NextSeq DEF Moves
<1> QED
  BY <1>1, <1>2, Sequence, PTL DEF Spec, Channel!ChannelSpec

\* The same, under the name of the property the runs check.
THEOREM ImplementsChannel == Spec => IsChannel
BY Refines DEF IsChannel

-------------------------------------------------------------------------------
(* The cursor.  A follow that has read its lines moves the cursor only     *)
(* later: what it passes then must be staged already or be in its lines.   *)

\* Line i of file f is staged.
LineStaged(f, i) == files[f][i] \in RecordsOf(Staged)

CursorInv ==
    cursor[1] # 0 /\ cursor[1] \notin truncated =>
        /\ cursor[1] \in DOMAIN files
        /\ cursor[2] <= Len(files[cursor[1]])
        /\ \A i \in 1..cursor[2] : LineStaged(cursor[1], i)

\* What a follow holds, unless its file was emptied meanwhile.
Reads(v) ==
    v.ident \notin truncated =>
        /\ v.ident \in DOMAIN files
        /\ v.from + Len(v.recs) <= Len(files[v.ident])
        /\ \A i \in 1..Len(v.recs) : v.recs[i] = files[v.ident][v.from + i]
        /\ \A i \in 1..v.from : LineStaged(v.ident, i)

ReadsInv == \A p \in Procs : pc[p] = "read" => Reads(view[p])

PassInv == CursorInv /\ ReadsInv

\* Files that are not emptied only grow, and what is staged stays staged.
Onward ==
    /\ truncated \subseteq truncated'
    /\ \A f \in DOMAIN files \ truncated' :
          /\ f \in DOMAIN files' /\ Len(files[f]) <= Len(files'[f])
          /\ \A i \in 1..Len(files[f]) : files'[f][i] = files[f][i]
    /\ RecordsOf(Staged) \subseteq RecordsOf(Staged')

LEMMA CursorOnward ==
    ASSUME TypeInv, TypeInv', CursorInv, Onward, cursor' = cursor
    PROVE  CursorInv'
<1> SUFFICES ASSUME cursor[1] # 0, cursor[1] \notin truncated'
             PROVE  /\ cursor[1] \in DOMAIN files'
                    /\ cursor[2] <= Len(files'[cursor[1]])
                    /\ \A i \in 1..cursor[2] :
                          files'[cursor[1]][i] \in RecordsOf(Staged')
  BY DEF CursorInv, LineStaged
<1>1. /\ cursor[1] \in DOMAIN files /\ cursor[2] <= Len(files[cursor[1]])
      /\ \A i \in 1..cursor[2] : LineStaged(cursor[1], i)
  BY DEF CursorInv, Onward
<1>2. cursor[2] \in Nat /\ Len(files[cursor[1]]) \in Nat
  BY <1>1 DEF TypeInv, TypeOK
<1>3. /\ cursor[1] \in DOMAIN files' /\ Len(files[cursor[1]]) <= Len(files'[cursor[1]])
      /\ \A i \in 1..Len(files[cursor[1]]) : files'[cursor[1]][i] = files[cursor[1]][i]
  BY <1>1 DEF Onward
<1>4. Len(files'[cursor[1]]) \in Nat
  BY <1>3 DEF TypeInv, TypeOK
<1>5. ASSUME NEW i \in 1..cursor[2]
      PROVE  files'[cursor[1]][i] \in RecordsOf(Staged')
  <2>1. i \in 1..Len(files[cursor[1]]) /\ LineStaged(cursor[1], i)
    BY <1>1, <1>2
  <2> QED
    BY <1>3, <2>1 DEF LineStaged, Onward
<1> QED
  BY <1>1, <1>2, <1>3, <1>4, <1>5

LEMMA ReadsOnward ==
    ASSUME TypeInv, TypeInv', Onward, NEW p \in Procs, Reads(view[p]),
           view'[p] = view[p]
    PROVE  Reads(view[p])'
<1> DEFINE v == view[p]
           f == v.ident
<1>0. v \in View
  BY DEF TypeInv, TypeOK
<1> SUFFICES ASSUME f \notin truncated'
             PROVE  /\ f \in DOMAIN files'
                    /\ v.from + Len(v.recs) <= Len(files'[f])
                    /\ \A i \in 1..Len(v.recs) : v.recs[i] = files'[f][v.from + i]
                    /\ \A i \in 1..v.from : files'[f][i] \in RecordsOf(Staged')
  BY DEF Reads, LineStaged
<1>1. /\ f \in DOMAIN files /\ v.from + Len(v.recs) <= Len(files[f])
      /\ \A i \in 1..Len(v.recs) : v.recs[i] = files[f][v.from + i]
      /\ \A i \in 1..v.from : LineStaged(f, i)
  BY DEF Reads, Onward
<1>2. v.from \in Nat /\ Len(v.recs) \in Nat /\ Len(files[f]) \in Nat
  <2>1. v.from \in Nat /\ v.recs \in Seq(Nat)
    BY <1>0 DEF View
  <2>2. files \in Seq(Seq(Nat)) /\ f \in DOMAIN files
    BY <1>1 DEF TypeInv, TypeOK
  <2> HIDE DEF v, f
  <2> QED
    BY <2>1, <2>2
<1>3. /\ f \in DOMAIN files' /\ Len(files[f]) <= Len(files'[f])
      /\ \A i \in 1..Len(files[f]) : files'[f][i] = files[f][i]
  BY <1>1 DEF Onward
<1>4. Len(files'[f]) \in Nat
  <2>1. files' \in Seq(Seq(Nat)) /\ f \in DOMAIN files'
    BY <1>3 DEF TypeInv, TypeOK
  <2> HIDE DEF v, f
  <2> QED
    BY <2>1
<1> HIDE DEF v, f
<1>5. ASSUME NEW i \in 1..Len(v.recs)
      PROVE  v.recs[i] = files'[f][v.from + i]
  <2>1. v.from + i \in 1..Len(files[f])
    BY <1>1, <1>2
  <2> QED
    BY <1>1, <1>3, <2>1
<1>6. \A i \in 1..v.from : files'[f][i] \in RecordsOf(Staged')
  <2>1. \A i \in 1..v.from : files'[f][i] = files[f][i] /\ files[f][i] \in RecordsOf(Staged)
    BY <1>1, <1>2, <1>3 DEF LineStaged
  <2> QED
    BY <2>1 DEF Onward
<1> QED
  BY <1>1, <1>2, <1>3, <1>4, <1>5, <1>6

\* Only the capture engine writes the log.
LEMMA LogSteps ==
    ASSUME [Next]_vars
    PROVE  UNCHANGED logs \/ Log
BY DEF Next, Step, Answer, Start, FollowOpen, FollowRead, FollowReviewNeeded,
   FollowStage, FollowRefused, StageFile, Heartbeat, Pending, Acknowledge,
   AckOutOfOrder, RefuseBatch, AcceptBatch, AcceptAgain, Interrupt, ServeLate, vars

\* The log's steps, and what staging does, are onward.
LEMMA NextOnward ==
    ASSUME TypeInv, SeqInv, [Next]_vars
    PROVE  Onward
<1>1. RecordsOf(Staged) \subseteq RecordsOf(Staged')
  BY NextSeq, StagedMoves DEF RecordsOf
<1>2. CASE WriteRecord
  <2>1. /\ files' = [files EXCEPT ![Current] = Append(files[Current], written + 1)]
        /\ truncated' = truncated
    BY <1>2 DEF WriteRecord
  <2>2. files \in Seq(Seq(Nat)) /\ written \in Nat
    BY DEF TypeInv, TypeOK
  <2>3. ASSUME NEW f \in DOMAIN files
        PROVE  /\ f \in DOMAIN files' /\ Len(files[f]) <= Len(files'[f])
               /\ \A i \in 1..Len(files[f]) : files'[f][i] = files[f][i]
    <3>1. files[f] \in Seq(Nat) /\ f \in DOMAIN files'
      BY <2>1, <2>2, <2>3
    <3>2. files'[f] = files[f] \/ files'[f] = Append(files[f], written + 1)
      BY <2>1, <2>2, <2>3
    <3>3. CASE files'[f] = files[f]
      BY <3>1, <3>3
    <3>4. CASE files'[f] = Append(files[f], written + 1)
      <4>1. written + 1 \in Nat
        BY <2>2
      <4>2. /\ Len(files'[f]) = Len(files[f]) + 1 /\ Len(files[f]) \in Nat
            /\ \A i \in 1..Len(files[f]) : files'[f][i] = files[f][i]
        BY <3>1, <3>4, <4>1, AppendProperties
      <4> QED
        BY <3>1, <4>2
    <3> QED
      BY <3>2, <3>3, <3>4
  <2> QED
    BY <1>1, <2>1, <2>3 DEF Onward
<1>3. CASE Rotate
  <2>1. files' = Append(files, <<>>) /\ truncated' = truncated
    BY <1>3 DEF Rotate
  <2>2. \A f \in DOMAIN files : f \in DOMAIN files' /\ files'[f] = files[f]
    BY <2>1 DEF TypeInv, TypeOK
  <2>3. \A f \in DOMAIN files : Len(files[f]) \in Nat
    BY DEF TypeInv, TypeOK
  <2> QED
    BY <1>1, <2>1, <2>2, <2>3 DEF Onward
<1>4. CASE Truncate
  <2>1. /\ files' = [files EXCEPT ![Current] = <<>>]
        /\ truncated' = truncated \cup {Current}
    BY <1>4 DEF Truncate
  <2>2. \A f \in DOMAIN files \ truncated' :
           f \in DOMAIN files' /\ files'[f] = files[f]
    BY <2>1 DEF TypeInv, TypeOK
  <2>3. \A f \in DOMAIN files : Len(files[f]) \in Nat
    BY DEF TypeInv, TypeOK
  <2> QED
    BY <1>1, <2>1, <2>2, <2>3 DEF Onward
<1>5. CASE UNCHANGED logs
  <2>1. \A f \in DOMAIN files : Len(files[f]) \in Nat
    BY DEF TypeInv, TypeOK
  <2> QED
    BY <1>1, <1>5, <2>1 DEF Onward, logs
<1>6. UNCHANGED logs \/ Log
  BY LogSteps
<1> QED
  BY <1>2, <1>3, <1>4, <1>5, <1>6 DEF Log

\* A follow commits: the lines it read are staged with the cursor.
LEMMA StagePasses ==
    ASSUME TypeInv, SeqInv, PassInv, NEW p \in Procs, FollowStage(p)
    PROVE  CursorInv'
<1> DEFINE v == view[p]
           b == NewBatch("events", v.recs)
<1>1. /\ v.ident \in Nat /\ v.from \in Nat /\ v.recs \in Seq(Nat)
      /\ Len(v.recs) \in Nat
  <2>1. v \in View
    BY DEF TypeInv, TypeOK
  <2> QED
    BY <2>1 DEF View
<1>2. /\ cursor' = <<v.ident, v.from + Len(v.recs)>>
      /\ UNCHANGED <<files, truncated, receipts>> /\ queue' = queue \cup {b}
  BY DEF FollowStage, Enqueue, logs, collector
<1>3. Reads(v)
  BY DEF FollowStage, PassInv, ReadsInv
<1>4. /\ RecordsOf(Staged) \subseteq RecordsOf(Staged')
      /\ \A i \in 1..Len(v.recs) : v.recs[i] \in RecordsOf(Staged')
  <2>1. Staged' = Staged \cup {b} /\ b.recs = v.recs
    BY <1>2 DEF Staged, NewBatch
  <2>2. \A i \in 1..Len(v.recs) : v.recs[i] \in ToSet(v.recs)
    BY <1>1 DEF ToSet
  <2> HIDE DEF b
  <2> QED
    BY <2>1, <2>2 DEF RecordsOf
<1> HIDE DEF v, b
<1> SUFFICES ASSUME v.ident \notin truncated
             PROVE  /\ v.ident \in DOMAIN files
                    /\ v.from + Len(v.recs) <= Len(files[v.ident])
                    /\ \A i \in 1..v.from + Len(v.recs) :
                          files[v.ident][i] \in RecordsOf(Staged')
  BY <1>2 DEF CursorInv, LineStaged
<1>5. ASSUME NEW i \in 1..v.from + Len(v.recs)
      PROVE  files[v.ident][i] \in RecordsOf(Staged')
  <2>1. CASE i <= v.from
    <3>1. i \in 1..v.from
      BY <1>1, <2>1
    <3> QED
      BY <1>3, <1>4, <3>1 DEF Reads, LineStaged
  <2>2. CASE i > v.from
    <3>1. i - v.from \in 1..Len(v.recs) /\ v.from + (i - v.from) = i
      BY <1>1, <2>2
    <3>2. v.recs[i - v.from] = files[v.ident][i]
      BY <1>3, <3>1 DEF Reads
    <3> QED
      BY <1>4, <3>1, <3>2
  <2> QED
    BY <1>1, <2>1, <2>2
<1> QED
  BY <1>3, <1>5 DEF Reads

\* A follow that begins at the cursor has everything before it staged.
LEMMA ReadPasses ==
    ASSUME TypeInv, SeqInv, PassInv, NEW p \in Procs, FollowRead(p), pc'[p] = "read"
    PROVE  Reads(view[p])'
<1> DEFINE f == view[p].ident
           w == [ident |-> f, from |-> Offset(f), recs |-> Unread(f)]
<1>1. f \in DOMAIN files
  BY DEF FollowRead, TypeInv, Held
<1>2. UNCHANGED <<files, truncated, queue, receipts>> /\ view'[p] = w
  <2>1. CASE Unread(f) = <<>>
    BY <2>1 DEF FollowRead, Succeed, Continue, TypeInv, TypeOK
  <2>2. CASE Unread(f) # <<>>
    BY <2>2 DEF FollowRead, TypeInv, TypeOK, logs, spool, collector
  <2> QED
    BY <2>1, <2>2
<1>3. /\ w.from + Len(w.recs) <= Len(files[f])
      /\ \A i \in 1..Len(w.recs) : w.recs[i] = files[f][w.from + i]
  BY <1>1, UnreadLines DEF TypeInv
<1>4. f \notin truncated => \A i \in 1..w.from : LineStaged(f, i)
  <2>1. CASE Offset(f) = 0
    BY <2>1
  <2>2. CASE Offset(f) # 0
    <3>1. cursor[1] # 0 /\ cursor[1] = f /\ Offset(f) = cursor[2]
      BY <2>2 DEF Offset, Rotated
    <3> QED
      BY <3>1 DEF PassInv, CursorInv
  <2> QED
    BY <2>1, <2>2
<1>5. w.ident = f
  OBVIOUS
<1>6. (\A i : LineStaged(f, i) => files[f][i] \in RecordsOf(Staged)) /\ Staged' = Staged
  BY <1>2 DEF LineStaged, Staged
<1> HIDE DEF w
<1> QED
  BY <1>1, <1>2, <1>3, <1>4, <1>5, <1>6 DEF Reads, LineStaged

\* Nothing else moves the cursor or what a follow holds.
LEMMA CursorStep ==
    ASSUME TypeInv, [Next]_vars
    PROVE  cursor' = cursor \/ \E p \in Procs : FollowStage(p)
BY DEF Next, Log, WriteRecord, Rotate, Truncate, Step, Answer, Start, FollowOpen,
   FollowRead, FollowReviewNeeded, FollowRefused, StageFile, Heartbeat, Pending,
   Acknowledge, AckOutOfOrder, RefuseBatch, AcceptBatch, AcceptAgain, Interrupt,
   ServeLate, vars

LEMMA ContinueViews ==
    ASSUME TypeInv, NEW p \in Procs, NEW commands, Continue(p, commands)
    PROVE  \A q \in Procs : pc'[q] = "read" => pc[q] = "read" /\ view'[q] = view[q]
BY DEF Continue, TypeInv, TypeOK

LEMMA ReadStep ==
    ASSUME TypeInv, [Next]_vars, NEW q \in Procs, pc'[q] = "read"
    PROVE  (pc[q] = "read" /\ view'[q] = view[q]) \/ FollowRead(q)
<1>1. CASE Log \/ (\E p \in Procs : \E program \in Programs(p) : Start(p, program))
           \/ (\E b \in late : ServeLate(b)) \/ UNCHANGED vars
  BY <1>1 DEF Log, WriteRecord, Rotate, Truncate, Start, ServeLate, vars, procs
<1>2. ASSUME NEW p \in Procs, \E commands : Continue(p, commands)
      PROVE  pc[q] = "read" /\ view'[q] = view[q]
  BY <1>2, ContinueViews
<1>3. ASSUME NEW p \in Procs, Answer(p)
      PROVE  pc[q] = "read" /\ view'[q] = view[q]
  BY <1>3 DEF Answer, AcceptBatch, AcceptAgain, TypeInv, TypeOK
<1>4. ASSUME NEW p \in Procs, Step(p) \/ Interrupt(p), ~ \E commands : Continue(p, commands)
      PROVE  (pc[q] = "read" /\ view'[q] = view[q]) \/ FollowRead(q)
  <2>1. FollowOpen(p) \/ FollowRead(p) \/ Pending(p) \/ Acknowledge(p)
    BY <1>4 DEF Step, FollowReviewNeeded, FollowStage, FollowRefused, StageFile,
       Heartbeat, AckOutOfOrder, RefuseBatch, Interrupt, Succeed, Fail
  <2>2. CASE FollowOpen(p)
    BY <2>2 DEF FollowOpen, TypeInv, TypeOK
  <2>3. CASE FollowRead(p)
    BY <2>3, <1>4 DEF FollowRead, Succeed, TypeInv, TypeOK
  <2>4. CASE Pending(p)
    BY <2>4, <1>4 DEF Pending, Succeed, TypeInv, TypeOK
  <2>5. CASE Acknowledge(p)
    BY <2>5, <1>4 DEF Acknowledge, Succeed, TypeInv, TypeOK
  <2> QED
    BY <2>1, <2>2, <2>3, <2>4, <2>5
<1> QED
  BY <1>1, <1>2, <1>3, <1>4 DEF Next

\* The cursor and the follows stay behind what is staged.
THEOREM CursorSafety == Spec => []PassInv
<1>1. Init => PassInv
  BY DEF Init, PassInv, CursorInv, ReadsInv
<1>2. TypeInv /\ SeqInv /\ PassInv /\ [Next]_vars => PassInv'
  <2> SUFFICES ASSUME TypeInv, SeqInv, PassInv, [Next]_vars
               PROVE  PassInv'
    OBVIOUS
  <2>1. TypeInv' /\ Onward
    BY NextTypes, NextOnward
  <2>2. CursorInv'
    BY <2>1, CursorStep, CursorOnward, StagePasses DEF PassInv
  <2>3. ASSUME NEW p \in Procs, pc'[p] = "read"
        PROVE  Reads(view[p])'
    <3>1. CASE pc[p] = "read" /\ view'[p] = view[p]
      BY <2>1, <3>1, ReadsOnward DEF PassInv, ReadsInv
    <3>2. CASE FollowRead(p)
      BY <2>3, <3>2, ReadPasses
    <3> QED
      BY <2>3, <3>1, <3>2, ReadStep
  <2> QED
    BY <2>2, <2>3 DEF PassInv, ReadsInv
<1> QED
  BY <1>1, <1>2, Sequence, PTL DEF Spec

\* Every line the cursor has passed is staged.
THEOREM CursorIsSafe == Spec => []PassedIsStaged
<1>1. PassInv => PassedIsStaged
  BY DEF PassInv, CursorInv, PassedIsStaged, LineStaged
<1> QED
  BY <1>1, CursorSafety, PTL

-------------------------------------------------------------------------------
(* What the collector has of a file.  CollectedIsPrefix speaks of receipts *)
(* alone and is not inductive: what a batch may bring rests on the order   *)
(* in which lines were staged, and on lines being told apart.              *)

\* No two lines of the log are the same record, in one file or in two.
LogInv ==
    /\ \A f \in DOMAIN files : \A i \in DOMAIN files[f] : files[f][i] <= written
    /\ \A f, g \in DOMAIN files : \A i \in DOMAIN files[f], j \in DOMAIN files[g] :
          files[f][i] = files[g][j] => f = g /\ i = j

\* What is staged or held by a follow has been written, and what a follow
\* holds comes from its file.
KnownInv ==
    /\ \A b \in Staged : \A r \in ToSet(b.recs) : r <= written
    /\ \A p \in Procs : pc[p] = "read" =>
          /\ \A r \in ToSet(view[p].recs) : r <= written
          /\ \A f \in DOMAIN files \ truncated : \A i \in DOMAIN files[f] :
                files[f][i] \in ToSet(view[p].recs) => view[p].ident = f

\* A batch that holds a line of a file comes with or after one for every line
\* before it.
OrderInv ==
    \A b \in Staged, f \in DOMAIN files \ truncated : \A i, j \in DOMAIN files[f] :
        i < j /\ files[f][j] \in ToSet(b.recs) =>
            \E c \in Staged : c.seq <= b.seq /\ files[f][i] \in ToSet(c.recs)

\* The collector has the records of the batches it has receipts for.
CollectedInv == events = RecordsOf(receipts)

PrefixInv == LogInv /\ KnownInv /\ OrderInv /\ CollectedInv

\* A line of the log was there before, or is the next record at the end of the
\* current file.
LEMMA NewLines ==
    ASSUME TypeInv, [Next]_vars
    PROVE  /\ written' \in {written, written + 1}
           /\ \A f \in DOMAIN files' : \A i \in DOMAIN files'[f] :
                \/ /\ f \in DOMAIN files /\ i \in DOMAIN files[f]
                   /\ files'[f][i] = files[f][i]
                \/ /\ files'[f][i] = written + 1 /\ written' = written + 1
                   /\ f = Current /\ i = Len(files[Current]) + 1
<1>1. files \in Seq(Seq(Nat)) /\ written \in Nat /\ Current \in DOMAIN files
  BY DEF TypeInv, TypeOK, Current
<1>2. CASE WriteRecord
  <2>1. /\ files' = [files EXCEPT ![Current] = Append(files[Current], written + 1)]
        /\ written' = written + 1
    BY <1>2 DEF WriteRecord
  <2>2. /\ DOMAIN files' = DOMAIN files
        /\ \A f \in DOMAIN files \ {Current} : files'[f] = files[f]
        /\ files'[Current] = Append(files[Current], written + 1)
    BY <1>1, <2>1
  <2>3. files[Current] \in Seq(Nat) /\ written + 1 \in Nat
    BY <1>1
  <2>4. /\ DOMAIN files[Current] = 1..Len(files[Current]) /\ Len(files[Current]) \in Nat
        /\ DOMAIN files'[Current] = 1..Len(files[Current]) + 1
        /\ \A i \in 1..Len(files[Current]) : files'[Current][i] = files[Current][i]
        /\ files'[Current][Len(files[Current]) + 1] = written + 1
    <3>1. LET a == Append(files[Current], written + 1)
              n == Len(files[Current])
          IN  /\ a \in Seq(Nat) /\ Len(a) = n + 1 /\ n \in Nat
              /\ \A i \in 1..n : a[i] = files[Current][i]
              /\ a[n + 1] = written + 1
      BY <2>3, AppendProperties, LenProperties
    <3>2. DOMAIN files[Current] = 1..Len(files[Current])
      BY <2>3, LenProperties
    <3>3. files'[Current] \in Seq(Nat) /\ Len(files'[Current]) = Len(files[Current]) + 1
      BY <2>2, <3>1
    <3>4. DOMAIN files'[Current] = 1..Len(files[Current]) + 1
      BY <3>3, LenProperties
    <3> QED
      BY <2>2, <3>1, <3>2, <3>4
  <2> QED
    BY <2>1, <2>2, <2>4
<1>3. CASE Rotate
  <2>1. files' = Append(files, <<>>) /\ written' = written /\ <<>> \in Seq(Nat)
    BY <1>3 DEF Rotate
  <2>2. /\ DOMAIN files' = 1..Len(files) + 1 /\ DOMAIN files = 1..Len(files)
        /\ Len(files) \in Nat
        /\ \A f \in 1..Len(files) : files'[f] = files[f]
        /\ files'[Len(files) + 1] = <<>>
    BY <1>1, <2>1, AppendProperties, LenProperties
  <2>3. \A i : i \notin DOMAIN <<>>
    OBVIOUS
  <2> QED
    BY <2>1, <2>2, <2>3
<1>4. CASE Truncate
  <2>1. files' = [files EXCEPT ![Current] = <<>>] /\ written' = written
    BY <1>4 DEF Truncate
  <2>2. \A i : i \notin DOMAIN <<>>
    OBVIOUS
  <2> QED
    BY <1>1, <2>1, <2>2
<1>5. CASE UNCHANGED logs
  BY <1>5 DEF logs
<1> QED
  BY <1>2, <1>3, <1>4, <1>5, LogSteps DEF Log

\* Where the records of a new batch may come from.
Source(recs) ==
    \/ recs = <<>>
    \/ \E f \in DOMAIN files : recs = files[f]
    \/ \E p \in Procs : pc[p] = "read" /\ recs = view[p].recs

\* A step stages at most one batch, from the log as it is or as a follow read
\* it, and numbers it last.
LEMMA StagedSource ==
    ASSUME TypeInv, SeqInv, [Next]_vars
    PROVE  \/ Staged' = Staged
           \/ /\ UNCHANGED logs
              /\ \E b : Staged' = Staged \cup {b} /\ b.seq = next /\ Source(b.recs)
<1>1. ASSUME NEW p \in Procs, FollowStage(p) \/ StageFile(p) \/ Heartbeat(p), next' # next
      PROVE  /\ UNCHANGED <<logs, receipts>>
             /\ \E kind, recs : Enqueue(NewBatch(kind, recs)) /\ Source(recs)
  <2>1. CASE FollowStage(p)
    BY <2>1 DEF FollowStage, Source, collector
  <2>2. CASE StageFile(p)
    BY <1>1, <2>2 DEF StageFile, Source, spool, collector
  <2>3. CASE Heartbeat(p)
    BY <1>1, <2>3 DEF Heartbeat, Source, spool, collector
  <2> QED
    BY <1>1, <2>1, <2>2, <2>3
<1>2. ASSUME NEW kind, NEW recs, Enqueue(NewBatch(kind, recs)), UNCHANGED receipts
      PROVE  \E b : Staged' = Staged \cup {b} /\ b.seq = next /\ b.recs = recs
  <2> DEFINE b == NewBatch(kind, recs)
  <2>1. queue' = queue \cup {b} /\ b.seq = next /\ b.recs = recs
    BY <1>2 DEF Enqueue, NewBatch
  <2> HIDE DEF b
  <2> QED
    BY <1>2, <2>1 DEF Staged
<1>3. next' # next => \E p \in Procs : FollowStage(p) \/ StageFile(p) \/ Heartbeat(p)
  BY DEF Next, Log, WriteRecord, Rotate, Truncate, Step, Answer, Start, FollowOpen,
     FollowRead, FollowReviewNeeded, FollowRefused, Pending, Acknowledge, AckOutOfOrder,
     RefuseBatch, AcceptBatch, AcceptAgain, Interrupt, ServeLate, spool, vars
<1>4. CASE next' = next
  <2>1. Moves /\ next \in Nat
    BY NextSeq DEF TypeInv, TypeOK
  <2>2. Stays \/ (\E b \in Travelling : Arrives(b)) \/ \E b \in receipts : Leaves(b)
    BY <1>4, <2>1 DEF Moves, Grows, Enqueue
  <2>3. CASE Stays
    BY <2>3 DEF Stays, Staged
  <2>4. ASSUME NEW b \in Travelling, Arrives(b)
        PROVE  Staged' = Staged
    BY <2>4, DueFollows DEF Arrives, TakeIn, Receipt, Staged
  <2>5. ASSUME NEW b \in receipts, Leaves(b)
        PROVE  Staged' = Staged
    <3>1. \A c \in queue : c.seq = b.seq => c = b
      BY DEF SeqInv, Numbered, Staged
    <3> QED
      BY <2>5, <3>1 DEF Leaves, Staged
  <2> QED
    BY <2>2, <2>3, <2>4, <2>5
<1> QED
  BY <1>1, <1>2, <1>3, <1>4

\* The collector changes only as it takes a batch in.
LEMMA CollectorSteps ==
    ASSUME TypeInv, [Next]_vars
    PROVE  (\E b \in Batch : TakeIn(b)) \/ UNCHANGED collector
<1>1. ASSUME NEW p \in Procs, AcceptBatch(p)
      PROVE  TakeIn(batch[p]) /\ batch[p] \in Batch
  BY <1>1 DEF AcceptBatch, TypeInv, Held
<1>2. ASSUME NEW b \in late, ServeLate(b)
      PROVE  (TakeIn(b) /\ b \in Batch) \/ UNCHANGED collector
  BY <1>2 DEF ServeLate, TypeInv, TypeOK
<1>3. CASE Log \/ UNCHANGED vars
  BY <1>3 DEF Log, WriteRecord, Rotate, Truncate, vars, collector
<1>4. ASSUME NEW p \in Procs,
             \/ \E program \in Programs(p) : Start(p, program)
             \/ Step(p) \/ Interrupt(p) \/ AcceptAgain(p)
      PROVE  UNCHANGED collector
  BY <1>4 DEF Start, Step, FollowOpen, FollowRead, FollowReviewNeeded, FollowStage,
     FollowRefused, StageFile, Heartbeat, Pending, Acknowledge, AckOutOfOrder,
     RefuseBatch, Interrupt, AcceptAgain, Known
<1> QED
  BY <1>1, <1>2, <1>3, <1>4 DEF Next, Answer

LEMMA NextLog ==
    ASSUME TypeInv, LogInv, [Next]_vars
    PROVE  LogInv'
<1>1. written \in Nat /\ written' \in {written, written + 1}
  BY NewLines DEF TypeInv, TypeOK
<1>2. \A f \in DOMAIN files : \A i \in DOMAIN files[f] :
         files[f][i] \in Nat /\ files[f][i] <= written
  <2>1. \A f \in DOMAIN files : files[f] \in Seq(Nat)
    BY DEF TypeInv, TypeOK
  <2> QED
    BY <2>1 DEF LogInv
<1>3. ASSUME NEW f \in DOMAIN files', NEW i \in DOMAIN files'[f]
      PROVE  files'[f][i] <= written'
  BY <1>1, <1>2, <1>3, NewLines
<1>4. ASSUME NEW f \in DOMAIN files', NEW i \in DOMAIN files'[f],
             NEW g \in DOMAIN files', NEW j \in DOMAIN files'[g],
             files'[f][i] = files'[g][j]
      PROVE  f = g /\ i = j
  <2> DEFINE Old(h, k) == /\ h \in DOMAIN files /\ k \in DOMAIN files[h]
                          /\ files'[h][k] = files[h][k]
             New(h, k) == /\ files'[h][k] = written + 1
                          /\ h = Current /\ k = Len(files[Current]) + 1
  <2>1. (Old(f, i) \/ New(f, i)) /\ (Old(g, j) \/ New(g, j))
    BY <1>4, NewLines
  <2>2. \A h, k : Old(h, k) => files'[h][k] \in Nat /\ files'[h][k] <= written
    BY <1>2
  <2>3. ~ (Old(f, i) /\ New(g, j)) /\ ~ (New(f, i) /\ Old(g, j))
    BY <1>1, <1>4, <2>2
  <2>4. ASSUME Old(f, i), Old(g, j)
        PROVE  f = g /\ i = j
    <3>1. f \in DOMAIN files /\ g \in DOMAIN files /\ i \in DOMAIN files[f]
          /\ j \in DOMAIN files[g] /\ files[f][i] = files[g][j]
      BY <1>4, <2>4
    <3> HIDE DEF Old, New
    <3> QED
      BY <3>1 DEF LogInv
  <2> QED
    BY <2>1, <2>3, <2>4
<1> QED
  BY <1>3, <1>4 DEF LogInv

\* A follow that reads has lines of its file.
LEMMA ReadsLines ==
    ASSUME TypeInv, NEW p \in Procs, FollowRead(p), pc'[p] = "read"
    PROVE  /\ UNCHANGED logs
           /\ view'[p].ident \in DOMAIN files
           /\ \A r \in ToSet(view'[p].recs) :
                \E i \in DOMAIN files[view'[p].ident] : files[view'[p].ident][i] = r
<1> DEFINE f == view[p].ident
           w == [ident |-> f, from |-> Offset(f), recs |-> Unread(f)]
<1>1. f \in DOMAIN files /\ UNCHANGED logs
  BY DEF FollowRead, TypeInv, Held
<1>2. view'[p] = w
  <2>1. CASE Unread(f) = <<>>
    BY <2>1 DEF FollowRead, Succeed, Continue, TypeInv, TypeOK
  <2>2. CASE Unread(f) # <<>>
    BY <2>2 DEF FollowRead, TypeInv, TypeOK
  <2> QED
    BY <2>1, <2>2
<1>3. /\ w.from \in Nat /\ w.recs \in Seq(Nat)
      /\ w.from + Len(w.recs) <= Len(files[f])
      /\ \A i \in 1..Len(w.recs) : w.recs[i] = files[f][w.from + i]
  BY <1>1, UnreadLines DEF TypeInv
<1>4. files[f] \in Seq(Nat)
  BY <1>1 DEF TypeInv, TypeOK
<1>5. w.ident = f
  OBVIOUS
<1> HIDE DEF w, f
<1>6. ASSUME NEW r \in ToSet(w.recs)
      PROVE  \E i \in DOMAIN files[f] : files[f][i] = r
  <2>1. PICK k \in DOMAIN w.recs : r = w.recs[k]
    BY <1>6 DEF ToSet
  <2>2. k \in 1..Len(w.recs) /\ Len(w.recs) \in Nat /\ Len(files[f]) \in Nat
    BY <1>3, <1>4, LenProperties
  <2>3. w.from + k \in 1..Len(files[f])
    BY <1>3, <2>2
  <2>4. w.from + k \in DOMAIN files[f] /\ files[f][w.from + k] = r
    BY <1>3, <1>4, <2>1, <2>2, <2>3, LenProperties
  <2> QED
    BY <2>4
<1> QED
  BY <1>1, <1>2, <1>5, <1>6

LEMMA NextKnown ==
    ASSUME TypeInv, SeqInv, LogInv, KnownInv, [Next]_vars
    PROVE  KnownInv'
<1>1. /\ written \in Nat /\ written' \in {written, written + 1}
      /\ truncated \subseteq truncated'
  BY NewLines, NextOnward DEF TypeInv, TypeOK, Onward
<1>2. /\ \A b \in Staged : b.recs \in Seq(Nat)
      /\ \A p \in Procs : view[p].recs \in Seq(Nat)
      /\ \A f \in DOMAIN files : files[f] \in Seq(Nat)
  BY DEF TypeInv, TypeOK, Staged, Batch, View
<1>3. \A s \in Seq(Nat) : ToSet(s) \subseteq Nat
  BY DEF ToSet
<1>4. ASSUME NEW r \in Nat, r <= written
      PROVE  r <= written' /\ r # written + 1
  BY <1>1, <1>4
<1>5. ASSUME NEW b \in Staged', NEW r \in ToSet(b.recs)
      PROVE  r <= written'
  <2>1. CASE b \in Staged
    BY <1>2, <1>3, <1>4, <1>5, <2>1 DEF KnownInv
  <2>2. CASE b \notin Staged
    <3>1. Source(b.recs)
      BY <1>5, <2>2, StagedSource
    <3>2. CASE b.recs = <<>>
      BY <1>5, <3>2 DEF ToSet
    <3>3. ASSUME NEW f \in DOMAIN files, b.recs = files[f]
          PROVE  r <= written'
      BY <1>2, <1>3, <1>4, <1>5, <3>3 DEF LogInv, ToSet
    <3>4. ASSUME NEW p \in Procs, pc[p] = "read", b.recs = view[p].recs
          PROVE  r <= written'
      BY <1>2, <1>3, <1>4, <1>5, <3>4 DEF KnownInv
    <3> QED
      BY <3>1, <3>2, <3>3, <3>4 DEF Source
  <2> QED
    BY <2>1, <2>2
<1>6. ASSUME NEW p \in Procs, pc'[p] = "read"
      PROVE  /\ \A r \in ToSet(view'[p].recs) : r <= written'
             /\ \A f \in DOMAIN files' \ truncated' : \A i \in DOMAIN files'[f] :
                   files'[f][i] \in ToSet(view'[p].recs) => view'[p].ident = f
  <2>1. CASE pc[p] = "read" /\ view'[p] = view[p]
    <3>1. \A r \in ToSet(view[p].recs) : r \in Nat /\ r <= written
      BY <1>2, <1>3, <2>1 DEF KnownInv
    <3>2. ASSUME NEW f \in DOMAIN files' \ truncated', NEW i \in DOMAIN files'[f],
                 files'[f][i] \in ToSet(view[p].recs)
          PROVE  view[p].ident = f
      <4>1. files'[f][i] # written + 1
        BY <1>4, <3>1, <3>2
      <4>2. f \in DOMAIN files \ truncated /\ i \in DOMAIN files[f]
            /\ files'[f][i] = files[f][i]
        BY <1>1, <3>2, <4>1, NewLines
      <4> QED
        BY <2>1, <3>2, <4>2 DEF KnownInv
    <3> QED
      BY <1>4, <2>1, <3>1, <3>2
  <2>2. CASE FollowRead(p)
    <3>1. /\ UNCHANGED <<files, written, truncated>>
          /\ view'[p].ident \in DOMAIN files
          /\ \A r \in ToSet(view'[p].recs) :
               \E i \in DOMAIN files[view'[p].ident] : files[view'[p].ident][i] = r
      BY <1>6, <2>2, ReadsLines DEF logs
    <3> QED
      BY <3>1 DEF LogInv
  <2> QED
    BY <1>6, <2>1, <2>2, ReadStep
<1> QED
  BY <1>5, <1>6 DEF KnownInv

\* Positions in a stretch of a file.
LEMMA Stretch ==
    ASSUME NEW from \in Nat, NEW n \in Nat, NEW len \in Nat, from + n <= len,
           NEW k \in 1..n
    PROVE  /\ from + k \in 1..len
           /\ \A i \in Nat : from < i /\ i < from + k =>
                 i - from \in 1..n /\ from + (i - from) = i
OBVIOUS

\* What a follow commits continues what is staged of its file.
LEMMA FollowInOrder ==
    ASSUME TypeInv, LogInv, KnownInv, NEW p \in Procs, pc[p] = "read", Reads(view[p]),
           NEW f \in DOMAIN files \ truncated, NEW i \in DOMAIN files[f],
           NEW j \in DOMAIN files[f], i < j, files[f][j] \in ToSet(view[p].recs)
    PROVE  files[f][i] \in ToSet(view[p].recs) \/ files[f][i] \in RecordsOf(Staged)
<1> DEFINE v == view[p]
<1>1. v.ident = f
  BY DEF KnownInv
<1>2. /\ v.from + Len(v.recs) <= Len(files[f])
      /\ \A k \in 1..Len(v.recs) : v.recs[k] = files[f][v.from + k]
      /\ \A k \in 1..v.from : files[f][k] \in RecordsOf(Staged)
  BY <1>1 DEF Reads, LineStaged
<1>3. v.from \in Nat /\ v.recs \in Seq(Nat) /\ files[f] \in Seq(Nat)
  <2>1. v \in View
    BY DEF TypeInv, TypeOK
  <2> QED
    BY <2>1 DEF View, TypeInv, TypeOK
<1>4. /\ Len(v.recs) \in Nat /\ Len(files[f]) \in Nat
      /\ DOMAIN v.recs = 1..Len(v.recs) /\ DOMAIN files[f] = 1..Len(files[f])
  BY <1>3, LenProperties
<1>5. files[f][j] \in ToSet(v.recs)
  OBVIOUS
<1> HIDE DEF v
<1>6. PICK k \in 1..Len(v.recs) : files[f][j] = v.recs[k]
  BY <1>4, <1>5 DEF ToSet
<1>7. v.from + k = j
  <2>1. v.from + k \in DOMAIN files[f]
    BY <1>2, <1>3, <1>4, <1>6, Stretch
  <2>2. files[f][j] = files[f][v.from + k]
    BY <1>2, <1>6
  <2> QED
    BY <2>1, <2>2 DEF LogInv
<1>8. CASE i <= v.from
  <2>1. i \in 1..v.from
    BY <1>3, <1>4, <1>8
  <2> QED
    BY <1>2, <2>1
<1>9. CASE i > v.from
  <2>1. i - v.from \in 1..Len(v.recs) /\ v.from + (i - v.from) = i
    <3>1. i \in Nat /\ v.from < i /\ i < v.from + k
      BY <1>3, <1>4, <1>7, <1>9
    <3> QED
      BY <1>2, <1>3, <1>4, <1>6, <3>1, Stretch
  <2>2. files[f][i] = v.recs[i - v.from] /\ i - v.from \in DOMAIN v.recs
    BY <1>2, <1>4, <2>1
  <2>3. files[f][i] \in ToSet(v.recs)
    BY <2>2 DEF ToSet
  <2> QED
    BY <2>3 DEF v
<1>10. i <= v.from \/ i > v.from
  <2>1. i \in Nat /\ v.from \in Nat
    BY <1>3, <1>4
  <2> QED
    BY <2>1
<1> QED
  BY <1>8, <1>9, <1>10

LEMMA NextOrder ==
    ASSUME TypeInv, TypeInv', SeqInv, PassInv, LogInv, KnownInv, OrderInv, [Next]_vars
    PROVE  OrderInv'
<1> SUFFICES ASSUME NEW b \in Staged', NEW f \in DOMAIN files' \ truncated',
                    NEW i \in DOMAIN files'[f], NEW j \in DOMAIN files'[f],
                    i < j, files'[f][j] \in ToSet(b.recs)
             PROVE  \E c \in Staged' : c.seq <= b.seq /\ files'[f][i] \in ToSet(c.recs)
  BY DEF OrderInv
<1>1. Staged \subseteq Staged' /\ Onward
  BY NextSeq, StagedMoves, NextOnward
<1>2. CASE b \in Staged
  <2>1. files'[f][j] # written + 1
    <3>1. \A r \in ToSet(b.recs) : r \in Nat /\ r <= written
      <4>1. b.recs \in Seq(Nat)
        BY <1>2 DEF TypeInv, TypeOK, Staged, Batch
      <4>2. ToSet(b.recs) \subseteq Nat
        BY <4>1 DEF ToSet
      <4> QED
        BY <1>2, <4>2 DEF KnownInv
    <3>2. written \in Nat
      BY DEF TypeInv, TypeOK
    <3> QED
      BY <3>1, <3>2
  <2>2. f \in DOMAIN files \ truncated /\ j \in DOMAIN files[f] /\ files'[f][j] = files[f][j]
    BY <1>1, <2>1, NewLines DEF Onward
  <2>3. i \in DOMAIN files[f] /\ files'[f][i] = files[f][i]
    <3>1. /\ DOMAIN files[f] = 1..Len(files[f]) /\ Len(files[f]) \in Nat
          /\ DOMAIN files'[f] = 1..Len(files'[f]) /\ Len(files'[f]) \in Nat
      <4>1. files[f] \in Seq(Nat) /\ files'[f] \in Seq(Nat)
        BY <2>2 DEF TypeInv, TypeOK
      <4> QED
        BY <4>1, LenProperties
    <3>2. i \in 1..Len(files[f])
      BY <2>2, <3>1
    <3> QED
      BY <1>1, <2>2, <3>1, <3>2 DEF Onward
  <2>4. \E c \in Staged : c.seq <= b.seq /\ files[f][i] \in ToSet(c.recs)
    BY <1>2, <2>2, <2>3 DEF OrderInv
  <2> QED
    BY <1>1, <2>3, <2>4
<1>3. CASE b \notin Staged
  <2>1. UNCHANGED <<files, truncated>> /\ b.seq = next /\ Source(b.recs)
    BY <1>3, StagedSource DEF logs
  <2>2. next \in Nat /\ \A c \in Staged : c.seq <= b.seq
    <3>1. next \in Nat /\ \A c \in Staged : c.seq \in 1..next - 1
      BY DEF SeqInv, Numbered, TypeInv, TypeOK
    <3>2. \A n \in 1..next - 1 : n <= next
      BY <3>1
    <3> QED
      BY <2>1, <3>1, <3>2
  <2>3. b.seq <= b.seq
    BY <2>1, <2>2
  <2>4. files[f][i] \in ToSet(b.recs) \/ files[f][i] \in RecordsOf(Staged)
    <3>1. b.recs # <<>>
      BY DEF ToSet
    <3>2. ASSUME NEW g \in DOMAIN files, b.recs = files[g]
          PROVE  files[f][i] \in ToSet(b.recs)
      BY <2>1, <3>2 DEF LogInv, ToSet
    <3>3. ASSUME NEW p \in Procs, pc[p] = "read", b.recs = view[p].recs
          PROVE  files[f][i] \in ToSet(b.recs) \/ files[f][i] \in RecordsOf(Staged)
      BY <2>1, <3>3, FollowInOrder DEF PassInv, ReadsInv
    <3> QED
      BY <2>1, <3>1, <3>2, <3>3 DEF Source
  <2>5. CASE files[f][i] \in ToSet(b.recs)
    BY <2>1, <2>3, <2>5
  <2>6. CASE files[f][i] \in RecordsOf(Staged)
    BY <1>1, <2>1, <2>2, <2>6 DEF RecordsOf
  <2> QED
    BY <2>4, <2>5, <2>6
<1> QED
  BY <1>2, <1>3

LEMMA NextCollected ==
    ASSUME TypeInv, CollectedInv, [Next]_vars
    PROVE  CollectedInv'
<1>1. CASE UNCHANGED collector
  BY <1>1 DEF collector, CollectedInv
<1>2. ASSUME NEW b \in Batch, TakeIn(b)
      PROVE  CollectedInv'
  BY <1>2 DEF TakeIn, CollectedInv, RecordsOf
<1> QED
  BY <1>1, <1>2, CollectorSteps

\* What the collector has of a log file is a beginning of it
\* (CollectedIsPrefix): lines are staged in order, and collected in the order
\* they were staged.
THEOREM PrefixCollected == Spec => []CollectedIsPrefix
<1>1. Init => PrefixInv
  BY DEF Init, PrefixInv, LogInv, KnownInv, OrderInv, CollectedInv, Staged, RecordsOf
<1>2. /\ TypeInv /\ TypeInv' /\ SeqInv /\ PassInv /\ PrefixInv /\ [Next]_vars
      => PrefixInv'
  BY NextLog, NextKnown, NextOrder, NextCollected DEF PrefixInv
<1>3. TypeInv /\ SeqInv /\ PrefixInv => CollectedIsPrefix
  <2> SUFFICES ASSUME TypeInv, SeqInv, PrefixInv, NEW f \in DOMAIN files \ truncated,
                      NEW i \in DOMAIN files[f], NEW j \in DOMAIN files[f],
                      i < j, files[f][j] \in events
               PROVE  files[f][i] \in events
    BY DEF CollectedIsPrefix
  <2>1. events = RecordsOf(receipts)
    BY DEF PrefixInv, CollectedInv
  <2>2. PICK r \in receipts : files[f][j] \in ToSet(r.recs)
    BY <2>1 DEF RecordsOf
  <2>3. PICK c \in Staged : c.seq <= r.seq /\ files[f][i] \in ToSet(c.recs)
    BY <2>2 DEF PrefixInv, OrderInv, Staged
  <2>4. c.seq \in 1..r.seq
    BY <2>2, <2>3 DEF SeqInv, Numbered, Staged
  <2>5. PICK q \in receipts : q.seq = c.seq
    BY <2>2, <2>4 DEF SeqInv, InOrder
  <2>6. q = c
    BY <2>3, <2>5 DEF SeqInv, Numbered, Staged
  <2> QED
    BY <2>1, <2>3, <2>5, <2>6 DEF RecordsOf
<1> QED
  BY <1>1, <1>2, <1>3, Sequence, CursorSafety, PTL DEF Spec

-------------------------------------------------------------------------------
(* The health report. *)

Reports == {b.seq : b \in {r \in receipts : r.kind = "heartbeat"}}

\* No report is shown before there is one, and none is newer.
HealthInv ==
    /\ health \in {0} \cup Reports
    /\ \A s \in Reports : s <= health

\* The collector shows the newest report it has.
THEOREM NewestShown == Spec => []HealthIsNewest
<1>1. Init => HealthInv
  BY DEF Init, HealthInv, Reports
<1>2. TypeInv /\ HealthInv /\ [Next]_vars => HealthInv'
  <2> SUFFICES ASSUME TypeInv, HealthInv, [Next]_vars
               PROVE  HealthInv'
    OBVIOUS
  <2>1. (\E b \in Batch : TakeIn(b)) \/ UNCHANGED <<receipts, health>>
    BY CollectorSteps DEF collector
  <2>2. CASE UNCHANGED <<receipts, health>>
    BY <2>2 DEF HealthInv, Reports
  <2>3. ASSUME NEW b, TakeIn(b), b \in Batch
        PROVE  HealthInv'
    <3>1. /\ receipts' = receipts \cup {b}
          /\ health' = IF b.kind = "heartbeat" THEN b.seq ELSE health
          /\ \A r \in receipts : r.seq < b.seq
      BY <2>3 DEF TakeIn, FollowsLast
    <3>2. CASE b.kind = "heartbeat"
      <4>1. Reports' = Reports \cup {b.seq} /\ health' = b.seq /\ b.seq \in Nat
        BY <2>3, <3>1, <3>2 DEF Reports, Batch
      <4>2. \A s \in Reports : s <= b.seq
        BY <2>3, <3>1 DEF Reports, Batch, TypeInv, TypeOK
      <4> QED
        BY <4>1, <4>2 DEF HealthInv
    <3>3. CASE b.kind # "heartbeat"
      BY <3>1, <3>3 DEF Reports, HealthInv
    <3> QED
      BY <3>2, <3>3
  <2> QED
    BY <2>1, <2>2, <2>3
<1>3. TypeInv /\ HealthInv => HealthIsNewest
  <2> SUFFICES ASSUME TypeInv, HealthInv
               PROVE  HealthIsNewest
    OBVIOUS
  <2> DEFINE S == {0} \cup Reports
  <2>1. health \in S /\ S \subseteq Nat /\ \A s \in S : s <= health
    <3>1. Reports \subseteq Nat
      BY DEF Reports, TypeInv, TypeOK, Batch
    <3>2. health \in Nat
      BY DEF TypeInv, TypeOK
    <3> QED
      BY <3>1, <3>2 DEF HealthInv
  <2>2. Max(S) = health
    <3> HIDE DEF S
    <3>1. \A x \in S : (\A y \in S : x >= y) => x = health
      BY <2>1
    <3>2. \A y \in S : health >= y
      BY <2>1
    <3>3. Max(S) \in S /\ \A y \in S : Max(S) >= y
      BY <2>1, <3>2 DEF Max
    <3> QED
      BY <3>1, <3>3
  <2> QED
    BY <2>2 DEF HealthIsNewest, Reports
<1> QED
  BY <1>1, <1>2, <1>3, TypesAndHeld, PTL DEF Spec
===============================================================================
