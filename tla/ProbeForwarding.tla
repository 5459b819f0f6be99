---------------------------- MODULE ProbeForwarding ----------------------------
(***************************************************************************)
(* A passive probe forwarding log records to the collector:                *)
(* integrations/probe.py and the commands of integrations/probe_cli.py.    *)
(*                                                                         *)
(* "follow" reads new lines of a log behind a stored cursor and, in one    *)
(* transaction, queues them as a numbered batch and moves the cursor;      *)
(* "stage" queues a file, "heartbeat" a health report; "deliver" posts the *)
(* oldest batch, and deletes it once the collector's receipt matches.      *)
(* Every command is a process of its own on the same spool database:       *)
(* netrisk-forward.service runs follow, heartbeat and deliver in turn, and *)
(* stops at the first that fails; operators run any command at any time.   *)
(* Processes die, requests and replies are lost, a request may reach the   *)
(* collector after its sender has given up, logs rotate and are truncated. *)
(*                                                                         *)
(* A record is the number of the log line, and stands for the digest       *)
(* INSERT OR IGNORE keeps one event for; a batch stands for its hash.  The *)
(* byte limits, the audit rows, and the reasons to refuse a probe's        *)
(* enrollment are abstracted.                                              *)
(***************************************************************************)
EXTENDS Integers, Sequences, SequencesExt, FiniteSetsExt, Functions

CONSTANTS
    Procs,         \* processes that run probe commands
    Service,       \* the one systemd starts
    ByHand,        \* commands the others run
    MaxRecords,    \* max_records, the observations the spool may hold
    Chunk,         \* lines one follow reads, records one batch may carry
    Limit,         \* --limit of deliver
    Unparsable,    \* records normalize refuses
    MaxWritten,    \* bound on the records logged
    MaxTurns,      \* bound on the rotations and truncations of the log
    MaxLate,       \* bound on the requests that have outlived their sender
    MaxSeq         \* bound on the batches staged

Commands == {"follow", "follow --accept-rotation", "stage", "heartbeat",
             "deliver"}

ASSUME ProbeAssumption ==
    /\ Service \in Procs
    /\ ByHand \subseteq Commands
    /\ {MaxRecords, Chunk, Limit} \subseteq Nat \ {0}
    /\ {MaxWritten, MaxTurns, MaxLate, MaxSeq} \subseteq Nat
    /\ Unparsable \subseteq Nat

Batch == [seq : Nat \ {0}, kind : {"events", "heartbeat"}, recs : Seq(Nat)]

NoBatch == [seq |-> 0, kind |-> "none", recs |-> <<>>]

(* What a follow holds: the file it opened, where it began to read, what   *)
(* it read, and the cursor it found.                                       *)
View == [ident : Nat, from : Nat, recs : Seq(Nat)]

NoView == [ident |-> 0, from |-> 0, recs |-> <<>>]

VARIABLES
    files,         \* the files the log path has named, the last one current
    written,       \* records logged so far
    truncated,     \* files that were emptied in place
    cursor,        \* probe_meta's cursor: file and offset, <<0, 0>> at first
    queue,         \* probe_queue
    next,          \* probe_meta's next sequence number
    todo,          \* commands a process has still to run
    pc,            \* where it is in the first of them
    view,          \* what its follow holds
    batch,         \* what its deliver holds
    sent,          \* batches its deliver has seen acknowledged
    late,          \* requests that outlived their sender, not yet served
    receipts,      \* probe_receipts
    events,        \* security_events
    health         \* probe_health: the number of the report it shows

logs == <<files, written, truncated>>
spool == <<queue, next>>
procs == <<todo, pc, view, batch, sent>>
collector == <<receipts, events, health>>
vars == <<logs, cursor, spool, procs, late, collector>>

TypeOK ==
    /\ files \in Seq(Seq(Nat)) /\ files # <<>>
    /\ written \in Nat
    /\ truncated \subseteq Nat
    /\ cursor \in Nat \X Nat
    /\ queue \subseteq Batch
    /\ next \in Nat \ {0}
    /\ todo \in [Procs -> Seq(Commands)]
    /\ pc \in [Procs -> {"idle", "opened", "read", "sent", "accepted", "duplicate"}]
    /\ view \in [Procs -> View]
    /\ batch \in [Procs -> Batch \cup {NoBatch}]
    /\ sent \in [Procs -> Nat]
    /\ late \subseteq Batch
    /\ receipts \subseteq Batch
    /\ events \subseteq Nat
    /\ health \in Nat

Init ==
    /\ files = << <<>> >> /\ written = 0 /\ truncated = {}
    /\ cursor = <<0, 0>>
    /\ queue = {} /\ next = 1
    /\ todo = [p \in Procs |-> <<>>]
    /\ pc = [p \in Procs |-> "idle"]
    /\ view = [p \in Procs |-> NoView]
    /\ batch = [p \in Procs |-> NoBatch]
    /\ sent = [p \in Procs |-> 0]
    /\ late = {}
    /\ receipts = {} /\ events = {} /\ health = 0

(***************************************************************************)
(* The capture engine's log.  A line counts once its newline is written:   *)
(* follow_once never reads past the last newline.                          *)
(***************************************************************************)
Current == Len(files)

WriteRecord ==
    /\ written < MaxWritten
    /\ written' = written + 1
    /\ files' = [files EXCEPT ![Current] = Append(@, written + 1)]
    /\ UNCHANGED <<truncated, cursor, spool, procs, late, collector>>

Turns == Current - 1 + Cardinality(truncated)

(* The log is renamed away and a new file takes its path. *)
Rotate ==
    /\ Turns < MaxTurns
    /\ files' = Append(files, <<>>)
    /\ UNCHANGED <<written, truncated, cursor, spool, procs, late, collector>>

(* The log is copied away and emptied in place: the same file. *)
Truncate ==
    /\ Turns < MaxTurns
    /\ files[Current] # <<>>
    /\ files' = [files EXCEPT ![Current] = <<>>]
    /\ truncated' = truncated \cup {Current}
    /\ UNCHANGED <<written, cursor, spool, procs, late, collector>>

(***************************************************************************)
(* Processes.  A program is a list of commands; a command that fails ends  *)
(* it (Type=oneshot stops at the first ExecStart that does not exit 0).    *)
(* The service's two follows, of two logs, are one here.  MaxSeq bounds    *)
(* the batches: past it only deliver is started.                           *)
(***************************************************************************)
Programs(p) ==
    IF next > MaxSeq THEN {<<"deliver">>}
    ELSE IF p = Service THEN {<<"follow", "heartbeat", "deliver">>}
    ELSE {<<c>> : c \in ByHand}

Start(p, program) ==
    /\ todo[p] = <<>>
    /\ program \in Programs(p)
    /\ todo' = [todo EXCEPT ![p] = program]
    /\ UNCHANGED <<logs, cursor, spool, pc, view, batch, sent, late, collector>>

Running(p, c) == todo[p] # <<>> /\ Head(todo[p]) = c

Following(p) == Running(p, "follow") \/ Running(p, "follow --accept-rotation")

(* p is back at the start of a command, with these commands left to run. *)
Continue(p, commands) ==
    /\ todo' = [todo EXCEPT ![p] = commands]
    /\ pc' = [pc EXCEPT ![p] = "idle"]
    /\ view' = [view EXCEPT ![p] = NoView]
    /\ batch' = [batch EXCEPT ![p] = NoBatch]
    /\ sent' = [sent EXCEPT ![p] = 0]

Succeed(p) == Continue(p, Tail(todo[p]))

Fail(p) == Continue(p, <<>>)

(***************************************************************************)
(* The spool.                                                              *)
(***************************************************************************)
Weight(b) == IF b.kind = "events" THEN Len(b.recs) ELSE 1

Queued == MapThenSumSet(Weight, queue)

\* Defect: numbered from 0.
NumberedFromZero(kind, recs) == [seq |-> next - 1, kind |-> kind, recs |-> recs]

NewBatch(kind, recs) == [seq |-> next, kind |-> kind, recs |-> recs]

(* stage, up to _enqueue's transaction: every record has to pass. *)
Stageable(recs) ==
    /\ recs # <<>> /\ Len(recs) <= Chunk
    /\ ToSet(recs) \cap Unparsable = {}

HasRoom(b) == Queued + Weight(b) <= MaxRecords

\* Defect: the next number is not stored.
EnqueueSameNumber(b) ==
    /\ HasRoom(b)
    /\ queue' = queue \cup {b}
    /\ UNCHANGED next

Enqueue(b) ==
    /\ HasRoom(b)
    /\ queue' = queue \cup {b}
    /\ next' = next + 1

FollowOpen(p) ==
    /\ Following(p) /\ pc[p] = "idle"
    /\ pc' = [pc EXCEPT ![p] = "opened"]
    /\ view' = [view EXCEPT ![p] = [NoView EXCEPT !.ident = Current]]
    /\ UNCHANGED <<logs, cursor, spool, todo, batch, sent, late, collector>>

(* The cursor is of another file, or beyond the end of this one. *)
Rotated(ident) ==
    /\ cursor[1] # 0
    /\ cursor[1] # ident \/ Len(files[ident]) < cursor[2]

Offset(ident) == IF cursor[1] = 0 \/ Rotated(ident) THEN 0 ELSE cursor[2]

\* Defect: the read starts one line too far.
UnreadLate(ident) ==
    SubSeq(files[ident], Offset(ident) + 2,
           Min({Len(files[ident]), Offset(ident) + Chunk}))

Unread(ident) ==
    SubSeq(files[ident], Offset(ident) + 1,
           Min({Len(files[ident]), Offset(ident) + Chunk}))

FollowRead(p) ==
    /\ Following(p) /\ pc[p] = "opened"
    /\ LET ident == view[p].ident IN
       /\ ~ (Rotated(ident) /\ Running(p, "follow"))
       /\ IF Unread(ident) = <<>>
          THEN Succeed(p)
          ELSE /\ pc' = [pc EXCEPT ![p] = "read"]
               /\ view' = [view EXCEPT ![p] = [ident |-> ident,
                                               from |-> Offset(ident),
                                               recs |-> Unread(ident)]]
               /\ UNCHANGED <<todo, batch, sent>>
    /\ UNCHANGED <<logs, cursor, spool, late, collector>>

FollowReviewNeeded(p) ==
    /\ Running(p, "follow") /\ pc[p] = "opened"
    /\ Rotated(view[p].ident)
    /\ Fail(p)
    /\ UNCHANGED <<logs, cursor, spool, late, collector>>

FollowStage(p) ==
    /\ pc[p] = "read"
    /\ Stageable(view[p].recs)
    /\ Enqueue(NewBatch("events", view[p].recs))
    /\ cursor' = <<view[p].ident, view[p].from + Len(view[p].recs)>>
    /\ Succeed(p)
    /\ UNCHANGED <<logs, late, collector>>

\* Defect: the cursor is moved by a transaction of its own.
CursorAnyway(p) ==
    /\ pc[p] = "read"
    /\ ~ (Stageable(view[p].recs) /\ HasRoom(NewBatch("events", view[p].recs)))
    /\ cursor' = <<view[p].ident, view[p].from + Len(view[p].recs)>>
    /\ Fail(p)
    /\ UNCHANGED <<logs, spool, late, collector>>

(* The transaction is rolled back, the cursor with it. *)
FollowRefused(p) ==
    /\ pc[p] = "read"
    /\ ~ (Stageable(view[p].recs) /\ HasRoom(NewBatch("events", view[p].recs)))
    /\ Fail(p)
    /\ UNCHANGED <<logs, cursor, spool, late, collector>>

(* An operator stages a whole file, a retained rotated log for example. *)
StageFile(p) ==
    /\ Running(p, "stage")
    /\ \E ident \in DOMAIN files :
          IF Stageable(files[ident])
             /\ HasRoom(NewBatch("events", files[ident]))
          THEN Enqueue(NewBatch("events", files[ident])) /\ Succeed(p)
          ELSE Fail(p) /\ UNCHANGED spool
    /\ UNCHANGED <<logs, cursor, late, collector>>

Heartbeat(p) ==
    /\ Running(p, "heartbeat")
    /\ IF HasRoom(NewBatch("heartbeat", <<>>))
       THEN Enqueue(NewBatch("heartbeat", <<>>)) /\ Succeed(p)
       ELSE Fail(p) /\ UNCHANGED spool
    /\ UNCHANGED <<logs, cursor, late, collector>>

\* Defect: any row.
AnyRow(b) == b \in queue

(* The row ORDER BY seq LIMIT 1 returns. *)
Oldest(b) == b \in queue /\ \A c \in queue : b.seq <= c.seq

Pending(p) ==
    /\ Running(p, "deliver") /\ pc[p] = "idle"
    /\ IF queue = {}
       THEN Succeed(p)
       ELSE /\ \E b \in queue : Oldest(b) /\ batch' = [batch EXCEPT ![p] = b]
            /\ pc' = [pc EXCEPT ![p] = "sent"]
            /\ UNCHANGED <<todo, view, sent>>
    /\ UNCHANGED <<logs, cursor, spool, late, collector>>

(* A receipt matches: the row goes if it is still the oldest.  deliver     *)
(* goes on until nothing is pending or Limit batches are delivered.        *)
Acknowledge(p) ==
    /\ pc[p] \in {"accepted", "duplicate"}
    /\ Oldest(batch[p])
    /\ queue' = {b \in queue : b.seq # batch[p].seq}
    /\ IF sent[p] + 1 < Limit
       THEN /\ pc' = [pc EXCEPT ![p] = "idle"]
            /\ batch' = [batch EXCEPT ![p] = NoBatch]
            /\ sent' = [sent EXCEPT ![p] = @ + 1]
            /\ UNCHANGED <<todo, view>>
       ELSE Succeed(p)
    /\ UNCHANGED <<logs, cursor, next, late, collector>>

(* Another deliver was faster: spool_ack_out_of_order. *)
AckOutOfOrder(p) ==
    /\ pc[p] \in {"accepted", "duplicate"}
    /\ ~ Oldest(batch[p])
    /\ Fail(p)
    /\ UNCHANGED <<logs, cursor, spool, late, collector>>

(***************************************************************************)
(* The collector.  accept is one transaction; the server takes requests    *)
(* one at a time.                                                          *)
(***************************************************************************)
Receipt(b) == {r \in receipts : r.seq = b.seq}

FollowsLast(b) ==
    /\ \A r \in receipts : r.seq < b.seq
    /\ b.seq = 1 \/ \E r \in receipts : r.seq = b.seq - 1

Collides(b) == Receipt(b) # {} /\ b \notin Receipt(b)

Gaps(b) == Receipt(b) = {} /\ ~ FollowsLast(b)

TakeIn(b) ==
    /\ Receipt(b) = {} /\ FollowsLast(b)
    /\ receipts' = receipts \cup {b}
    /\ events' = events \cup ToSet(b.recs)
    /\ health' = IF b.kind = "heartbeat" THEN b.seq ELSE health

\* Defect: a repeated report is shown again.
ShownAgain(b) ==
    /\ b \in Receipt(b)
    /\ health' = IF b.kind = "heartbeat" THEN b.seq ELSE health
    /\ UNCHANGED <<receipts, events>>

\* Defect: a batch the collector has is refused as a replay.
KnownIsReplay(b) == FALSE /\ b \in Receipt(b) /\ UNCHANGED collector

Known(b) == b \in Receipt(b) /\ UNCHANGED collector

AcceptBatch(p) ==
    /\ pc[p] = "sent"
    /\ TakeIn(batch[p])
    /\ pc' = [pc EXCEPT ![p] = "accepted"]
    /\ UNCHANGED <<logs, cursor, spool, todo, view, batch, sent, late>>

AcceptAgain(p) ==
    /\ pc[p] = "sent"
    /\ Known(batch[p])
    /\ pc' = [pc EXCEPT ![p] = "duplicate"]
    /\ UNCHANGED <<logs, cursor, spool, todo, view, batch, sent, late>>

\* Defect: whatever the answer, the batch is done with.
RefusedIsDelivered(p) ==
    /\ pc[p] = "sent"
    /\ queue' = queue \ {batch[p]}
    /\ Fail(p)
    /\ UNCHANGED <<logs, cursor, next, late, collector>>

(* 403: deliver fails and the queue is preserved.  The collector refuses a *)
(* collision and a gap, and any batch while the enrollment is disabled,    *)
(* expired or does not match: the registry is read for every request, and  *)
(* may change at any time.                                                 *)
RefuseBatch(p) ==
    /\ pc[p] = "sent"
    /\ Fail(p)
    /\ UNCHANGED <<logs, cursor, spool, late, collector>>

(* A request whose sender has gone is served all the same. *)
ServeLate(b) ==
    /\ b \in late
    /\ late' = late \ {b}
    /\ TakeIn(b) \/ UNCHANGED collector
    /\ UNCHANGED <<logs, cursor, spool, procs>>

Outlive(p) ==
    /\ pc[p] = "sent"
    /\ Cardinality(late) < MaxLate
    /\ late' = late \cup {batch[p]}

(* The process dies or its 10 s are over.  A request it had sent is lost,  *)
(* or stays on its way; a reply to it is lost.                             *)
Interrupt(p) ==
    /\ todo[p] # <<>>
    /\ Fail(p)
    /\ late' = late \/ Outlive(p)
    /\ UNCHANGED <<logs, cursor, spool, collector>>

Log == WriteRecord \/ Rotate \/ Truncate

Step(p) ==
    \/ FollowOpen(p) \/ FollowRead(p) \/ FollowReviewNeeded(p)
    \/ FollowStage(p) \/ FollowRefused(p)
    \/ StageFile(p) \/ Heartbeat(p)
    \/ Pending(p) \/ Acknowledge(p) \/ AckOutOfOrder(p)
    \/ RefuseBatch(p)

Answer(p) == AcceptBatch(p) \/ AcceptAgain(p)

Next ==
    \/ Log
    \/ \E p \in Procs :
          \/ \E program \in Programs(p) : Start(p, program)
          \/ Step(p) \/ Answer(p) \/ Interrupt(p)
    \/ \E b \in late : ServeLate(b)

Spec == Init /\ [][Next]_vars

-------------------------------------------------------------------------------
(***************************************************************************)
(* Fairness.  A command that runs takes its steps, and its deliveries are  *)
(* not cut short, refused or left without an answer for ever.              *)
(***************************************************************************)
Runs(p) ==
    /\ WF_vars(Step(p))
    /\ SF_vars(Pending(p))
    /\ SF_vars(Answer(p))
    /\ SF_vars(Acknowledge(p))

(* netrisk-forward.timer starts the service again and again. *)
ServiceSpec ==
    /\ Spec
    /\ WF_vars(\E program \in Programs(Service) : Start(Service, program))
    /\ Runs(Service)

(* Another process runs deliver on its own again and again; the service    *)
(* may do what it will.                                                    *)
DeliverSpec ==
    /\ Spec
    /\ \A p \in Procs \ {Service} : SF_vars(Start(p, <<"deliver">>)) /\ Runs(p)

-------------------------------------------------------------------------------
(***************************************************************************)
(* Properties.                                                             *)
(***************************************************************************)
Staged == queue \cup receipts

RecordsOf(batches) == UNION {ToSet(b.recs) : b \in batches}

(* Every line the cursor has passed is in the queue or at the collector,   *)
(* with processes dying anywhere, two follows at once and refused batches; *)
(* a file emptied in place is the exception, when it grew past the cursor  *)
(* before the next follow (the check is of inode and size).                *)
PassedIsStaged ==
    cursor[1] # 0 /\ cursor[1] \notin truncated =>
        \A i \in 1..cursor[2] : files[cursor[1]][i] \in RecordsOf(Staged)

(* What the collector has of a log file is a beginning of it: no line is   *)
(* missing before one that has arrived, whatever was interrupted, restaged *)
(* by an overlapping follow or staged by hand.                             *)
CollectedIsPrefix ==
    \A f \in DOMAIN files \ truncated :
        \A i, j \in DOMAIN files[f] :
            i < j /\ files[f][j] \in events => files[f][i] \in events

(* A number given to a batch is a batch that is queued or has its receipt: *)
(* no delete reaches a batch the collector has not committed.              *)
NothingLost ==
    \A s \in 1..(next - 1) : \E b \in Staged : b.seq = s

(* Whichever requests are on their way, with several delivers at once and  *)
(* requests that outlive their sender, the collector finds none of them a  *)
(* gap or a collision: those refusals mean tampering, not bad luck.        *)
Travelling == late \cup {batch[p] : p \in {q \in Procs : pc[q] = "sent"}}

NeverOutOfSequence ==
    \A b \in Travelling : ~ Collides(b) /\ ~ Gaps(b)

(* The health report shown is the newest one collected: a repeated or late *)
(* request does not put an older one back.                                 *)
HealthIsNewest ==
    health = Max({0} \cup {r.seq : r \in {b \in receipts : b.kind = "heartbeat"}})

(* Batches reach the collector as over a channel that numbers them, loses  *)
(* none and repeats none.                                                  *)
Channel == INSTANCE ProbeChannel WITH offered <- Staged, collected <- receipts

IsChannel == Channel!ChannelSpec

(* The queue empties again and again (MaxSeq ends the staging): with       *)
(* NothingLost, every batch is collected in the end.                       *)
QueueDrains == []<>(queue = {})
===============================================================================
