------------------------------- MODULE PeerSync -------------------------------
(***************************************************************************)
(* Peer-to-peer replication of the event log from one node to the other:   *)
(* cluster/peer_sync writer, streamer and applier.                         *)
(*                                                                         *)
(* record_event inserts a row without its HMAC, adds the HMAC and commits. *)
(* All threads of a node share one SQLite connection, so the streamer sees *)
(* rows that are not signed or not committed yet, and any thread's commit  *)
(* commits what the others have written so far.  The streamer sends one    *)
(* event at a time and waits for its ack; the applier runs the handler and *)
(* then, in a second transaction, moves last_applied_seq.  Either process  *)
(* may die and the connection may break between any two steps.             *)
(*                                                                         *)
(* Heartbeats carry nothing and are left out.  The applier serves one      *)
(* connection at a time, so it is done with the frame of a broken one      *)
(* before it answers the next hello.                                       *)
(***************************************************************************)
EXTENDS Integers, Sequences, SequencesExt, FiniteSetsExt

CONSTANTS
    Event,       \* the events recorded, in order: 1..n
    Registered,  \* events whose kind has a handler on the standby (none as shipped)
    Batch,       \* BATCH_SIZE
    Keep,        \* trim_keep_recent_seq
    MaxBreaks,   \* bound on disconnects and process deaths
    None         \* no frame or ack on its way

ASSUME SyncAssumption ==
    /\ IsFiniteSet(Event) /\ Event = 1..Cardinality(Event)
    /\ Registered \subseteq Event
    /\ Batch \in Nat \ {0}
    /\ {Keep, MaxBreaks} \subseteq Nat
    /\ None \notin Event \cup {0}

Row == [event : Event, signed : BOOLEAN]

Frame == [seq : Event, event : Event, signed : BOOLEAN]

ASSUME NoneIsNoFrame == None \notin Frame

VARIABLES
    log,           \* the rows of peer_events as the active's threads see them
    disk,          \* the same as of the last commit
    trimmed,       \* rows up to this seq are deleted
    unsigned,      \* seqs a recording thread has still to sign
    recorded,      \* events recorded so far
    phase,         \* the streamer: down, polling, sending, waiting
    batch,         \* frames it has read and not sent
    last_acked_seq,
    frame,         \* the event frame on its way or being applied
    ack,           \* the ack on its way
    applier,       \* ready, or dispatched: the handler ran, the seq not moved
    last_applied_seq,
    handled,       \* events whose handler ran to its end
    repeats,       \* how often it ran to its end for one of them again
    raised,        \* events whose handler raised once
    excused,       \* events refused once for their HMAC, or given a used seq
    top,           \* the highest seq ever given to a row
    deaths,        \* deaths of the standby
    breaks         \* disconnects and deaths so far

active == <<log, disk, trimmed, unsigned, recorded, top>>
streamer == <<phase, batch, last_acked_seq>>
effects == <<handled, repeats>>
standby == <<applier, last_applied_seq, effects>>
bounds == <<deaths, breaks>>
refusals == <<raised, excused>>
vars == <<active, streamer, frame, ack, standby, refusals, bounds>>

TypeOK ==
    /\ log \in Seq(Row) /\ disk \in Seq(Row)
    /\ Len(disk) <= Len(log)
    /\ trimmed \in 0..Len(disk)
    /\ unsigned \subseteq DOMAIN log
    /\ \A s \in unsigned : ~log[s].signed
    /\ recorded \in 0..Cardinality(Event)
    /\ phase \in {"down", "polling", "sending", "waiting"}
    /\ batch \in Seq(Frame)
    /\ last_acked_seq \in 0..top /\ last_applied_seq \in 0..top
    /\ frame \in Frame \cup {None}
    /\ ack \in Event \cup {0, None}
    /\ applier \in {"ready", "dispatched"}
    /\ applier = "dispatched" => frame # None
    /\ handled \subseteq Registered /\ repeats \in Nat
    /\ raised \subseteq Registered /\ excused \subseteq Event
    /\ top \in 0..recorded
    /\ deaths \in 0..breaks /\ breaks \in 0..MaxBreaks

Init ==
    /\ log = <<>> /\ disk = <<>> /\ trimmed = 0
    /\ unsigned = {} /\ recorded = 0 /\ top = 0
    /\ phase = "down" /\ batch = <<>> /\ last_acked_seq = 0
    /\ frame = None /\ ack = None
    /\ applier = "ready" /\ last_applied_seq = 0
    /\ handled = {} /\ repeats = 0
    /\ raised = {} /\ excused = {}
    /\ deaths = 0 /\ breaks = 0

------------------------------------------------------------------------------
(* The writer. *)

\* record_event's INSERT.  A seq whose row was lost with a crash before its
\* commit is given out again.
Insert ==
    /\ recorded + 1 \in Event
    /\ recorded' = recorded + 1
    /\ log' = Append(log, [event |-> recorded', signed |-> FALSE])
    /\ unsigned' = unsigned \cup {Len(log')}
    /\ top' = Max({top, Len(log')})
    /\ excused' = IF Len(log') <= top THEN excused \cup {recorded'} ELSE excused
    /\ UNCHANGED <<disk, trimmed, streamer, frame, ack, standby, raised, bounds>>

\* Its UPDATE.
Sign(s) ==
    /\ s \in unsigned
    /\ unsigned' = unsigned \ {s}
    /\ log' = [log EXCEPT ![s].signed = TRUE]
    /\ UNCHANGED <<disk, trimmed, recorded, top, streamer, frame, ack, standby,
                   refusals, bounds>>

\* Its commit, or that of any other thread of the node.
Commit ==
    /\ disk # log
    /\ disk' = log
    /\ UNCHANGED <<log, trimmed, unsigned, recorded, top, streamer, frame, ack,
                   standby, refusals, bounds>>

------------------------------------------------------------------------------
(* The streamer. *)

\* Defect: the streamer goes on from its own count, not the peer's.
ConnectBlind ==
    /\ phase = "down"
    /\ frame = None
    /\ phase' = "polling"
    /\ UNCHANGED <<active, batch, last_acked_seq, frame, ack, standby, refusals, bounds>>

\* hello and hello-ack.
Connect ==
    /\ phase = "down"
    /\ frame = None
    /\ phase' = "polling"
    /\ last_acked_seq' = last_applied_seq
    /\ UNCHANGED <<active, batch, frame, ack, standby, refusals, bounds>>

list_events_since(seq, limit) ==
    LET first == Max({seq, trimmed}) + 1
        last == Min({first + limit - 1, Len(log)})
    IN  [i \in 1..(last - first + 1) |->
           [seq |-> first + i - 1, event |-> log[first + i - 1].event,
            signed |-> log[first + i - 1].signed]]

Fetch ==
    /\ phase = "polling"
    /\ last_acked_seq < Len(log)
    /\ batch' = list_events_since(last_acked_seq, Batch)
    /\ phase' = "sending"
    /\ UNCHANGED <<active, last_acked_seq, frame, ack, standby, refusals, bounds>>

Send ==
    /\ phase = "sending"
    /\ frame' = Head(batch)
    /\ batch' = Tail(batch)
    /\ phase' = "waiting"
    /\ UNCHANGED <<active, last_acked_seq, ack, standby, refusals, bounds>>

\* Defect: the buffer is kept on the wrong side of the acknowledged seq.
TrimAhead(acked) ==
    LET keep_from == acked + Keep
    IN  IF keep_from > 1 /\ trimmed < keep_from - 1
        THEN trimmed' = Min({keep_from - 1, Len(log)}) /\ disk' = log
        ELSE UNCHANGED <<trimmed, disk>>

\* Deletes the rows below keep_from, and commits.
_maybe_trim(acked) ==
    LET keep_from == acked - Keep
    IN  IF keep_from > 1 /\ trimmed < keep_from - 1
        THEN trimmed' = Min({keep_from - 1, Len(log)}) /\ disk' = log
        ELSE UNCHANGED <<trimmed, disk>>

\* Any ack moves the streamer to its next event, whether it says ok or not.
ReceiveAck ==
    /\ phase = "waiting"
    /\ ack # None
    /\ last_acked_seq' = Max({last_acked_seq, ack})
    /\ ack' = None
    /\ IF batch # <<>>
       THEN phase' = "sending" /\ UNCHANGED <<trimmed, disk>>
       ELSE phase' = "polling" /\ _maybe_trim(last_acked_seq')
    /\ UNCHANGED <<log, unsigned, recorded, top, batch, frame, standby, refusals, bounds>>

------------------------------------------------------------------------------
(* The applier. *)

Answer(seq) ==
    /\ frame' = None
    /\ ack' = IF phase = "down" THEN None ELSE seq

\* apply_event's dedupe.
Duplicate(f) == f.seq <= last_applied_seq

\* Defect: an event that cannot be applied is not answered.
RefuseSilently ==
    /\ frame # None
    /\ applier = "ready"
    /\ ~frame.signed
    /\ excused' = excused \cup {frame.event}
    /\ frame' = None
    /\ UNCHANGED <<active, streamer, ack, standby, raised, bounds>>

\* An event with a bad HMAC, or one the standby has already: nothing moves.
Refuse ==
    /\ frame # None
    /\ applier = "ready"
    /\ ~frame.signed \/ Duplicate(frame)
    /\ excused' = IF frame.signed THEN excused ELSE excused \cup {frame.event}
    /\ Answer(last_applied_seq)
    /\ UNCHANGED <<active, streamer, standby, raised, bounds>>

\* The handler raises: the seq does not move either.
HandlerRaises ==
    /\ frame # None
    /\ applier = "ready"
    /\ frame.signed
    /\ ~Duplicate(frame)
    /\ frame.event \in Registered
    /\ raised' = raised \cup {frame.event}
    /\ Answer(last_applied_seq)
    /\ UNCHANGED <<active, streamer, standby, excused, bounds>>

\* A kind without a handler moves the seq all the same.
DropUnhandled ==
    /\ frame # None
    /\ applier = "ready"
    /\ frame.signed
    /\ ~Duplicate(frame)
    /\ frame.event \notin Registered
    /\ last_applied_seq' = frame.seq
    /\ Answer(frame.seq)
    /\ UNCHANGED <<active, streamer, applier, effects, refusals, bounds>>

\* Defect: the seq moves before the handler has run.
MoveFirst ==
    /\ frame # None
    /\ applier = "ready"
    /\ frame.signed
    /\ ~Duplicate(frame)
    /\ frame.event \in Registered
    /\ last_applied_seq' = frame.seq
    /\ applier' = "dispatched"
    /\ UNCHANGED <<active, streamer, frame, ack, effects, refusals, bounds>>

Dispatch ==
    /\ frame # None
    /\ applier = "ready"
    /\ frame.signed
    /\ ~Duplicate(frame)
    /\ frame.event \in Registered
    /\ handled' = handled \cup {frame.event}
    /\ repeats' = IF frame.event \in handled THEN repeats + 1 ELSE repeats
    /\ applier' = "dispatched"
    /\ UNCHANGED <<active, streamer, frame, ack, last_applied_seq, refusals, bounds>>

\* Defect: the next seq wanted is stored, not the last one applied.
MoveSeqPast ==
    /\ applier = "dispatched"
    /\ last_applied_seq' = frame.seq + 1
    /\ applier' = "ready"
    /\ Answer(frame.seq)
    /\ UNCHANGED <<active, streamer, effects, refusals, bounds>>

\* set_last_applied_seq, and the ack.
MoveSeq ==
    /\ applier = "dispatched"
    /\ last_applied_seq' = frame.seq
    /\ applier' = "ready"
    /\ Answer(frame.seq)
    /\ UNCHANGED <<active, streamer, effects, refusals, bounds>>

------------------------------------------------------------------------------
(* Failures. *)

LoseConnection ==
    /\ phase' = "down"
    /\ batch' = <<>>
    /\ ack' = None
    /\ UNCHANGED last_acked_seq

\* The socket breaks or times out; a frame already sent may still arrive.
Disconnect ==
    /\ phase # "down"
    /\ breaks < MaxBreaks
    /\ breaks' = breaks + 1
    /\ LoseConnection
    /\ frame' \in {frame} \cup (IF applier = "ready" THEN {None} ELSE {})
    /\ UNCHANGED <<active, standby, refusals, deaths>>

\* The active dies: what was not committed is gone, a row that was committed
\* without its HMAC stays so.
ActiveDies ==
    /\ breaks < MaxBreaks
    /\ breaks' = breaks + 1
    /\ LoseConnection
    /\ frame' \in {frame} \cup (IF applier = "ready" THEN {None} ELSE {})
    /\ log' = disk
    /\ unsigned' = {}
    /\ UNCHANGED <<disk, trimmed, recorded, top, standby, refusals, deaths>>

\* Defect: the seq is only kept in memory.
StandbyForgets ==
    /\ breaks < MaxBreaks
    /\ breaks' = breaks + 1
    /\ deaths' = deaths + 1
    /\ LoseConnection
    /\ frame' = None
    /\ applier' = "ready"
    /\ last_applied_seq' = 0
    /\ UNCHANGED <<active, effects, refusals>>

StandbyDies ==
    /\ breaks < MaxBreaks
    /\ breaks' = breaks + 1
    /\ deaths' = deaths + 1
    /\ LoseConnection
    /\ frame' = None
    /\ applier' = "ready"
    /\ UNCHANGED <<active, last_applied_seq, effects, refusals>>

------------------------------------------------------------------------------
Write == (\E s \in unsigned : Sign(s)) \/ Commit

Stream == Connect \/ Fetch \/ Send \/ ReceiveAck

Apply ==
    \/ Refuse
    \/ HandlerRaises
    \/ DropUnhandled
    \/ Dispatch
    \/ MoveSeq

Next ==
    \/ Insert
    \/ Write
    \/ Stream
    \/ Apply
    \/ Disconnect
    \/ ActiveDies
    \/ StandbyDies

\* The threads are scheduled, and a handler that is tried again and again
\* does not raise every time.
Fairness ==
    /\ WF_vars(Write)
    /\ WF_vars(Stream)
    /\ WF_vars(Apply)
    /\ SF_vars(Dispatch)

Spec == Init /\ [][Next]_vars /\ Fairness

------------------------------------------------------------------------------
(* What must hold. *)

\* No event is deleted before the standby has confirmed it and Keep later
\* ones, whatever acks were lost and whatever processes died (_maybe_trim).
ConfirmedBeforeTrimmed == trimmed > 0 => trimmed + Keep < last_applied_seq

\* The transport loses nothing: an event the standby has gone past was
\* handled, unless it has no handler, its handler raised once, it was refused
\* for its HMAC, or the active had died and given its seq out before.
PassedIsHandled ==
    \A s \in 1..Min({last_applied_seq, Len(log)}) :
        log[s].event \in Registered \ (raised \cup excused) => log[s].event \in handled

\* The handshake alone keeps the streamer from sending what the standby has:
\* no event arrives that apply_event's dedupe has to drop, whatever acks were
\* lost.
NothingSentTwice == frame # None => ~Duplicate(frame)

\* Every repeated run of a handler is paid for by a death of the standby
\* between the handler and last_applied_seq: lost acks, reconnects and
\* deaths of the active repeat nothing.
RepeatsNeedDeaths == repeats <= deaths

\* Rows the standby still wants that were committed without their HMAC when
\* the active died.
Orphaned(s) ==
    {r \in (last_applied_seq + 1)..Min({s, Len(disk)}) : ~disk[r].signed} \ unsigned

\* In the end the standby is past every committed and signed event, however
\* connections and processes were lost on the way, unless a whole batch of
\* rows before it is orphaned.  The streamer then reads that batch again and
\* again (list_events_since starts from the last acked seq).
CatchesUp ==
    <>[] \A s \in Event :
        (s <= Len(disk) /\ disk[s].signed)
            => (last_applied_seq >= s \/ Cardinality(Orphaned(s)) >= Batch)

\* applier.py, line 133, of an event whose handler raised: "Don't bump seq
\* - the active will retry on next connect."  So no such event is passed
\* before its handler has run to its end.
RaisedIsRetried ==
    \A s \in 1..Min({last_applied_seq, Len(log)}) :
        log[s].event \in raised => log[s].event \in handled
==============================================================================
