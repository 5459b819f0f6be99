----------------------------- MODULE ProbeChannel -----------------------------
(***************************************************************************)
(* What probe forwarding promises about numbered batches, with no spool,   *)
(* processes or network: what the probe offers is numbered without a gap,  *)
(* and the collector takes each batch once, in that order, and nothing     *)
(* that was not offered.  A batch is any record with a number, seq.  It    *)
(* abstracts integrations/probe.py; ProbeForwarding is shown to implement  *)
(* it.                                                                     *)
(***************************************************************************)
EXTENDS Integers

VARIABLES
    offered,         \* batches the probe has taken charge of
    collected        \* batches the collector has taken

channelVars == <<offered, collected>>

(* b carries the number that follows those of the batches in S. *)
IsNext(b, S) ==
    /\ \A c \in S : c.seq < b.seq
    /\ b.seq = 1 \/ \E c \in S : c.seq = b.seq - 1

ChannelInit == offered = {} /\ collected = {}

Offer(b) ==
    /\ IsNext(b, offered)
    /\ offered' = offered \cup {b}
    /\ UNCHANGED collected

Collect(b) ==
    /\ b \in offered
    /\ IsNext(b, collected)
    /\ collected' = collected \cup {b}
    /\ UNCHANGED offered

(* What is offered is the environment's choice: any batch, named here by   *)
(* the state it leads to.                                                  *)
ChannelNext ==
    \/ \E b \in offered' : Offer(b)
    \/ \E b \in offered : Collect(b)

ChannelSpec == ChannelInit /\ [][ChannelNext]_channelVars
===============================================================================
