----------------------------- MODULE FailoverLease -----------------------------
(***************************************************************************)
(* Which node of a cluster is active: the lease in Redis that              *)
(* cluster/failover.py takes, renews and releases, and the work that       *)
(* cluster/guards.py lets the active node do.                              *)
(*                                                                         *)
(* The lease loop of a node reads the owner, reads it again in             *)
(* renew_lease, and sets the key; /api/v1/cluster/transfer reads it twice  *)
(* and deletes the key.  Each Redis command is atomic, and nothing else    *)
(* is: a command of another node may come between any two.  Nodes crash    *)
(* and start again, commands fail or lose their reply, and a node may      *)
(* stall for longer than the loop is meant to take.                        *)
(*                                                                         *)
(* Time passes in Ticks.  A loop that is due begins and ends its round     *)
(* within Delay ticks, unless its node stalls.  The mode without Redis,    *)
(* where every node is active, is left out.                                *)
(***************************************************************************)
EXTENDS Integers, FiniteSets, FiniteSetsExt

CONSTANTS
    Node,
    None,           \* no node: the key does not exist
    LEASE_TTL,      \* LEASE_TTL_S in ticks
    Interval,       \* RENEW_INTERVAL_S in ticks
    Delay,          \* ticks a round of the loop may take or come late
    MaxLosses,      \* bound on the commands that fail
    MaxTransfers,   \* bound on the calls of the transfer endpoint
    MaxCrashes,     \* bound on the crashes
    MaxStalls       \* bound on the stalls

(* A lease outlives the rounds that fail: 60 s against 15 s and a 5 s      *)
(* socket timeout.                                                         *)
ASSUME LeaseAssumption ==
    /\ None \notin Node
    /\ {LEASE_TTL, Interval} \subseteq Nat \ {0}
    /\ {Delay, MaxLosses, MaxTransfers, MaxCrashes, MaxStalls} \subseteq Nat
    /\ (Interval + Delay) * (MaxLosses + 1) < LEASE_TTL

VARIABLES
    owner,       \* the value of LEASE_KEY
    ttl,         \* ticks until the key expires
    up,          \* nodes that run
    pc,          \* where a node's lease loop is
    due,         \* ticks until its next round
    handing,     \* where a node's transfer request is
    working,     \* nodes in a guarded operation
    stalled,     \* nodes that do not keep their time
    revived,     \* nodes that found their lease of before a crash, and
                 \* have not renewed it
    upset,       \* working nodes whose lease was deleted or overwritten, or
                 \* ran out before their first renewal
    robbed,      \* the first time a node overwrote another's lease
    vacant,      \* ticks for which no running node has held the lease,
                 \* since the last crash or stall
    losses, transfers, crashes, stalls

lease == <<owner, ttl>>
loop == <<pc, due>>
observers == <<upset, robbed, vacant, revived>>
bounds == <<losses, transfers, crashes, stalls>>
vars == <<lease, up, loop, handing, working, stalled, observers, bounds>>

(* Rounds that may fail before one is sure to have worked, in ticks. *)
Patience == (Interval + Delay) * (MaxLosses + 1)

TypeOK ==
    /\ owner \in Node \cup {None}
    /\ ttl \in 0..LEASE_TTL
    /\ (ttl = 0) = (owner = None)
    /\ up \subseteq Node
    /\ pc \in [Node -> {"waiting", "renewing", "setting", "taking"}]
    /\ due \in [Node -> -Delay..Interval]
    /\ handing \in [Node -> {"no", "asked", "sure"}]
    /\ working \subseteq up /\ stalled \subseteq up
    /\ upset \subseteq working /\ revived \subseteq up
    /\ robbed \in {"no", "excused", "plain"}
    /\ vacant \in Nat
    /\ losses \in 0..MaxLosses /\ transfers \in 0..MaxTransfers
    /\ crashes \in 0..MaxCrashes /\ stalls \in 0..MaxStalls

Init ==
    /\ owner = None /\ ttl = 0
    /\ up = Node
    /\ pc = [n \in Node |-> "waiting"]
    /\ due = [n \in Node |-> 0]
    /\ handing = [n \in Node |-> "no"]
    /\ working = {} /\ stalled = {} /\ upset = {} /\ revived = {}
    /\ robbed = "no"
    /\ vacant = 0
    /\ losses = 0 /\ transfers = 0 /\ crashes = 0 /\ stalls = 0

(***************************************************************************)
(* Redis.  A command that is lost raises at its caller; it was executed or *)
(* it was not.                                                             *)
(***************************************************************************)
Lose == losses < MaxLosses /\ losses' = losses + 1

(* What becomes of robbed when n sets the key: a first robber has an       *)
(* excuse if it is stalled or has not renewed since it started again.      *)
Robbery(n) ==
    IF robbed # "no" \/ owner \in {n, None} THEN robbed
    ELSE IF n \in stalled \cup revived THEN "excused" ELSE "plain"

\* Defect: the renewal leaves the expiry as it is.
SetXXKeepTTL(n) ==
    /\ owner' = IF owner = None THEN None ELSE n
    /\ robbed' = Robbery(n)
    /\ vacant' = IF owner' = n THEN 0 ELSE vacant
    /\ upset' = IF owner = n THEN upset ELSE upset \cup ({owner} \cap working)
    /\ UNCHANGED ttl

(* SET key n XX EX ttl: whoever holds the key. *)
SetXX(n) ==
    /\ owner' = IF owner = None THEN None ELSE n
    /\ ttl' = IF owner = None THEN 0 ELSE LEASE_TTL
    /\ robbed' = Robbery(n)
    /\ vacant' = IF owner' = n THEN 0 ELSE vacant
    /\ upset' = IF owner = n THEN upset ELSE upset \cup ({owner} \cap working)

\* Defect: XX where NX is meant.
SetNXOverwrites(n) ==
    /\ owner' = n /\ ttl' = LEASE_TTL
    /\ robbed' = Robbery(n)
    /\ vacant' = IF owner' = n THEN 0 ELSE vacant
    /\ upset' = IF owner = n THEN upset ELSE upset \cup ({owner} \cap working)

\* Defect: the expiry is given in another unit.
SetNXLonger(n) ==
    /\ owner' = IF owner = None THEN n ELSE owner
    /\ ttl' = IF owner = None THEN 3 * LEASE_TTL ELSE ttl
    /\ vacant' = IF owner' = n THEN 0 ELSE vacant
    /\ UNCHANGED <<upset, robbed>>

(* SET key n NX EX ttl: only if nobody does. *)
SetNX(n) ==
    /\ owner' = IF owner = None THEN n ELSE owner
    /\ ttl' = IF owner = None THEN LEASE_TTL ELSE ttl
    /\ vacant' = IF owner' = n THEN 0 ELSE vacant
    /\ UNCHANGED <<upset, robbed>>

\* Defect: the key is blanked, and keeps its expiry.
DelBlank ==
    /\ owner' = None
    /\ upset' = upset \cup ({owner} \cap working)
    /\ UNCHANGED <<ttl, robbed, vacant>>

(* DEL key: whoever holds it. *)
Del ==
    /\ owner' = None /\ ttl' = 0
    /\ upset' = upset \cup ({owner} \cap working)
    /\ UNCHANGED <<robbed, vacant>>

Unset == UNCHANGED <<lease, upset, robbed, vacant>>

(***************************************************************************)
(* The lease loop: renew_lease if am_i_active, else try_take_lease, then   *)
(* wait.  A GET that fails reads no owner.                                 *)
(***************************************************************************)
Goto(n, step) == pc' = [pc EXCEPT ![n] = step] /\ UNCHANGED due

Wait(n) ==
    /\ pc' = [pc EXCEPT ![n] = "waiting"]
    /\ due' = [due EXCEPT ![n] = Interval]

Elsewhere == <<up, handing, working, stalled, transfers, crashes, stalls>>

(* The loop's am_i_active. *)
Check(n) ==
    /\ n \in up /\ pc[n] = "waiting" /\ due[n] <= 0
    /\ \/ /\ Goto(n, IF owner = n THEN "renewing" ELSE "taking")
          /\ UNCHANGED losses
       \/ Lose /\ Goto(n, "taking")
    /\ Unset
    /\ UNCHANGED <<Elsewhere, revived>>

(* renew_lease's am_i_active. *)
Verify(n) ==
    /\ n \in up /\ pc[n] = "renewing"
    /\ \/ owner = n /\ Goto(n, "setting") /\ UNCHANGED losses
       \/ owner # n /\ Wait(n) /\ UNCHANGED losses
       \/ Lose /\ Wait(n)
    /\ Unset
    /\ UNCHANGED <<Elsewhere, revived>>

renew_lease(n) ==
    /\ n \in up /\ pc[n] = "setting"
    /\ \/ SetXX(n) /\ revived' = revived \ {n} /\ UNCHANGED losses
       \/ Lose /\ (SetXX(n) \/ Unset) /\ UNCHANGED revived
    /\ Wait(n)
    /\ UNCHANGED Elsewhere

try_take_lease(n) ==
    /\ n \in up /\ pc[n] = "taking"
    /\ \/ SetNX(n) /\ UNCHANGED losses
       \/ Lose /\ (SetNX(n) \/ Unset)
    /\ Wait(n)
    /\ UNCHANGED <<Elsewhere, revived>>

(***************************************************************************)
(* The transfer endpoint: am_i_active, then release_lease, which reads the *)
(* owner again and deletes the key.  One request at a time on a node.      *)
(***************************************************************************)
Aside == <<up, loop, working, stalled, revived, crashes, stalls>>

Transfer(n) ==
    /\ n \in up /\ handing[n] = "no" /\ owner = n
    /\ transfers < MaxTransfers /\ transfers' = transfers + 1
    /\ handing' = [handing EXCEPT ![n] = "asked"]
    /\ Unset
    /\ UNCHANGED <<Aside, losses>>

VerifyTransfer(n) ==
    /\ n \in up /\ handing[n] = "asked"
    /\ \/ /\ handing' = [handing EXCEPT ![n] = IF owner = n THEN "sure" ELSE "no"]
          /\ UNCHANGED losses
       \/ Lose /\ handing' = [handing EXCEPT ![n] = "no"]
    /\ Unset
    /\ UNCHANGED <<Aside, transfers>>

release_lease(n) ==
    /\ n \in up /\ handing[n] = "sure"
    /\ \/ Del /\ UNCHANGED losses
       \/ Lose /\ (Del \/ Unset)
    /\ handing' = [handing EXCEPT ![n] = "no"]
    /\ UNCHANGED <<Aside, transfers>>

(***************************************************************************)
(* Guarded operations: is_standby is asked once, before the work.          *)
(***************************************************************************)
\* Defect: a node that was active when it last looked does not look again.
WorkUnasked(n) ==
    /\ n \in up /\ n \notin working
    /\ owner = n \/ pc[n] # "taking"
    /\ working' = working \cup {n}
    /\ UNCHANGED <<lease, up, loop, handing, stalled, observers, bounds>>

Work(n) ==
    /\ n \in up /\ n \notin working
    /\ owner = n
    /\ working' = working \cup {n}
    /\ UNCHANGED <<lease, up, loop, handing, stalled, observers, bounds>>

EndWork(n) ==
    /\ n \in working
    /\ working' = working \ {n}
    /\ upset' = upset \ {n}
    /\ UNCHANGED <<lease, up, loop, handing, stalled, robbed, vacant, revived, bounds>>

(***************************************************************************)
(* Faults and time.                                                        *)
(***************************************************************************)
Crash(n) ==
    /\ n \in up
    /\ crashes < MaxCrashes /\ crashes' = crashes + 1
    /\ up' = up \ {n}
    /\ working' = working \ {n} /\ upset' = upset \ {n} /\ stalled' = stalled \ {n}
    /\ revived' = revived \ {n}
    /\ pc' = [pc EXCEPT ![n] = "waiting"]
    /\ due' = [due EXCEPT ![n] = 0]
    /\ handing' = [handing EXCEPT ![n] = "no"]
    /\ vacant' = 0
    /\ UNCHANGED <<lease, robbed, losses, transfers, stalls>>

Restart(n) ==
    /\ n \notin up
    /\ up' = up \cup {n}
    /\ revived' = IF owner = n THEN revived \cup {n} ELSE revived
    /\ vacant' = IF owner = n THEN 0 ELSE vacant
    /\ UNCHANGED <<lease, loop, handing, working, stalled, upset, robbed, bounds>>

Stall(n) ==
    /\ n \in up \ stalled
    /\ stalls < MaxStalls /\ stalls' = stalls + 1
    /\ stalled' = stalled \cup {n}
    /\ vacant' = 0
    /\ UNCHANGED <<lease, up, loop, handing, working, upset, robbed, revived>>
    /\ UNCHANGED <<losses, transfers, crashes>>

OnTime == up \ stalled

Tick ==
    /\ \A n \in OnTime : due[n] > -Delay
    /\ ttl' = Max({ttl - 1, 0})
    /\ owner' = IF ttl <= 1 THEN None ELSE owner
    /\ due' = [n \in Node |-> IF n \in up THEN Max({due[n] - 1, -Delay}) ELSE due[n]]
    /\ vacant' = IF owner \in up \/ OnTime = {} THEN 0 ELSE vacant + 1
    /\ upset' = IF ttl = 1 THEN upset \cup ({owner} \cap working \cap revived) ELSE upset
    /\ UNCHANGED <<up, pc, handing, working, stalled, revived, robbed, bounds>>

Next ==
    \/ \E n \in Node :
          \/ Check(n) \/ Verify(n) \/ renew_lease(n) \/ try_take_lease(n)
          \/ Transfer(n) \/ VerifyTransfer(n) \/ release_lease(n)
          \/ Work(n) \/ EndWork(n)
          \/ Crash(n) \/ Restart(n) \/ Stall(n)
    \/ Tick

Spec == Init /\ [][Next]_vars

-------------------------------------------------------------------------------
(* Two nodes are in a guarded operation at once only if one of them        *)
(* stalled, or had its lease deleted or overwritten while it worked: with  *)
(* nodes that keep their time no crash, lost command or takeover does it,  *)
(* however long the work takes.                                            *)
OneWorks ==
    \A m, n \in working : m = n \/ {m, n} \cap (upset \cup stalled) # {}

(* renew_lease reads and then sets whoever holds the key.  The first node  *)
(* to overwrite another one's lease has stalled, or started again on the   *)
(* lease of its former life, or a transfer was asked for: lost commands    *)
(* and crashes alone do not lead there.                                    *)
RenewalKeepsToItself == robbed = "plain" => transfers > 0

(* A node that runs and keeps its time does not see its lease expire,      *)
(* though MaxLosses of its commands fail.                                  *)
LeaseOutlivesOutage ==
    [][Tick /\ owner \in OnTime \ revived => owner' = owner]_vars

(* After a crash, a stall, a release or an expiry the lease is with a      *)
(* running node again within a time to live and the rounds that may fail,  *)
(* as long as some node runs and keeps its time.                           *)
TakeoverInTime == vacant <= LEASE_TTL + Patience
===============================================================================
