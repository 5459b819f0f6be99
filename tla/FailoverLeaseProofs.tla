-------------------------- MODULE FailoverLeaseProofs --------------------------
(***************************************************************************)
(* Theorems about FailoverLease, for every number of nodes and every time  *)
(* to live, interval, delay and number of faults that LeaseAssumption      *)
(* admits: the types; that a lease outlives the commands that fail; that   *)
(* no two nodes work at once without a stall or a lease taken from under   *)
(* the work; that a renewal overwrites nobody before a transfer; and that  *)
(* a dead node's lease is taken over in time.                              *)
(***************************************************************************)
EXTENDS FailoverLease, TLAPS

Round == Interval + Delay

\* Each round that may still fail, and the one under way, are paid for by
\* the time the lease has left: a node on time renews before it runs out.  A
\* round whose first read failed has used up a failure, but not yet its time.
InTime ==
    \A n \in up \ (stalled \cup revived) : owner = n =>
        ttl > due[n] + Delay + Round * (MaxLosses - losses)
              + (IF pc[n] = "taking" THEN Round ELSE 0)

\* A node in a guarded operation holds the lease, or else is excused.
WorkersHold == \A n \in working \ (upset \cup stalled) : owner = n

\* Without a transfer, a node about to renew holds the lease, or a lease was
\* overwritten before.
SettersHold ==
    /\ \A n \in Node : handing[n] # "no" => transfers > 0
    /\ \A n \in Node \ up : pc[n] = "waiting"
    /\ transfers = 0 /\ robbed = "no" =>
          \A n \in up \ (stalled \cup revived) : pc[n] = "setting" => owner = n
    /\ RenewalKeepsToItself

LeaseInv == TypeOK /\ InTime /\ WorkersHold /\ SettersHold

-------------------------------------------------------------------------------
(* Arithmetic. *)

LEMMA MaxPair ==
    ASSUME NEW a \in Int, NEW b \in Int
    PROVE  Max({a, b}) \in {a, b} /\ Max({a, b}) >= a /\ Max({a, b}) >= b
BY DEF Max

LEMMA Constants ==
    /\ None \notin Node
    /\ LEASE_TTL \in Nat \ {0} /\ Interval \in Nat \ {0}
    /\ Delay \in Nat /\ MaxLosses \in Nat
    /\ MaxTransfers \in Nat /\ MaxCrashes \in Nat /\ MaxStalls \in Nat
    /\ Round \in Nat \ {0} /\ Round * (MaxLosses + 1) < LEASE_TTL
BY LeaseAssumption DEF Round

LEMMA RoundTimes ==
    ASSUME NEW k \in Int
    PROVE  Round * k \in Int /\ Round * (k + 1) = Round * k + Round
<1>1. Round \in Int
  BY Constants
<1> HIDE DEF Round
<1> QED
  BY <1>1

LEMMA RoundGrows ==
    ASSUME NEW k \in Nat, NEW m \in Nat, k <= m
    PROVE  Round * k <= Round * m
<1>1. Round \in Nat
  BY Constants
<1>2. PICK d \in Nat : m = k + d
  <2>1. m - k \in Nat /\ m = k + (m - k)
    OBVIOUS
  <2> QED
    BY <2>1
<1>3. Round * m = Round * k + Round * d /\ Round * d \in Nat /\ Round * k \in Nat
  BY <1>1, <1>2
<1> QED
  BY <1>3

\* A full time to live pays for all the rounds that may still fail.
LEMMA FullLease ==
    ASSUME NEW l \in 0..MaxLosses
    PROVE  LEASE_TTL > Interval + Delay + Round * (MaxLosses - l)
<1>1. MaxLosses - l \in Nat /\ MaxLosses - l <= MaxLosses /\ MaxLosses \in Nat
  BY Constants
<1>2. Round * (MaxLosses - l) <= Round * MaxLosses
  BY <1>1, RoundGrows
<1>3. Round * (MaxLosses + 1) = Round * MaxLosses + Round /\ Round * MaxLosses \in Int
  BY <1>1, RoundTimes
<1>4. Round * (MaxLosses - l) \in Int
  BY <1>1, RoundTimes
<1>5. Round = Interval + Delay /\ Interval \in Int /\ Delay \in Int /\ LEASE_TTL \in Int
      /\ Round * (MaxLosses + 1) < LEASE_TTL
  BY Constants DEF Round
<1> DEFINE x == Round * (MaxLosses - l)
           y == Round * MaxLosses
<1>6. x <= y /\ x \in Int /\ y \in Int /\ y + Round < LEASE_TTL
  BY <1>2, <1>3, <1>4, <1>5
<1> HIDE DEF x, y
<1>7. LEASE_TTL > Interval + Delay + x
  BY <1>5, <1>6
<1> QED
  BY <1>7 DEF x

\* Losing a command gives back the time of a round.
LEMMA LossPays ==
    ASSUME TypeOK, Lose
    PROVE  /\ losses' \in 0..MaxLosses
           /\ Round * (MaxLosses - losses) = Round * (MaxLosses - losses') + Round
           /\ Round * (MaxLosses - losses') \in Nat
<1>1. losses' \in 0..MaxLosses /\ losses' = losses + 1 /\ losses \in Nat
  BY Constants DEF TypeOK, Lose
<1>2. MaxLosses - losses' \in Nat /\ MaxLosses - losses = (MaxLosses - losses') + 1
  BY <1>1, Constants
<1>3. Round * (MaxLosses - losses') \in Nat
  <2>1. Round \in Nat
    BY Constants
  <2> HIDE DEF Round
  <2> QED
    BY <1>2, <2>1
<1> QED
  BY <1>1, <1>2, <1>3, RoundTimes

-------------------------------------------------------------------------------
(* Types. *)

\* Each Redis command keeps the types of the lease and of what observes it.
LEMMA CommandTypes ==
    ASSUME TypeOK, NEW n \in up, SetXX(n) \/ SetNX(n) \/ Del \/ Unset
    PROVE  /\ owner' \in Node \cup {None} /\ ttl' \in 0..LEASE_TTL
           /\ (ttl' = 0) = (owner' = None)
           /\ upset' \subseteq working /\ robbed' \in {"no", "excused", "plain"}
           /\ vacant' \in Nat
<1>1. n \in Node /\ None \notin Node /\ LEASE_TTL \in Nat \ {0}
  BY Constants DEF TypeOK
<1>2. CASE SetXX(n)
  <2>1. /\ owner' = IF owner = None THEN None ELSE n
        /\ ttl' = IF owner = None THEN 0 ELSE LEASE_TTL
        /\ vacant' = IF owner' = n THEN 0 ELSE vacant
    BY <1>2 DEF SetXX
  <2>2. upset' \subseteq working /\ robbed' \in {"no", "excused", "plain"}
    BY <1>2 DEF SetXX, Robbery, TypeOK
  <2> QED
    BY <1>1, <2>1, <2>2 DEF TypeOK
<1>3. CASE SetNX(n)
  BY <1>1, <1>3 DEF SetNX, TypeOK
<1>4. CASE Del
  BY <1>1, <1>4 DEF Del, TypeOK
<1>5. CASE Unset
  BY <1>5 DEF Unset, lease, TypeOK
<1> QED
  BY <1>2, <1>3, <1>4, <1>5

LEMMA LoseTypes ==
    ASSUME TypeOK, Lose \/ UNCHANGED losses
    PROVE  losses' \in 0..MaxLosses
BY Constants DEF TypeOK, Lose

LEMMA LoopTypes ==
    ASSUME TypeOK, NEW n \in Node,
           Wait(n) \/ \E step \in {"renewing", "setting", "taking"} : Goto(n, step)
    PROVE  /\ pc' \in [Node -> {"waiting", "renewing", "setting", "taking"}]
           /\ due' \in [Node -> -Delay..Interval]
<1>1. Interval \in -Delay..Interval
  BY Constants
<1> QED
  BY <1>1 DEF TypeOK, Wait, Goto

\* The steps of the lease loop and of a transfer.
LEMMA NodeTypes ==
    ASSUME TypeOK, NEW n \in Node,
           \/ Check(n) \/ Verify(n) \/ renew_lease(n) \/ try_take_lease(n)
           \/ Transfer(n) \/ VerifyTransfer(n) \/ release_lease(n)
    PROVE  TypeOK'
<1>1. CASE Check(n) \/ Verify(n) \/ renew_lease(n) \/ try_take_lease(n)
  <2>1. /\ n \in up /\ UNCHANGED Elsewhere /\ revived' \subseteq revived
        /\ Lose \/ UNCHANGED losses
        /\ SetXX(n) \/ SetNX(n) \/ Unset
    BY <1>1 DEF Check, Verify, renew_lease, try_take_lease
  <2>2. Wait(n) \/ \E step \in {"renewing", "setting", "taking"} : Goto(n, step)
    BY <1>1 DEF Check, Verify, renew_lease, try_take_lease
  <2> QED
    BY <2>1, <2>2, CommandTypes, LoseTypes, LoopTypes DEF TypeOK, Elsewhere
<1>2. CASE Transfer(n) \/ VerifyTransfer(n) \/ release_lease(n)
  <2>1. /\ n \in up /\ UNCHANGED Aside
        /\ Lose \/ UNCHANGED losses
        /\ Del \/ Unset
    BY <1>2 DEF Transfer, VerifyTransfer, release_lease
  <2>2. handing' \in [Node -> {"no", "asked", "sure"}]
    BY <1>2 DEF Transfer, VerifyTransfer, release_lease, TypeOK
  <2>3. transfers' \in 0..MaxTransfers
    BY <1>2, Constants DEF Transfer, VerifyTransfer, release_lease, TypeOK
  <2> QED
    BY <2>1, <2>2, <2>3, CommandTypes, LoseTypes DEF TypeOK, Aside, loop
<1> QED
  BY <1>1, <1>2

\* Work, faults and time.
LEMMA WorldTypes ==
    ASSUME TypeOK,
           \/ Tick
           \/ \E n \in Node : Work(n) \/ EndWork(n) \/ Crash(n) \/ Restart(n) \/ Stall(n)
    PROVE  TypeOK'
<1>1. ASSUME NEW n \in Node, Work(n) \/ EndWork(n)
      PROVE  TypeOK'
  BY <1>1 DEF Work, EndWork, TypeOK, lease, loop, observers, bounds
<1>2. ASSUME NEW n \in Node, Crash(n)
      PROVE  TypeOK'
  <2>1. 0 \in -Delay..Interval /\ crashes' \in 0..MaxCrashes
    BY <1>2, Constants DEF Crash, TypeOK
  <2> QED
    BY <1>2, <2>1 DEF Crash, TypeOK, lease
<1>3. ASSUME NEW n \in Node, Restart(n)
      PROVE  TypeOK'
  BY <1>3 DEF Restart, TypeOK, lease, loop, bounds
<1>4. ASSUME NEW n \in Node, Stall(n)
      PROVE  TypeOK'
  <2>1. stalls' \in 0..MaxStalls
    BY <1>4, Constants DEF Stall, TypeOK
  <2> QED
    BY <1>4, <2>1 DEF Stall, TypeOK, lease, loop, observers
<1>5. CASE Tick
  <2>1. ttl \in Nat /\ ttl - 1 \in Int /\ 0 \in Int /\ ttl <= LEASE_TTL /\ LEASE_TTL \in Nat
    BY Constants DEF TypeOK
  <2>2. ttl' = Max({ttl - 1, 0}) /\ owner' = IF ttl <= 1 THEN None ELSE owner
    BY <1>5 DEF Tick
  <2>3. ttl' \in {ttl - 1, 0} /\ ttl' >= ttl - 1 /\ ttl' >= 0
    BY <2>1, <2>2, MaxPair
  <2>4. ttl' \in 0..LEASE_TTL /\ (ttl' = 0) = (ttl <= 1)
    BY <2>1, <2>3
  <2>5. owner' \in Node \cup {None} /\ (ttl' = 0) = (owner' = None)
    BY <2>1, <2>2, <2>4 DEF TypeOK
  <2>6. due' \in [Node -> -Delay..Interval]
    <3>1. ASSUME NEW n \in Node
          PROVE  Max({due[n] - 1, -Delay}) \in -Delay..Interval
      <4>1. due[n] \in -Delay..Interval /\ Delay \in Nat /\ Interval \in Nat
        BY Constants DEF TypeOK
      <4>2. due[n] - 1 \in Int /\ -Delay \in Int
        BY <4>1
      <4>3. /\ Max({due[n] - 1, -Delay}) \in {due[n] - 1, -Delay}
            /\ Max({due[n] - 1, -Delay}) >= -Delay
        BY <4>2, MaxPair
      <4> QED
        BY <4>1, <4>3
    <3>2. due' = [n \in Node |-> IF n \in up THEN Max({due[n] - 1, -Delay}) ELSE due[n]]
      BY <1>5 DEF Tick
    <3> QED
      BY <3>1, <3>2 DEF TypeOK
  <2>7. vacant' \in Nat /\ upset' \subseteq working
    BY <1>5 DEF Tick, TypeOK
  <2> QED
    BY <1>5, <2>4, <2>5, <2>6, <2>7 DEF Tick, TypeOK, bounds
<1> QED
  BY <1>1, <1>2, <1>3, <1>4, <1>5

LEMMA NextTypes ==
    ASSUME TypeOK, [Next]_vars
    PROVE  TypeOK'
<1>1. CASE UNCHANGED vars
  BY <1>1 DEF vars, lease, loop, observers, bounds, TypeOK
<1>2. CASE Next
  BY <1>2, NodeTypes, WorldTypes DEF Next
<1> QED
  BY <1>1, <1>2

\* Every variable keeps its type; the lease has time left while it is held.
THEOREM TypesKept == Spec => []TypeOK
<1>1. Init => TypeOK
  <2>1. 0 \in -Delay..Interval /\ 0 \in 0..LEASE_TTL /\ 0 \in 0..MaxLosses
        /\ 0 \in 0..MaxTransfers /\ 0 \in 0..MaxCrashes /\ 0 \in 0..MaxStalls
    BY Constants
  <2> QED
    BY <2>1 DEF Init, TypeOK
<1>2. TypeOK /\ [Next]_vars => TypeOK'
  BY NextTypes
<1> QED
  BY <1>1, <1>2, PTL DEF Spec

-------------------------------------------------------------------------------
(* The time a lease has left. *)

\* A node whose lease, time and round are as they were stays in time: the
\* failures left are no more.
LEMMA OthersInTime ==
    ASSUME TypeOK, TypeOK', InTime, Lose \/ UNCHANGED losses, NEW m \in Node,
           m \in up \ (stalled \cup revived), owner = m, ttl' = ttl,
           due'[m] = due[m], pc'[m] = pc[m]
    PROVE  ttl' > due'[m] + Delay + Round * (MaxLosses - losses')
                  + (IF pc'[m] = "taking" THEN Round ELSE 0)
<1> DEFINE x == Round * (MaxLosses - losses)
           y == Round * (MaxLosses - losses')
           z == IF pc[m] = "taking" THEN Round ELSE 0
<1>1. x \in Int /\ y \in Int /\ y <= x
  <2>1. CASE Lose
    BY <2>1, LossPays, Constants
  <2>2. CASE UNCHANGED losses
    <3>1. MaxLosses - losses \in Int
      BY Constants DEF TypeOK
    <3> QED
      BY <2>2, <3>1, RoundTimes
  <2> QED
    BY <2>1, <2>2
<1>2. ttl > due[m] + Delay + x + z
  BY DEF InTime
<1>3. ttl \in Int /\ due[m] \in Int /\ Delay \in Int /\ z \in Int
  BY Constants DEF TypeOK
<1> HIDE DEF x, y, z
<1>4. ttl > due[m] + Delay + y + z
  BY <1>1, <1>2, <1>3
<1> QED
  BY <1>4 DEF y, z

\* A round ends: its node has renewed or taken the lease, or a failure or the
\* read that failed before it accounts for the time that passed.
LEMMA RoundEnds ==
    ASSUME TypeOK, TypeOK', InTime, Lose \/ UNCHANGED losses, NEW n \in Node, Wait(n),
           UNCHANGED <<up, stalled>>,
           \A m \in Node \ {n} : owner' = m => owner = m /\ ttl' = ttl /\ (m \in revived <=> m \in revived'),
           owner' = n /\ n \in up \ (stalled \cup revived') =>
               \/ ttl' = LEASE_TTL
               \/ /\ owner = n /\ n \notin revived /\ ttl' = ttl
                  /\ Lose \/ pc[n] = "taking"
    PROVE  InTime'
<1> SUFFICES ASSUME NEW m \in up \ (stalled \cup revived'), owner' = m
             PROVE  ttl' > due'[m] + Delay + Round * (MaxLosses - losses')
                           + (IF pc'[m] = "taking" THEN Round ELSE 0)
  BY DEF InTime
<1>0. m \in Node
  BY DEF TypeOK
<1>1. CASE m # n
  <2>1. due'[m] = due[m] /\ pc'[m] = pc[m]
    BY <1>0, <1>1 DEF Wait, TypeOK
  <2> QED
    BY <1>0, <1>1, <2>1, OthersInTime
<1>2. CASE m = n
  <2>1. due'[n] = Interval /\ pc'[n] = "waiting"
    BY DEF Wait, TypeOK
  <2> DEFINE x == Round * (MaxLosses - losses)
             y == Round * (MaxLosses - losses')
  <2>2. losses' \in 0..MaxLosses
    BY LoseTypes
  <2>3. CASE ttl' = LEASE_TTL
    <3>1. LEASE_TTL > Interval + Delay + y
      BY <2>2, FullLease
    <3>2. y \in Int /\ Interval \in Int /\ Delay \in Int
      BY <2>2, Constants, RoundTimes
    <3> HIDE DEF y
    <3>3. ttl' > due'[n] + Delay + y + 0
      BY <2>1, <2>3, <3>1, <3>2
    <3> QED
      BY <1>2, <2>1, <3>3 DEF y
  <2>4. CASE ttl' # LEASE_TTL
    <3>1. owner = n /\ n \notin revived /\ ttl' = ttl /\ (Lose \/ pc[n] = "taking")
      BY <1>2, <2>4
    <3>2. ttl > due[n] + Delay + x + (IF pc[n] = "taking" THEN Round ELSE 0)
      BY <1>2, <3>1 DEF InTime
    <3>3. /\ ttl \in Int /\ due[n] \in Int /\ Delay \in Int /\ Interval \in Int
          /\ due[n] >= -Delay /\ Round = Interval + Delay /\ Round >= 0
      BY Constants DEF TypeOK, Round
    <3>4. /\ x \in Int /\ y \in Int
          /\ (Lose /\ x = y + Round) \/ x = y
      <4>1. CASE Lose
        BY <4>1, LossPays, Constants
      <4>2. CASE UNCHANGED losses
        <5>1. MaxLosses - losses \in Int
          BY Constants DEF TypeOK
        <5> QED
          BY <4>2, <5>1, RoundTimes
      <4> QED
        BY <4>1, <4>2
    <3> HIDE DEF x, y
    <3>5. (IF pc[n] = "taking" THEN Round ELSE 0) \in {Round, 0}
          /\ (pc[n] = "taking" => (IF pc[n] = "taking" THEN Round ELSE 0) = Round)
      OBVIOUS
    <3> DEFINE z == IF pc[n] = "taking" THEN Round ELSE 0
    <3>6. z \in {Round, 0} /\ (pc[n] = "taking" => z = Round) /\ ttl > due[n] + Delay + x + z
      BY <3>2, <3>5
    <3> HIDE DEF z
    <3>7. x + z >= y + Round
      <4>1. CASE x = y + Round
        BY <3>3, <3>4, <3>6, <4>1
      <4>2. CASE x = y /\ z = Round
        BY <3>3, <3>4, <4>2
      <4>3. x = y + Round \/ (x = y /\ z = Round)
        <5>1. Lose => x = y + Round
          <6>1. Lose => Round * (MaxLosses - losses) = Round * (MaxLosses - losses') + Round
            BY LossPays
          <6> QED
            BY <6>1 DEF x, y
        <5>2. ~ Lose => x = y /\ z = Round
          BY <3>1, <3>4, <3>6
        <5> QED
          BY <5>1, <5>2
      <4> QED
        BY <4>1, <4>2, <4>3
    <3>8. ttl' > due'[n] + Delay + y + 0
      BY <2>1, <3>1, <3>3, <3>4, <3>6, <3>7
    <3> QED
      BY <1>2, <2>1, <3>8 DEF y
  <2> QED
    BY <2>3, <2>4
<1> QED
  BY <1>1, <1>2

\* The steps of a lease loop keep the nodes in time.
LEMMA LoopInTime ==
    ASSUME TypeOK, TypeOK', InTime, NEW n \in Node,
           Check(n) \/ Verify(n) \/ renew_lease(n) \/ try_take_lease(n)
    PROVE  InTime'
<1>0. n # None /\ \A m \in Node : m # None
  BY Constants
<1>1. CASE Check(n)
  <2>1. /\ UNCHANGED <<lease, up, stalled, revived, due>> /\ pc[n] = "waiting"
        /\ Lose \/ UNCHANGED losses
        /\ pc' = [pc EXCEPT ![n] = pc'[n]]
        /\ pc'[n] \in {"renewing", "taking"}
        /\ owner = n /\ pc'[n] = "taking" => Lose
    BY <1>1 DEF Check, Goto, Unset, Elsewhere, TypeOK
  <2> SUFFICES ASSUME NEW m \in up \ (stalled \cup revived), owner = m
               PROVE  ttl > due[m] + Delay + Round * (MaxLosses - losses')
                            + (IF pc'[m] = "taking" THEN Round ELSE 0)
    BY <2>1 DEF InTime, lease
  <2>2. m \in Node
    BY DEF TypeOK
  <2>3. CASE pc'[m] = pc[m]
    BY <2>1, <2>2, <2>3, OthersInTime DEF lease
  <2>4. CASE pc'[m] # pc[m]
    <3>1. m = n
      BY <2>1, <2>2, <2>4 DEF TypeOK
    <3>2. CASE pc'[n] = "taking"
      <4>1. ttl > due[m] + Delay + Round * (MaxLosses - losses) + 0
        BY <2>1, <3>1 DEF InTime
      <4>2. /\ Round * (MaxLosses - losses) = Round * (MaxLosses - losses') + Round
            /\ Round * (MaxLosses - losses') \in Int
        BY <2>1, <3>1, <3>2, LossPays
      <4>3. ttl \in Int /\ due[m] \in Int /\ Delay \in Int /\ Round \in Int
        BY <2>2, Constants DEF TypeOK
      <4> DEFINE y == Round * (MaxLosses - losses')
      <4>4. ttl > due[m] + Delay + (y + Round) + 0 /\ y \in Int
        BY <4>1, <4>2
      <4> HIDE DEF y
      <4>5. ttl > due[m] + Delay + y + Round
        BY <4>3, <4>4
      <4> QED
        BY <3>1, <3>2, <4>5 DEF y
    <3>3. CASE pc'[n] = "renewing"
      <4>1. ttl > due[m] + Delay + Round * (MaxLosses - losses) + 0
        BY <2>1, <3>1 DEF InTime
      <4> DEFINE x == Round * (MaxLosses - losses)
                 y == Round * (MaxLosses - losses')
      <4>2. x \in Int /\ y \in Int /\ y <= x
        <5>1. CASE Lose
          BY <5>1, LossPays, Constants
        <5>2. CASE UNCHANGED losses
          <6>1. MaxLosses - losses \in Int
            BY Constants DEF TypeOK
          <6> QED
            BY <5>2, <6>1, RoundTimes
        <5> QED
          BY <2>1, <5>1, <5>2
      <4>3. ttl \in Int /\ due[m] \in Int /\ Delay \in Int
        BY <2>2, Constants DEF TypeOK
      <4>4. ttl > due[m] + Delay + x + 0
        BY <4>1
      <4> HIDE DEF x, y
      <4>5. ttl > due[m] + Delay + y + 0
        BY <4>2, <4>3, <4>4
      <4> QED
        BY <3>1, <3>3, <4>5 DEF y
    <3> QED
      BY <2>1, <3>2, <3>3
  <2> QED
    BY <2>3, <2>4
<1>2. CASE Verify(n)
  <2>1. UNCHANGED <<lease, up, stalled, revived>>
    BY <1>2 DEF Verify, Unset, Elsewhere
  <2>2. CASE owner = n /\ Goto(n, "setting") /\ UNCHANGED losses
    <3>1. \A m \in up : due'[m] = due[m] /\ (pc'[m] = "taking" <=> pc[m] = "taking")
      BY <1>2, <2>2 DEF Verify, Goto, TypeOK
    <3> QED
      BY <2>1, <2>2, <3>1 DEF InTime, lease
  <2>3. CASE Wait(n) /\ ((owner # n /\ UNCHANGED losses) \/ Lose)
    BY <2>1, <2>3, RoundEnds DEF lease
  <2> QED
    BY <1>2, <2>2, <2>3 DEF Verify
<1>3. CASE renew_lease(n)
  <2>1. /\ Wait(n) /\ UNCHANGED <<up, stalled>> /\ (Lose \/ UNCHANGED losses)
        /\ \A m \in Node \ {n} : m \in revived <=> m \in revived'
    BY <1>3 DEF renew_lease, Elsewhere
  <2>2. CASE SetXX(n)
    <3>1. /\ \A m \in Node \ {n} : owner' # m
          /\ owner' = n => ttl' = LEASE_TTL
      BY <1>0, <2>2 DEF SetXX
    <3> QED
      BY <2>1, <3>1, RoundEnds
  <2>3. CASE Lose /\ Unset /\ UNCHANGED revived
    BY <2>1, <2>3, RoundEnds DEF Unset, lease
  <2> QED
    BY <1>3, <2>2, <2>3 DEF renew_lease
<1>4. CASE try_take_lease(n)
  <2>1. /\ Wait(n) /\ UNCHANGED <<up, stalled, revived>> /\ (Lose \/ UNCHANGED losses)
        /\ pc[n] = "taking"
    BY <1>4 DEF try_take_lease, Elsewhere
  <2>2. CASE SetNX(n)
    <3>1. /\ \A m \in Node \ {n} : owner' = m => owner = m /\ ttl' = ttl
          /\ owner' = n => ttl' = LEASE_TTL \/ (owner = n /\ ttl' = ttl)
      BY <1>0, <2>2 DEF SetNX
    <3> QED
      BY <2>1, <3>1, RoundEnds
  <2>3. CASE Unset
    BY <2>1, <2>3, RoundEnds DEF Unset, lease
  <2> QED
    BY <1>4, <2>2, <2>3 DEF try_take_lease
<1> QED
  BY <1>1, <1>2, <1>3, <1>4

\* A tick leaves a lease in time with time.
LEMMA TickInTime ==
    ASSUME TypeOK, InTime, Tick, NEW m \in up \ (stalled \cup revived), owner = m
    PROVE  /\ ttl > 1 /\ owner' = owner
           /\ ttl' > due'[m] + Delay + Round * (MaxLosses - losses')
                     + (IF pc'[m] = "taking" THEN Round ELSE 0)
<1> DEFINE x == Round * (MaxLosses - losses)
           z == IF pc[m] = "taking" THEN Round ELSE 0
<1>1. m \in Node /\ due[m] > -Delay /\ ttl > due[m] + Delay + x + z
  BY DEF Tick, OnTime, InTime, TypeOK
<1>2. x \in Int /\ x >= 0 /\ z \in Int /\ z >= 0
  <2>1. MaxLosses - losses \in Nat
    BY Constants DEF TypeOK
  <2>2. Round * 0 <= Round * (MaxLosses - losses) /\ Round * 0 = 0
    <3>1. Round \in Int
      BY Constants
    <3>2. Round * 0 = 0
      BY <3>1
    <3> QED
      BY <2>1, <3>2, RoundGrows
  <2>3. x \in Int
    BY <2>1, RoundTimes
  <2> QED
    BY <2>2, <2>3, Constants
<1>3. ttl \in Int /\ due[m] \in Int /\ Delay \in Int /\ -Delay \in Int
  BY <1>1, Constants DEF TypeOK
<1>4. /\ ttl' = Max({ttl - 1, 0}) /\ owner' = IF ttl <= 1 THEN None ELSE owner
      /\ due'[m] = Max({due[m] - 1, -Delay}) /\ UNCHANGED <<pc, losses>>
  BY <1>1 DEF Tick, bounds
<1> HIDE DEF x, z
<1>5. ttl > 1
  BY <1>1, <1>2, <1>3
<1>6. ttl' = ttl - 1
  <2>1. ttl - 1 \in Int /\ 0 \in Int
    BY <1>3
  <2>2. ttl' \in {ttl - 1, 0} /\ ttl' >= ttl - 1
    BY <1>4, <2>1, MaxPair
  <2> QED
    BY <1>3, <1>5, <2>2
<1>7. due'[m] = due[m] - 1
  <2>1. due[m] - 1 \in Int
    BY <1>3
  <2>2. due'[m] \in {due[m] - 1, -Delay} /\ due'[m] >= due[m] - 1
    BY <1>3, <1>4, <2>1, MaxPair
  <2> QED
    BY <1>1, <1>3, <2>2
<1>8. ttl' > due'[m] + Delay + x + z
  BY <1>1, <1>2, <1>3, <1>6, <1>7
<1>9. losses' = losses /\ pc' = pc
  BY <1>4
<1>10. ttl' > due'[m] + Delay + Round * (MaxLosses - losses')
              + (IF pc'[m] = "taking" THEN Round ELSE 0)
  BY <1>8, <1>9 DEF x, z
<1> QED
  BY <1>3, <1>4, <1>5, <1>10

LEMMA NextInTime ==
    ASSUME TypeOK, TypeOK', InTime, [Next]_vars
    PROVE  InTime'
<1>1. ASSUME NEW n \in Node, Check(n) \/ Verify(n) \/ renew_lease(n) \/ try_take_lease(n)
      PROVE  InTime'
  BY <1>1, LoopInTime
<1>2. ASSUME NEW n \in Node, Transfer(n) \/ VerifyTransfer(n) \/ release_lease(n)
      PROVE  InTime'
  <2>1. /\ UNCHANGED <<up, pc, due, stalled, revived>> /\ (Lose \/ UNCHANGED losses)
        /\ Del \/ Unset
    BY <1>2 DEF Transfer, VerifyTransfer, release_lease, Aside, loop
  <2>2. CASE Del
    <3>1. owner' = None /\ \A m \in up : m # None
      BY <2>2, Constants DEF Del, TypeOK
    <3> QED
      BY <2>1, <3>1 DEF InTime
  <2>3. CASE Unset
    <3> SUFFICES ASSUME NEW m \in up \ (stalled \cup revived), owner = m
                 PROVE  ttl' > due'[m] + Delay + Round * (MaxLosses - losses')
                               + (IF pc'[m] = "taking" THEN Round ELSE 0)
      BY <2>1, <2>3 DEF InTime, Unset, lease
    <3>1. m \in Node /\ ttl' = ttl /\ due'[m] = due[m] /\ pc'[m] = pc[m]
      BY <2>1, <2>3 DEF Unset, lease, TypeOK
    <3> QED
      BY <2>1, <3>1, OthersInTime
  <2> QED
    BY <2>1, <2>2, <2>3
<1>3. ASSUME NEW n \in Node, Work(n) \/ EndWork(n)
      PROVE  InTime'
  <2>1. UNCHANGED <<lease, up, loop, stalled, revived, losses>>
    BY <1>3 DEF Work, EndWork, observers, bounds
  <2> QED
    BY <2>1 DEF InTime, lease, loop
<1>4. ASSUME NEW n \in Node, Crash(n)
      PROVE  InTime'
  <2>1. /\ UNCHANGED <<lease, losses>> /\ up' = up \ {n}
        /\ stalled' = stalled \ {n} /\ revived' = revived \ {n}
        /\ \A m \in up' : m \in up /\ due'[m] = due[m] /\ pc'[m] = pc[m]
    BY <1>4 DEF Crash, TypeOK
  <2> QED
    BY <2>1 DEF InTime, lease
<1>5. ASSUME NEW n \in Node, Restart(n)
      PROVE  InTime'
  <2>1. /\ UNCHANGED <<lease, losses, loop, stalled>> /\ up' = up \cup {n}
        /\ revived' = IF owner = n THEN revived \cup {n} ELSE revived
    BY <1>5 DEF Restart, bounds
  <2>2. \A m \in up' \ (stalled' \cup revived') : owner' = m =>
            m \in up \ (stalled \cup revived) /\ owner = m
    BY <2>1 DEF lease
  <2> QED
    BY <2>1, <2>2 DEF InTime, lease, loop
<1>6. ASSUME NEW n \in Node, Stall(n)
      PROVE  InTime'
  <2>1. UNCHANGED <<lease, losses, loop, up, revived>> /\ stalled \subseteq stalled'
    BY <1>6 DEF Stall, observers
  <2> QED
    BY <2>1 DEF InTime, lease, loop
<1>7. CASE Tick
  <2>1. UNCHANGED <<up, stalled, revived>> /\ owner' \in {owner, None}
    BY <1>7 DEF Tick
  <2>2. \A m \in up : m # None
    BY Constants DEF TypeOK
  <2> SUFFICES ASSUME NEW m \in up \ (stalled \cup revived), owner = m
               PROVE  ttl' > due'[m] + Delay + Round * (MaxLosses - losses')
                             + (IF pc'[m] = "taking" THEN Round ELSE 0)
    BY <2>1, <2>2 DEF InTime
  <2> QED
    BY <1>7, TickInTime
<1>8. CASE UNCHANGED vars
  BY <1>8 DEF vars, lease, loop, observers, bounds, InTime
<1> QED
  BY <1>1, <1>2, <1>3, <1>4, <1>5, <1>6, <1>7, <1>8 DEF Next

-------------------------------------------------------------------------------
(* Workers and setters. *)

\* A Redis command takes the lease only from a worker it marks.
LEMMA CommandWorkers ==
    ASSUME TypeOK, WorkersHold, NEW n \in up, SetXX(n) \/ SetNX(n) \/ Del \/ Unset
    PROVE  /\ upset \subseteq upset'
           /\ \A m \in working \ (upset' \cup stalled) : owner' = m
<1>1. \A m \in working : m # None
  BY Constants DEF TypeOK
<1>2. CASE SetXX(n)
  <2>1. /\ owner' = IF owner = None THEN None ELSE n
        /\ upset' = IF owner = n THEN upset ELSE upset \cup ({owner} \cap working)
    BY <1>2 DEF SetXX
  <2> QED
    BY <1>1, <2>1 DEF WorkersHold
<1>3. CASE SetNX(n)
  BY <1>1, <1>3 DEF SetNX, WorkersHold
<1>4. CASE Del
  BY <1>1, <1>4 DEF Del, WorkersHold
<1>5. CASE Unset
  BY <1>5 DEF Unset, lease, WorkersHold
<1> QED
  BY <1>2, <1>3, <1>4, <1>5

LEMMA NextWorkers ==
    ASSUME TypeOK, InTime, WorkersHold, [Next]_vars
    PROVE  WorkersHold'
<1>1. ASSUME NEW n \in Node,
             \/ Check(n) \/ Verify(n) \/ renew_lease(n) \/ try_take_lease(n)
             \/ Transfer(n) \/ VerifyTransfer(n) \/ release_lease(n)
      PROVE  WorkersHold'
  <2>1. n \in up /\ UNCHANGED <<working, stalled>>
    BY <1>1 DEF Check, Verify, renew_lease, try_take_lease, Transfer, VerifyTransfer,
                release_lease, Elsewhere, Aside
  <2>2. SetXX(n) \/ SetNX(n) \/ Del \/ Unset
    BY <1>1 DEF Check, Verify, renew_lease, try_take_lease, Transfer, VerifyTransfer,
                release_lease
  <2> QED
    BY <2>1, <2>2, CommandWorkers DEF WorkersHold
<1>2. ASSUME NEW n \in Node, Work(n) \/ EndWork(n)
      PROVE  WorkersHold'
  BY <1>2 DEF Work, EndWork, WorkersHold, lease, observers
<1>3. ASSUME NEW n \in Node, Crash(n) \/ Restart(n) \/ Stall(n)
      PROVE  WorkersHold'
  BY <1>3 DEF Crash, Restart, Stall, WorkersHold, lease, observers
<1>4. CASE Tick
  <2>1. /\ UNCHANGED <<working, stalled, revived>> /\ upset \subseteq upset'
        /\ ttl = 1 => upset' = upset \cup ({owner} \cap working \cap revived)
        /\ owner' = IF ttl <= 1 THEN None ELSE owner
    BY <1>4 DEF Tick
  <2> SUFFICES ASSUME NEW m \in working \ (upset' \cup stalled)
               PROVE  owner' = m
    BY <2>1 DEF WorkersHold
  <2>2. m \in up /\ m \in Node /\ m # None /\ owner = m
    BY <2>1, Constants DEF WorkersHold, TypeOK
  <2>3. CASE m \in revived
    <3>1. ttl # 1
      BY <2>1, <2>2, <2>3
    <3>2. ttl # 0 /\ ttl \in Nat
      BY <2>2, Constants DEF TypeOK
    <3> QED
      BY <2>1, <2>2, <3>1, <3>2
  <2>4. CASE m \notin revived
    BY <1>4, <2>2, <2>4, TickInTime
  <2> QED
    BY <2>3, <2>4
<1>5. CASE UNCHANGED vars
  BY <1>5 DEF vars, lease, observers, WorkersHold
<1> QED
  BY <1>1, <1>2, <1>3, <1>4, <1>5 DEF Next

\* Nobody sets a key another node holds on time before a transfer: a node gets
\* to renew only as the owner, and keeps the lease until it has set it.
LEMMA SettersAndRobbers ==
    ASSUME TypeOK, InTime, SettersHold, [Next]_vars
    PROVE  SettersHold'
<1>1. \A n \in Node : handing'[n] # "no" => transfers' > 0
  <2>1. ASSUME NEW n \in Node, Transfer(n)
        PROVE  transfers' > 0
    BY <2>1, Constants DEF Transfer, TypeOK
  <2>2. ASSUME NEW n \in Node, VerifyTransfer(n) \/ release_lease(n) \/ Crash(n)
        PROVE  UNCHANGED transfers /\ \A m \in Node : handing'[m] # "no" => handing[m] # "no"
    BY <2>2 DEF VerifyTransfer, release_lease, Crash, TypeOK
  <2>3. ASSUME NEW n \in Node,
               \/ Check(n) \/ Verify(n) \/ renew_lease(n) \/ try_take_lease(n)
               \/ Work(n) \/ EndWork(n) \/ Restart(n) \/ Stall(n)
        PROVE  UNCHANGED <<handing, transfers>>
    BY <2>3 DEF Check, Verify, renew_lease, try_take_lease, Elsewhere, Work, EndWork,
                Restart, Stall, bounds
  <2>4. Tick \/ UNCHANGED vars => UNCHANGED <<handing, transfers>>
    BY DEF Tick, vars, bounds
  <2> QED
    BY <2>1, <2>2, <2>3, <2>4 DEF Next, SettersHold
<1>2. \A n \in Node \ up' : pc'[n] = "waiting"
  <2>1. ASSUME NEW n \in Node,
               \/ Check(n) \/ Verify(n) \/ renew_lease(n) \/ try_take_lease(n)
        PROVE  up' = up /\ n \in up /\ \A m \in Node \ {n} : pc'[m] = pc[m]
    BY <2>1 DEF Check, Verify, renew_lease, try_take_lease, Elsewhere, Goto, Wait, TypeOK
  <2>2. ASSUME NEW n \in Node, Crash(n)
        PROVE  up' = up \ {n} /\ pc'[n] = "waiting" /\ \A m \in Node \ {n} : pc'[m] = pc[m]
    BY <2>2 DEF Crash, TypeOK
  <2>3. ASSUME NEW n \in Node,
               \/ Transfer(n) \/ VerifyTransfer(n) \/ release_lease(n)
               \/ Work(n) \/ EndWork(n) \/ Restart(n) \/ Stall(n)
        PROVE  up \subseteq up' /\ UNCHANGED pc
    BY <2>3 DEF Transfer, VerifyTransfer, release_lease, Aside, Work, EndWork,
                Restart, Stall, loop
  <2>4. Tick \/ UNCHANGED vars => UNCHANGED <<up, pc>>
    BY DEF Tick, vars, loop
  <2> QED
    BY <2>1, <2>2, <2>3, <2>4 DEF Next, SettersHold
<1> DEFINE Held == \A n \in up \ (stalled \cup revived) : pc[n] = "setting" => owner = n
<1>3. transfers' = 0 /\ robbed' = "no" => Held'
  <2> SUFFICES ASSUME transfers' = 0, robbed' = "no"
               PROVE  Held'
    OBVIOUS
  <2>1. transfers = 0 /\ robbed = "no" /\ \A n \in Node : handing[n] = "no"
    <3>1. transfers \in Nat /\ transfers' \in {transfers, transfers + 1}
      BY Constants DEF Next, vars, bounds, Check, Verify, renew_lease, try_take_lease,
         Elsewhere, Transfer, VerifyTransfer, release_lease, Work, EndWork, Crash, Restart,
         Stall, Tick, TypeOK
    <3>2. robbed # "no" => robbed' = robbed
      BY DEF Next, vars, observers, Check, Verify, renew_lease, try_take_lease, SetXX, SetNX,
         Del, Unset, Robbery, Transfer, VerifyTransfer, release_lease, Work, EndWork, Crash,
         Restart, Stall, Tick
    <3>3. transfers = 0
      BY <3>1
    <3> QED
      BY <3>2, <3>3 DEF SettersHold
  <2>2. Held
    BY <2>1 DEF SettersHold
  <2>3. up \subseteq Node /\ \A n \in up : n # None
    BY Constants DEF TypeOK
  <2>4. ASSUME NEW n \in Node, Check(n) \/ Verify(n)
        PROVE  Held'
    BY <2>2, <2>3, <2>4 DEF Check, Verify, Goto, Wait, Unset, lease, Elsewhere, TypeOK
  <2>5. ASSUME NEW n \in Node, renew_lease(n) \/ try_take_lease(n)
        PROVE  Held'
    <3>1. /\ UNCHANGED <<up, stalled>> /\ pc' = [pc EXCEPT ![n] = "waiting"]
          /\ \A m \in Node \ {n} : m \in revived <=> m \in revived'
          /\ SetXX(n) \/ SetNX(n) \/ Unset
      BY <2>5 DEF renew_lease, try_take_lease, Wait, Elsewhere
    <3>2. ASSUME NEW m \in up \ (stalled \cup revived), owner = m, m # n
          PROVE  owner' = m
      <4>1. ~ SetXX(n)
        BY <2>1, <2>3, <3>2 DEF SetXX, Robbery
      <4> QED
        BY <2>3, <3>1, <3>2, <4>1 DEF SetNX, Unset, lease
    <3>3. pc'[n] = "waiting" /\ \A m \in Node \ {n} : pc'[m] = pc[m]
      BY <3>1 DEF TypeOK
    <3> QED
      BY <2>2, <2>3, <3>1, <3>2, <3>3
  <2>6. ASSUME NEW n \in Node, Transfer(n) \/ VerifyTransfer(n) \/ release_lease(n)
        PROVE  Held'
    <3>1. Transfer(n)
      BY <2>1, <2>6 DEF VerifyTransfer, release_lease
    <3>2. transfers' = transfers + 1
      BY <3>1 DEF Transfer
    <3> QED
      BY <2>1, <3>2
  <2>7. ASSUME NEW n \in Node, Work(n) \/ EndWork(n)
        PROVE  Held'
    BY <2>2, <2>7 DEF Work, EndWork, lease, loop, observers
  <2>8. ASSUME NEW n \in Node, Crash(n)
        PROVE  Held'
    BY <2>2, <2>3, <2>8 DEF Crash, lease, TypeOK
  <2>9. ASSUME NEW n \in Node, Restart(n)
        PROVE  Held'
    <3>1. pc[n] = "waiting" /\ UNCHANGED <<lease, loop, stalled>> /\ up' = up \cup {n}
          /\ revived \subseteq revived'
      BY <2>9 DEF Restart, SettersHold
    <3> QED
      BY <2>2, <3>1 DEF lease, loop
  <2>10. ASSUME NEW n \in Node, Stall(n)
        PROVE  Held'
    BY <2>2, <2>10 DEF Stall, lease, loop, observers
  <2>11. CASE Tick
    BY <2>2, <2>11, TickInTime DEF Tick
  <2>12. CASE UNCHANGED vars
    BY <2>2, <2>12 DEF vars, lease, loop, observers
  <2> QED
    BY <2>4, <2>5, <2>6, <2>7, <2>8, <2>9, <2>10, <2>11, <2>12 DEF Next
<1>4. RenewalKeepsToItself'
  <2> SUFFICES ASSUME robbed' = "plain"
               PROVE  transfers' > 0
    BY DEF RenewalKeepsToItself
  <2>1. transfers \in Nat /\ transfers' \in {transfers, transfers + 1}
    BY Constants DEF Next, vars, bounds, Check, Verify, renew_lease, try_take_lease,
       Elsewhere, Transfer, VerifyTransfer, release_lease, Work, EndWork, Crash, Restart,
       Stall, Tick, TypeOK
  <2>2. CASE robbed = "plain"
    BY <2>1, <2>2 DEF SettersHold, RenewalKeepsToItself
  <2>3. CASE robbed # "plain"
    <3>1. PICK n \in Node : renew_lease(n) /\ SetXX(n)
      BY <2>3 DEF Next, vars, observers, Check, Verify, renew_lease, try_take_lease, SetNX,
         Del, Unset, Transfer, VerifyTransfer, release_lease, Work, EndWork, Crash, Restart,
         Stall, Tick
    <3>2. /\ robbed = "no" /\ owner # n /\ n \notin stalled \cup revived
          /\ n \in up /\ pc[n] = "setting"
      BY <2>3, <3>1 DEF SetXX, Robbery, renew_lease
    <3>3. transfers # 0
      BY <3>2 DEF SettersHold
    <3> QED
      BY <2>1, <3>3
  <2> QED
    BY <2>2, <2>3
<1> QED
  BY <1>1, <1>2, <1>3, <1>4 DEF SettersHold

-------------------------------------------------------------------------------
(* A vacancy ends in time. *)

\* What a round costs, and the rounds that may still fail.
Owed(l) == Delay + Round * (MaxLosses - l)

\* A node that will have taken a free lease by the time the property gives:
\* one about to take it has the failures left ahead of it, and one that still
\* renews has only just lost it.
Soon(n) ==
    \/ pc[n] \in {"renewing", "setting"}
    \/ vacant + due[n] + Owed(losses) <= LEASE_TTL + Patience

\* A dead node's lease runs out, and some node on time takes it soon after.
VacancyInv ==
    /\ owner \in up \/ OnTime = {} => vacant = 0
    /\ owner \notin up \cup {None} => vacant + ttl <= LEASE_TTL
    /\ \A n \in up : pc[n] # "waiting" => due[n] <= 0
    /\ owner \notin up =>
          \A n \in OnTime : pc[n] \in {"renewing", "setting"} => vacant + due[n] <= 0
    /\ owner = None /\ OnTime # {} => \E n \in OnTime : Soon(n)

LEMMA OwedBounds ==
    ASSUME NEW l \in 0..MaxLosses
    PROVE  /\ Owed(l) \in Nat /\ Patience \in Nat /\ Delay <= LEASE_TTL
           /\ Interval + Owed(l) <= Patience
<1>1. MaxLosses - l \in Nat /\ MaxLosses - l <= MaxLosses /\ MaxLosses \in Nat /\ 0 \in Nat
  BY Constants
<1>2. Round * (MaxLosses - l) <= Round * MaxLosses /\ Round * 0 <= Round * (MaxLosses - l)
  BY <1>1, RoundGrows
<1>3. Round * (MaxLosses + 1) = Round * MaxLosses + Round /\ Round * MaxLosses \in Int
  BY <1>1, RoundTimes
<1>4. Round * (MaxLosses - l) \in Int /\ Round * 0 = 0
  BY <1>1, RoundTimes, Constants
<1>5. /\ Round = Interval + Delay /\ Interval \in Nat /\ Delay \in Nat /\ LEASE_TTL \in Nat
      /\ Round * (MaxLosses + 1) < LEASE_TTL /\ Patience = Round * (MaxLosses + 1)
  BY Constants DEF Round, Patience
<1> DEFINE x == Round * (MaxLosses - l)
           y == Round * MaxLosses
           w == Round * (MaxLosses + 1)
<1>6. x <= y /\ 0 <= x /\ x \in Int /\ y \in Int /\ w = y + Round /\ w < LEASE_TTL /\ Patience = w
  BY <1>2, <1>3, <1>4, <1>5
<1>7. Owed(l) = Delay + x
  BY DEF Owed
<1> HIDE DEF x, y, w
<1> QED
  BY <1>5, <1>6, <1>7

\* A lost command pays for the round it cost.
LEMMA OwedPaid ==
    ASSUME TypeOK, Lose \/ UNCHANGED losses
    PROVE  /\ losses \in 0..MaxLosses /\ losses' \in 0..MaxLosses
           /\ Owed(losses') <= Owed(losses)
           /\ Lose => Owed(losses') + Round = Owed(losses)
<1>1. losses \in 0..MaxLosses /\ losses' \in 0..MaxLosses
  BY LoseTypes DEF TypeOK
<1>2. /\ Owed(losses) \in Nat /\ Owed(losses') \in Nat
      /\ Round \in Nat /\ Delay \in Nat
  BY <1>1, OwedBounds, Constants
<1>3. ASSUME Lose
      PROVE  Owed(losses') + Round = Owed(losses)
  <2> DEFINE x == Round * (MaxLosses - losses)
             y == Round * (MaxLosses - losses')
  <2>1. x = y + Round /\ y \in Nat
    BY <1>3, LossPays
  <2>2. Owed(losses) = Delay + x /\ Owed(losses') = Delay + y
    BY DEF Owed
  <2> HIDE DEF x, y
  <2> QED
    BY <1>2, <2>1, <2>2
<1>4. ASSUME UNCHANGED losses
      PROVE  Owed(losses') = Owed(losses)
  BY <1>4
<1> QED
  BY <1>1, <1>2, <1>3, <1>4

\* Within a time to live every round comes soon enough.
LEMMA SoonEnough ==
    ASSUME NEW v \in Nat, v <= LEASE_TTL, NEW d \in -Delay..Interval, NEW l \in 0..MaxLosses
    PROVE  v + d + Owed(l) <= LEASE_TTL + Patience
<1>1. Owed(l) \in Nat /\ Patience \in Nat /\ Interval + Owed(l) <= Patience
  BY OwedBounds
<1>2. d \in Int /\ d <= Interval /\ Interval \in Nat /\ LEASE_TTL \in Nat
  BY Constants
<1> QED
  BY <1>1, <1>2

\* A node sets the key to its own name, or the command leaves it.
LEMMA SetsOrLeaves ==
    ASSUME TypeOK, NEW n \in up, SetXX(n) \/ SetNX(n) \/ Unset
    PROVE  \/ owner' = n /\ vacant' = 0
           \/ UNCHANGED <<owner, ttl, vacant>> /\ (SetNX(n) => owner # None)
<1>1. n # None
  BY Constants DEF TypeOK
<1>2. CASE SetXX(n)
  <2>1. ~ SetNX(n) \/ owner # None \/ owner' = n
    BY DEF SetNX
  <2> QED
    BY <1>1, <1>2, <2>1 DEF SetXX, SetNX, TypeOK
<1>3. CASE SetNX(n)
  BY <1>1, <1>3 DEF SetNX, TypeOK
<1>4. CASE Unset
  <2>1. SetNX(n) /\ owner = None => owner' = n
    BY DEF SetNX
  <2> QED
    BY <1>1, <1>4, <2>1 DEF Unset, lease
<1> QED
  BY <1>2, <1>3, <1>4

\* What a step of a lease loop does, besides the command.
LEMMA LoopStep ==
    ASSUME TypeOK, NEW n \in Node,
           Check(n) \/ Verify(n) \/ renew_lease(n) \/ try_take_lease(n)
    PROVE  /\ n \in up /\ UNCHANGED <<up, stalled>> /\ OnTime' = OnTime
           /\ SetXX(n) \/ SetNX(n) \/ Unset
           /\ Lose \/ UNCHANGED losses
           /\ \A m \in Node \ {n} : pc'[m] = pc[m] /\ due'[m] = due[m]
           /\ \/ due'[n] = Interval /\ pc'[n] = "waiting" /\ pc[n] # "waiting"
              \/ due'[n] = due[n] /\ pc'[n] = "taking" /\ pc[n] = "waiting" /\ due[n] <= 0
              \/ /\ due'[n] = due[n] /\ pc'[n] \in {"renewing", "setting"}
                 /\ owner = n /\ (pc[n] # "waiting" \/ due[n] <= 0)
           /\ pc[n] = "taking" => SetNX(n) \/ Lose
<1>1. n \in up /\ UNCHANGED <<up, stalled>> /\ (Lose \/ UNCHANGED losses)
  BY DEF Check, Verify, renew_lease, try_take_lease, Elsewhere
<1>2. SetXX(n) \/ SetNX(n) \/ Unset
  BY DEF Check, Verify, renew_lease, try_take_lease
<1>3. \A m \in Node \ {n} : pc'[m] = pc[m] /\ due'[m] = due[m]
  BY DEF Check, Verify, renew_lease, try_take_lease, Goto, Wait, TypeOK
<1>4. CASE Check(n)
  <2>1. pc[n] = "waiting" /\ due[n] <= 0 /\ (Goto(n, "taking") \/ (owner = n /\ Goto(n, "renewing")))
    BY <1>4 DEF Check
  <2> QED
    BY <1>1, <1>2, <1>3, <2>1 DEF Goto, TypeOK, OnTime
<1>5. CASE Verify(n)
  <2>1. pc[n] = "renewing" /\ (Wait(n) \/ (owner = n /\ Goto(n, "setting")))
    BY <1>5 DEF Verify
  <2> QED
    BY <1>1, <1>2, <1>3, <2>1 DEF Goto, Wait, TypeOK, OnTime
<1>6. CASE renew_lease(n) \/ try_take_lease(n)
  <2>1. Wait(n) /\ pc[n] # "waiting" /\ (pc[n] = "taking" => SetNX(n) \/ Lose)
    BY <1>6 DEF renew_lease, try_take_lease
  <2> QED
    BY <1>1, <1>2, <1>3, <2>1 DEF Wait, TypeOK, OnTime
<1> QED
  BY <1>4, <1>5, <1>6

LEMMA LoopVacancy ==
    ASSUME TypeOK, TypeOK', VacancyInv, NEW n \in Node,
           Check(n) \/ Verify(n) \/ renew_lease(n) \/ try_take_lease(n)
    PROVE  VacancyInv'
<1>1. /\ n \in up /\ UNCHANGED <<up, stalled>> /\ OnTime' = OnTime
      /\ SetXX(n) \/ SetNX(n) \/ Unset
      /\ Lose \/ UNCHANGED losses
      /\ \A m \in Node \ {n} : pc'[m] = pc[m] /\ due'[m] = due[m]
      /\ pc[n] = "taking" => SetNX(n) \/ Lose
  BY LoopStep
<1>2. \/ due'[n] = Interval /\ pc'[n] = "waiting" /\ pc[n] # "waiting"
      \/ due'[n] = due[n] /\ pc'[n] = "taking" /\ pc[n] = "waiting" /\ due[n] <= 0
      \/ /\ due'[n] = due[n] /\ pc'[n] \in {"renewing", "setting"}
         /\ owner = n /\ (pc[n] # "waiting" \/ due[n] <= 0)
  BY LoopStep
<1>3. \/ owner' = n /\ vacant' = 0
      \/ UNCHANGED <<owner, ttl, vacant>> /\ (SetNX(n) => owner # None)
  BY <1>1, SetsOrLeaves
<1>4. n # None /\ up \subseteq Node /\ OnTime \subseteq up /\ None \notin up
  BY Constants DEF TypeOK, OnTime
<1>5. owner' \in up' \/ OnTime' = {} => vacant' = 0
  BY <1>1, <1>3 DEF VacancyInv
<1>6. owner' \notin up' \cup {None} => vacant' + ttl' <= LEASE_TTL
  BY <1>1, <1>3 DEF VacancyInv
<1>7. \A m \in up' : pc'[m] # "waiting" => due'[m] <= 0
  <2>1. pc'[n] # "waiting" => due'[n] <= 0
    BY <1>1, <1>2 DEF VacancyInv
  <2> QED
    BY <1>1, <1>4, <2>1 DEF VacancyInv
<1>8. owner' \notin up' => UNCHANGED <<owner, ttl, vacant>> /\ owner # n /\ (SetNX(n) => owner # None)
  BY <1>1, <1>3
<1>9. owner' \notin up' =>
          \A m \in OnTime' : pc'[m] \in {"renewing", "setting"} => vacant' + due'[m] <= 0
  <2> SUFFICES ASSUME owner' \notin up', NEW m \in OnTime, pc'[m] \in {"renewing", "setting"}
               PROVE  vacant' + due'[m] <= 0
    BY <1>1
  <2>1. m # n
    BY <1>2, <1>8
  <2> QED
    BY <1>1, <1>4, <1>8, <2>1 DEF VacancyInv
<1>10. ASSUME owner' = None, OnTime' # {}
       PROVE  \E m \in OnTime' : Soon(m)'
  <2>1. UNCHANGED <<owner, ttl, vacant>> /\ owner = None /\ ~ SetNX(n)
    BY <1>1, <1>4, <1>8, <1>10
  <2>2. PICK m \in OnTime : Soon(m)
    BY <1>1, <1>10, <2>1 DEF VacancyInv
  <2>3. /\ losses \in 0..MaxLosses /\ losses' \in 0..MaxLosses
        /\ Owed(losses') <= Owed(losses) /\ (Lose => Owed(losses') + Round = Owed(losses))
    BY <1>1, OwedPaid
  <2>4. /\ Owed(losses) \in Nat /\ Owed(losses') \in Nat /\ Patience \in Nat
        /\ Interval + Owed(losses') <= Patience /\ Delay <= LEASE_TTL
    BY <2>3, OwedBounds
  <2>5. /\ vacant \in Nat /\ LEASE_TTL \in Nat /\ Interval \in Nat /\ Delay \in Nat
        /\ Round = Interval + Delay /\ m \in Node
        /\ due[m] \in Int /\ -Delay <= due[m]
    BY <1>4, Constants DEF TypeOK, Round
  <2>6. CASE m # n \/ pc'[n] # "waiting"
    <3>1. due'[m] = due[m] /\ (pc'[m] = pc[m] \/ pc[m] = "waiting")
      BY <1>1, <1>2, <1>4, <2>1, <2>5, <2>6
    <3>2. CASE pc[m] \in {"renewing", "setting"}
      BY <1>1, <2>1, <2>2, <3>1, <3>2 DEF Soon
    <3>3. CASE pc[m] \notin {"renewing", "setting"}
      <4>1. vacant + due[m] + Owed(losses) <= LEASE_TTL + Patience
        BY <2>2, <3>3 DEF Soon
      <4>2. vacant' + due'[m] + Owed(losses') <= LEASE_TTL + Patience
        BY <2>1, <2>3, <2>4, <2>5, <3>1, <4>1
      <4> QED
        BY <1>1, <2>2, <4>2 DEF Soon
    <3> QED
      BY <3>2, <3>3
  <2>7. CASE m = n /\ pc'[n] = "waiting"
    <3>1. due'[n] = Interval /\ pc[n] # "waiting"
      BY <1>2, <2>7
    <3>2. CASE pc[n] \in {"renewing", "setting"}
      <4>1. vacant + due[n] <= 0
        BY <1>4, <2>1, <2>2, <2>7, <3>2 DEF VacancyInv
      <4>2. vacant' + due'[n] + Owed(losses') <= LEASE_TTL + Patience
        BY <2>1, <2>4, <2>5, <2>7, <3>1, <4>1
      <4> QED
        BY <1>1, <2>2, <2>7, <4>2 DEF Soon
    <3>3. CASE pc[n] \notin {"renewing", "setting"}
      <4>1. pc[n] = "taking"
        BY <3>1, <3>3 DEF TypeOK
      <4>2. Owed(losses') + Round = Owed(losses)
        BY <1>1, <2>1, <2>3, <4>1
      <4>3. vacant + due[n] + Owed(losses) <= LEASE_TTL + Patience
        BY <2>2, <2>7, <3>3 DEF Soon
      <4>4. vacant' + due'[n] + Owed(losses') <= LEASE_TTL + Patience
        BY <2>1, <2>4, <2>5, <2>7, <3>1, <4>2, <4>3
      <4> QED
        BY <1>1, <2>2, <2>7, <4>4 DEF Soon
    <3> QED
      BY <3>2, <3>3
  <2> QED
    BY <2>6, <2>7
<1> QED
  BY <1>5, <1>6, <1>7, <1>9, <1>10 DEF VacancyInv

LEMMA TransferVacancy ==
    ASSUME TypeOK, TypeOK', VacancyInv, NEW n \in Node,
           Transfer(n) \/ VerifyTransfer(n) \/ release_lease(n)
    PROVE  VacancyInv'
<1>1. /\ UNCHANGED <<up, pc, due, stalled>> /\ OnTime' = OnTime
      /\ Del \/ Unset
      /\ Lose \/ UNCHANGED losses
  BY DEF Transfer, VerifyTransfer, release_lease, Aside, loop, OnTime
<1>2. /\ None \notin up /\ OnTime \subseteq up /\ up \subseteq Node
  BY Constants DEF TypeOK, OnTime
<1>3. /\ losses \in 0..MaxLosses /\ losses' \in 0..MaxLosses
      /\ Owed(losses') <= Owed(losses) /\ Owed(losses) \in Nat /\ Owed(losses') \in Nat
      /\ Patience \in Nat
  BY <1>1, OwedPaid, OwedBounds
<1>4. /\ vacant \in Nat /\ LEASE_TTL \in Nat /\ ttl \in Nat
      /\ \A m \in Node : due[m] \in -Delay..Interval /\ due[m] \in Int
  BY Constants DEF TypeOK
<1>5. ASSUME vacant' = vacant, owner' = None, OnTime # {}, \E m \in OnTime : Soon(m)
      PROVE  \E m \in OnTime' : Soon(m)'
  <2>1. PICK m \in OnTime : Soon(m)
    BY <1>5
  <2>2. CASE pc[m] \in {"renewing", "setting"}
    BY <1>1, <2>2 DEF Soon
  <2>3. CASE pc[m] \notin {"renewing", "setting"}
    <3>1. vacant + due[m] + Owed(losses) <= LEASE_TTL + Patience
      BY <2>1, <2>3 DEF Soon
    <3>2. vacant' + due'[m] + Owed(losses') <= LEASE_TTL + Patience
      BY <1>1, <1>2, <1>3, <1>4, <1>5, <3>1
    <3> QED
      BY <1>1, <3>2 DEF Soon
  <2> QED
    BY <2>2, <2>3
<1>6. CASE Unset
  <2>1. UNCHANGED <<owner, ttl, vacant>>
    BY <1>6 DEF Unset, lease
  <2> QED
    BY <1>1, <1>2, <1>5, <2>1 DEF VacancyInv
<1>7. CASE Del
  <2>1. owner' = None /\ ttl' = 0 /\ vacant' = vacant
    BY <1>7 DEF Del
  <2>2. owner # None => vacant <= LEASE_TTL
    BY <1>4 DEF VacancyInv
  <2>3. \A m \in OnTime : pc[m] \in {"renewing", "setting"} => vacant + due[m] <= 0
    BY <1>2, <1>4 DEF VacancyInv
  <2>4. ASSUME OnTime # {}
        PROVE  \E m \in OnTime' : Soon(m)'
    <3>1. CASE owner = None
      BY <1>2, <1>5, <2>1, <2>4, <3>1 DEF VacancyInv
    <3>2. CASE owner # None
      <4>1. PICK m \in OnTime : TRUE
        BY <2>4
      <4>2. vacant' + due'[m] + Owed(losses') <= LEASE_TTL + Patience
        BY <1>1, <1>2, <1>3, <1>4, <2>1, <2>2, <3>2, SoonEnough
      <4> QED
        BY <1>1, <4>2 DEF Soon
    <3> QED
      BY <3>1, <3>2
  <2> QED
    BY <1>1, <1>2, <2>1, <2>3, <2>4 DEF VacancyInv
<1> QED
  BY <1>1, <1>6, <1>7

LEMMA FaultVacancy ==
    ASSUME TypeOK, TypeOK', SettersHold, VacancyInv, NEW n \in Node,
           Crash(n) \/ Restart(n) \/ Stall(n)
    PROVE  VacancyInv'
<1>1. /\ vacant \in Nat /\ LEASE_TTL \in Nat /\ ttl \in 0..LEASE_TTL
      /\ None \notin up /\ up \subseteq Node /\ stalled \subseteq up
      /\ losses \in 0..MaxLosses
      /\ \A m \in Node : due[m] \in -Delay..Interval
  BY Constants DEF TypeOK
<1>2. CASE Crash(n) \/ Stall(n)
  <2>1. /\ vacant' = 0 /\ UNCHANGED <<owner, ttl, losses>>
        /\ \A m \in up' : m \in up /\ pc'[m] = pc[m] /\ due'[m] = due[m]
    BY <1>2 DEF Crash, Stall, lease, loop, TypeOK
  <2>2. OnTime' \subseteq up'
    BY DEF OnTime
  <2>3. \A m \in up' : Soon(m)'
    <3> SUFFICES ASSUME NEW m \in up'
                 PROVE  vacant' + due'[m] + Owed(losses') <= LEASE_TTL + Patience
      BY DEF Soon
    <3>1. due'[m] \in -Delay..Interval /\ losses' \in 0..MaxLosses
      BY <1>1, <2>1
    <3> QED
      BY <1>1, <2>1, <3>1, SoonEnough
  <2>4. \A m \in up' : pc'[m] # "waiting" => due'[m] <= 0 /\ vacant' + due'[m] <= 0
    <3> SUFFICES ASSUME NEW m \in up', pc'[m] # "waiting"
                 PROVE  due'[m] <= 0 /\ vacant' + due'[m] <= 0
      OBVIOUS
    <3>1. due[m] <= 0 /\ due'[m] = due[m] /\ due[m] \in -Delay..Interval
      BY <1>1, <2>1 DEF VacancyInv
    <3>2. due[m] \in Int
      BY <3>1, Constants
    <3> QED
      BY <2>1, <3>1, <3>2
  <2> QED
    BY <1>1, <2>1, <2>2, <2>3, <2>4 DEF VacancyInv
<1>3. CASE Restart(n)
  <2>1. /\ n \notin up /\ up' = up \cup {n} /\ vacant' = (IF owner = n THEN 0 ELSE vacant)
        /\ UNCHANGED <<owner, ttl, pc, due, losses, stalled>>
    BY <1>3 DEF Restart, lease, loop, bounds
  <2>2. pc[n] = "waiting" /\ OnTime' = OnTime \cup {n}
    BY <1>1, <2>1 DEF SettersHold, OnTime
  <2>3. OnTime \subseteq up
    BY DEF OnTime
  <2>4. ASSUME owner = None
        PROVE  \E m \in OnTime' : Soon(m)'
    <3>0. vacant' = vacant
      BY <2>1, <2>4, Constants
    <3>1. CASE OnTime = {}
      <4>1. vacant' = 0
        BY <2>1, <3>1 DEF VacancyInv
      <4>2. vacant' + due'[n] + Owed(losses') <= LEASE_TTL + Patience
        BY <1>1, <2>1, <4>1, SoonEnough
      <4> QED
        BY <2>2, <4>2 DEF Soon
    <3>2. CASE OnTime # {}
      <4>1. PICK m \in OnTime : Soon(m)
        BY <2>4, <3>2 DEF VacancyInv
      <4> QED
        BY <2>1, <2>2, <3>0, <4>1 DEF Soon
    <3> QED
      BY <3>1, <3>2
  <2> QED
    BY <1>1, <2>1, <2>2, <2>3, <2>4 DEF VacancyInv
<1> QED
  BY <1>2, <1>3

LEMMA TickVacancy ==
    ASSUME TypeOK, TypeOK', VacancyInv, Tick
    PROVE  VacancyInv'
<1>1. /\ vacant \in Nat /\ LEASE_TTL \in Nat /\ ttl \in 0..LEASE_TTL /\ ttl \in Nat
      /\ (ttl = 0) = (owner = None)
      /\ None \notin up /\ up \subseteq Node /\ losses \in 0..MaxLosses
      /\ Delay \in Nat /\ Interval \in Nat
      /\ \A m \in Node : due[m] \in -Delay..Interval /\ due'[m] \in -Delay..Interval
  BY Constants DEF TypeOK
<1>2. /\ UNCHANGED <<up, pc, stalled, losses>> /\ OnTime' = OnTime /\ OnTime \subseteq up
      /\ owner' = IF ttl <= 1 THEN None ELSE owner
      /\ vacant' = IF owner \in up \/ OnTime = {} THEN 0 ELSE vacant + 1
      /\ ttl' = Max({ttl - 1, 0})
  BY DEF Tick, OnTime, bounds
<1>3. ttl > 1 => ttl' = ttl - 1
  <2>1. ttl - 1 \in Int /\ 0 \in Int
    BY <1>1
  <2>2. ttl' \in {ttl - 1, 0} /\ ttl' >= ttl - 1
    BY <1>2, <2>1, MaxPair
  <2> QED
    BY <1>1, <2>2
<1>4. ASSUME NEW m \in up
      PROVE  due'[m] <= due[m] \/ due'[m] <= 0
  <2>0. m \in Node /\ due[m] \in Int /\ -Delay \in Int /\ -Delay <= 0
    BY <1>1
  <2>1. due'[m] = Max({due[m] - 1, -Delay}) /\ due[m] - 1 \in Int
    BY <2>0 DEF Tick
  <2>2. due'[m] \in {due[m] - 1, -Delay}
    BY <2>0, <2>1, MaxPair
  <2> QED
    BY <2>0, <2>2
<1>5. ASSUME NEW m \in OnTime
      PROVE  due'[m] = due[m] - 1
  <2>0. m \in Node /\ m \in up /\ due[m] \in Int
    BY <1>1, <1>2
  <2>1. /\ due'[m] = Max({due[m] - 1, -Delay}) /\ due[m] - 1 \in Int /\ -Delay \in Int
        /\ due[m] > -Delay /\ due[m] \in Int
    BY <1>1, <2>0 DEF Tick
  <2>2. due'[m] \in {due[m] - 1, -Delay} /\ due'[m] >= due[m] - 1
    BY <2>1, MaxPair
  <2> QED
    BY <1>1, <2>1, <2>2
<1>6. owner' \in up' \/ OnTime' = {} => vacant' = 0
  BY <1>1, <1>2
<1>7. owner' \notin up' \cup {None} => vacant' + ttl' <= LEASE_TTL
  BY <1>1, <1>2, <1>3 DEF VacancyInv
<1>8. ASSUME NEW m \in up', pc'[m] # "waiting"
      PROVE  due'[m] <= 0
  <2>1. due[m] <= 0 /\ due[m] \in Int /\ due'[m] \in Int
    BY <1>1, <1>2, <1>8 DEF VacancyInv
  <2> QED
    BY <1>2, <1>4, <2>1
<1>9. ASSUME owner' \notin up', NEW m \in OnTime', pc'[m] \in {"renewing", "setting"}
      PROVE  vacant' + due'[m] <= 0
  <2>1. /\ due'[m] = due[m] - 1 /\ due[m] \in Int /\ pc[m] \in {"renewing", "setting"}
        /\ due[m] <= 0
    BY <1>1, <1>2, <1>5, <1>9 DEF VacancyInv
  <2>2. CASE owner \in up
    BY <1>2, <2>1, <2>2
  <2>3. CASE owner \notin up
    <3>1. vacant + due[m] <= 0
      BY <1>2, <1>9, <2>1, <2>3 DEF VacancyInv
    <3> QED
      BY <1>1, <1>2, <2>1, <2>3, <3>1
  <2> QED
    BY <2>2, <2>3
<1>10. ASSUME owner' = None, OnTime' # {}
       PROVE  \E m \in OnTime' : Soon(m)'
  <2>1. CASE owner = None
    <3>1. PICK m \in OnTime : Soon(m)
      BY <1>2, <1>10, <2>1 DEF VacancyInv
    <3>2. CASE pc[m] \in {"renewing", "setting"}
      BY <1>2, <3>2 DEF Soon
    <3>3. CASE pc[m] \notin {"renewing", "setting"}
      <4>1. vacant + due[m] + Owed(losses) <= LEASE_TTL + Patience
        BY <3>1, <3>3 DEF Soon
      <4>2. /\ due'[m] = due[m] - 1 /\ due[m] \in Int /\ vacant' <= vacant + 1 /\ vacant' \in Nat
            /\ Owed(losses) \in Nat /\ Patience \in Nat
        BY <1>1, <1>2, <1>5, OwedBounds
      <4>3. vacant' + due'[m] + Owed(losses') <= LEASE_TTL + Patience
        BY <1>1, <1>2, <4>1, <4>2
      <4> QED
        BY <1>2, <4>3 DEF Soon
    <3> QED
      BY <3>2, <3>3
  <2>2. CASE owner # None
    <3>1. vacant' \in Nat /\ vacant' <= LEASE_TTL
      <4>1. CASE owner \in up
        BY <1>1, <1>2, <4>1
      <4>2. CASE owner \notin up
        <5>1. vacant + ttl <= LEASE_TTL /\ ttl >= 1
          BY <1>1, <2>2, <4>2 DEF VacancyInv
        <5> QED
          BY <1>1, <1>2, <5>1
      <4> QED
        BY <4>1, <4>2
    <3>2. PICK m \in OnTime' : TRUE
      BY <1>10
    <3>3. due'[m] \in -Delay..Interval /\ losses' \in 0..MaxLosses
      BY <1>1, <1>2
    <3>4. vacant' + due'[m] + Owed(losses') <= LEASE_TTL + Patience
      BY <3>1, <3>3, SoonEnough
    <3> QED
      BY <3>4 DEF Soon
  <2> QED
    BY <2>1, <2>2
<1> QED
  BY <1>6, <1>7, <1>8, <1>9, <1>10 DEF VacancyInv

LEMMA NextVacancy ==
    ASSUME TypeOK, TypeOK', SettersHold, VacancyInv, [Next]_vars
    PROVE  VacancyInv'
<1>1. ASSUME UNCHANGED <<owner, ttl, up, pc, due, stalled, vacant, losses>>
      PROVE  VacancyInv'
  BY <1>1 DEF VacancyInv, OnTime, Soon
<1>2. ASSUME NEW n \in Node, Work(n) \/ EndWork(n)
      PROVE  VacancyInv'
  BY <1>1, <1>2 DEF Work, EndWork, lease, loop, observers, bounds
<1>3. CASE UNCHANGED vars
  BY <1>1, <1>3 DEF vars, lease, loop, observers, bounds
<1> QED
  BY <1>2, <1>3, LoopVacancy, TransferVacancy, FaultVacancy, TickVacancy DEF Next

-------------------------------------------------------------------------------
(* The theorems. *)

\* The inductive invariant: a running node on time has time to renew, workers
\* hold the lease, and so do renewing nodes before a transfer.
THEOREM LeaseKept == Spec => []LeaseInv
<1>1. Init => LeaseInv
  <2>1. Init => TypeOK
    <3>1. 0 \in -Delay..Interval /\ 0 \in 0..LEASE_TTL /\ 0 \in 0..MaxLosses
          /\ 0 \in 0..MaxTransfers /\ 0 \in 0..MaxCrashes /\ 0 \in 0..MaxStalls
      BY Constants
    <3> QED
      BY <3>1 DEF Init, TypeOK
  <2>2. Init => InTime /\ WorkersHold /\ SettersHold
    BY Constants DEF Init, InTime, WorkersHold, SettersHold, RenewalKeepsToItself
  <2> QED
    BY <2>1, <2>2 DEF LeaseInv
<1>2. LeaseInv /\ [Next]_vars => LeaseInv'
  BY NextTypes, NextInTime, NextWorkers, SettersAndRobbers DEF LeaseInv
<1> QED
  BY <1>1, <1>2, PTL DEF Spec

\* Two nodes run guarded operations at once only when one of them stalled, or
\* the lease was deleted or overwritten under its work (OneWorks).
THEOREM OneNodeWorks == Spec => []OneWorks
<1>1. LeaseInv => OneWorks
  BY DEF LeaseInv, WorkersHold, OneWorks
<1> QED
  BY <1>1, LeaseKept, PTL

\* The first lease overwritten by a node on time comes after a transfer
\* (RenewalKeepsToItself).
THEOREM RenewalsAreOwn == Spec => []RenewalKeepsToItself
<1>1. LeaseInv => RenewalKeepsToItself
  BY DEF LeaseInv, SettersHold
<1> QED
  BY <1>1, LeaseKept, PTL

\* No tick ends the lease of a running node on time, though MaxLosses commands
\* fail (LeaseOutlivesOutage).
THEOREM LeaseOutlives == Spec => LeaseOutlivesOutage
<1>1. LeaseInv /\ [Next]_vars => [Tick /\ owner \in OnTime \ revived => owner' = owner]_vars
  <2>1. ASSUME TypeOK, InTime, Tick, owner \in OnTime \ revived
        PROVE  owner' = owner
    BY <2>1, TickInTime DEF OnTime
  <2> QED
    BY <2>1 DEF LeaseInv
<1> QED
  BY <1>1, LeaseKept, PTL DEF Spec, LeaseOutlivesOutage

\* After a crash, a stall, a release or an expiry a running node holds the lease
\* again within a time to live and the rounds that may fail, while one keeps its
\* time (TakeoverInTime).
THEOREM TakenOver == Spec => []TakeoverInTime
<1>1. Init => VacancyInv
  <2>1. 0 \in Nat /\ 0 <= LEASE_TTL /\ 0 \in -Delay..Interval /\ 0 \in 0..MaxLosses
    BY Constants
  <2>2. 0 + 0 + Owed(0) <= LEASE_TTL + Patience
    BY <2>1, SoonEnough
  <2> QED
    BY <2>1, <2>2, Constants DEF Init, VacancyInv, OnTime, Soon
<1>2. LeaseInv /\ LeaseInv' /\ VacancyInv /\ [Next]_vars => VacancyInv'
  BY NextVacancy DEF LeaseInv
<1>3. TypeOK /\ VacancyInv => TakeoverInTime
  <2> SUFFICES ASSUME TypeOK, VacancyInv
               PROVE  vacant <= LEASE_TTL + Patience
    BY DEF TakeoverInTime
  <2>1. /\ vacant \in Nat /\ LEASE_TTL \in Nat /\ Delay \in Nat /\ ttl \in Nat
        /\ losses \in 0..MaxLosses
    BY Constants DEF TypeOK
  <2>2. /\ Owed(losses) \in Nat /\ Owed(losses) >= Delay /\ Patience \in Nat
        /\ Delay <= LEASE_TTL
    <3>1. MaxLosses - losses \in Nat /\ Round \in Nat
      BY <2>1, Constants
    <3>2. Round * (MaxLosses - losses) \in Nat
      <4> HIDE DEF Round
      <4> QED
        BY <3>1
    <3> DEFINE x == Round * (MaxLosses - losses)
    <3>3. Owed(losses) = Delay + x /\ x \in Nat
      BY <3>2 DEF Owed
    <3> HIDE DEF x
    <3> QED
      BY <2>1, <3>3, OwedBounds
  <2>3. CASE owner \in up \/ OnTime = {}
    BY <2>1, <2>2, <2>3 DEF VacancyInv
  <2>4. CASE owner \notin up \cup {None}
    BY <2>1, <2>2, <2>4 DEF VacancyInv
  <2>5. CASE owner = None /\ OnTime # {}
    <3>1. PICK n \in OnTime : Soon(n)
      BY <2>5 DEF VacancyInv
    <3>2. due[n] \in Int /\ due[n] >= -Delay /\ owner \notin up
      BY <2>5, Constants DEF OnTime, TypeOK
    <3>3. CASE pc[n] \in {"renewing", "setting"}
      <4>1. vacant + due[n] <= 0
        BY <3>2, <3>3 DEF VacancyInv
      <4> QED
        BY <2>1, <2>2, <3>2, <4>1
    <3>4. CASE pc[n] \notin {"renewing", "setting"}
      <4>1. vacant + due[n] + Owed(losses) <= LEASE_TTL + Patience
        BY <3>1, <3>4 DEF Soon
      <4> QED
        BY <2>1, <2>2, <3>2, <4>1
    <3> QED
      BY <3>3, <3>4
  <2> QED
    BY <2>3, <2>4, <2>5
<1>4. LeaseInv => TypeOK
  BY DEF LeaseInv
<1> QED
  BY <1>1, <1>2, <1>3, <1>4, LeaseKept, PTL DEF Spec
===============================================================================
