---------------------------- MODULE Tier3RunProofs ----------------------------
(***************************************************************************)
(* Theorems about Tier3Run, for every number of devices, threshold, rate   *)
(* limit and clock resolution: the emergency stop, the types, the rate     *)
(* limit, the failure threshold, and that every step of the runner brings  *)
(* the run nearer its end.                                                 *)
(***************************************************************************)
EXTENDS Tier3Run, NaturalLemmas, SequenceTheorems

\* OneSessionAfterStop alone is not inductive: a runner that has passed both
\* flag checks will still start a session, so it must have started none
\* since the flag was set.
StopInv ==
    /\ startsSinceStop \in Nat
    /\ emergency => /\ startsSinceStop <= 1
                    /\ phase \in {"gate", "sleeping"} => startsSinceStop = 0

\* A step that neither starts a session nor passes the second flag check
\* keeps the invariant.
LEMMA QuietStep ==
    ASSUME StopInv, startsSinceStop' = startsSinceStop,
           emergency' = TRUE => emergency = TRUE,
           phase' \in {"gate", "sleeping"} => phase \in {"gate", "sleeping"}
    PROVE  StopInv'
BY DEF StopInv

\* Starting a session from the gate or from its sleep keeps the invariant.
LEMMA StartStep ==
    ASSUME StopInv, phase \in {"gate", "sleeping"}, NEW stamps, StartSession(stamps)
    PROVE  StopInv'
BY DEF StopInv, StartSession

\* Every step of the runner keeps the invariant.
LEMMA AdvanceStep ==
    ASSUME StopInv, Advance
    PROVE  StopInv'
<1>1. CASE HaltOnStop \/ HaltOnErrors \/ NextTarget \/ LoopEnds \/ Finish
  BY <1>1, QuietStep DEF HaltOnStop, HaltOnErrors, NextTarget, LoopEnds, Finish, observed
<1>2. CASE PassOverTarget \/ \E outcome \in {"no_commands", "blocked"} : RefuseTarget(outcome)
  BY <1>2, QuietStep DEF PassOverTarget, RefuseTarget, Leave, observed
<1>3. CASE ClearTarget
  BY <1>3 DEF ClearTarget, _check_emergency_stop, observed, StopInv
<1>4. CASE GateOpens
  BY <1>4, StartStep DEF GateOpens
<1>5. CASE GateSleeps
  BY <1>5, QuietStep DEF GateSleeps, observed
<1>6. CASE GateWakes
  BY <1>6, StartStep DEF GateWakes
<1>7. CASE \E ok \in BOOLEAN : SessionEnds(ok)
  BY <1>7, QuietStep DEF SessionEnds, Leave, observed
<1> QED
  BY <1>1, <1>2, <1>3, <1>4, <1>5, <1>6, <1>7 DEF Advance

\* At most one more device is touched once the emergency stop is set.
THEOREM StopHonoured == Spec => []OneSessionAfterStop
<1>1. Init => StopInv
  BY DEF Init, StopInv
<1>2. StopInv /\ [Next]_vars => StopInv'
  <2> SUFFICES ASSUME StopInv, [Next]_vars
               PROVE  StopInv'
    OBVIOUS
  <2>1. CASE emergency_stop_now
    BY <2>1 DEF emergency_stop_now, StopInv
  <2>2. CASE emergency_clear
    <3>1. ~emergency' /\ startsSinceStop' = startsSinceStop
      BY <2>2 DEF emergency_clear, observed
    <3> QED
      BY <3>1 DEF StopInv
  <2>3. CASE Tick \/ run_real \/ Crash
    BY <2>3, QuietStep DEF Tick, run_real, Crash, observed
  <2>4. CASE Advance
    BY <2>4, AdvanceStep
  <2>5. CASE UNCHANGED vars
    BY <2>5, QuietStep DEF vars, runner, observed
  <2> QED
    BY <2>1, <2>2, <2>3, <2>4, <2>5 DEF Next
<1>3. StopInv => OneSessionAfterStop
  BY DEF StopInv, OneSessionAfterStop
<1> QED
  BY <1>1, <1>2, <1>3, PTL DEF Spec

------------------------------------------------------------------------------
(* The stamps of the rate gate. *)

\* A window of stamps: ages that never pass Minute, oldest first.
Window(ages) ==
    /\ ages \in Seq(0..Minute)
    /\ \A i, j \in DOMAIN ages : i <= j => ages[j] <= ages[i]

\* The stamps that are out of the window come first: the first k.
Out(ages, k) ==
    /\ k \in 0..Len(ages)
    /\ \A i \in 1..k : ages[i] = Minute
    /\ \A i \in (k + 1)..Len(ages) : ages[i] < Minute

\* What a window is, in numbers.
LEMMA WindowFacts ==
    ASSUME NEW ages, Window(ages)
    PROVE  /\ Minute \in Nat /\ 0 < Minute
           /\ ages \in Seq(0..Minute)
           /\ Len(ages) \in Nat
           /\ DOMAIN ages = 1..Len(ages)
           /\ \A i \in 1..Len(ages) : ages[i] \in Nat /\ ages[i] <= Minute
           /\ \A i, j \in 1..Len(ages) : i <= j => ages[j] <= ages[i]
<1>1. ages \in Seq(0..Minute) /\ Minute \in Nat /\ 0 < Minute
  BY RunAssumption DEF Window
<1>2. Len(ages) \in Nat /\ DOMAIN ages = 1..Len(ages)
  BY <1>1
<1>3. \A i \in 1..Len(ages) : ages[i] \in 0..Minute
  BY <1>1
<1> QED
  BY <1>1, <1>2, <1>3 DEF Window

\* The least of a set of numbers is the one below all.
LEMMA MinIs ==
    ASSUME NEW S \in SUBSET Int, NEW m \in S, \A x \in S : m <= x
    PROVE  Min(S) = m
<1>1. ASSUME NEW x \in S, \A y \in S : x <= y
      PROVE  x = m
  <2>1. x \in Int /\ m \in Int /\ x <= m /\ m <= x
    BY <1>1
  <2> QED
    BY <2>1
<1> QED
  BY <1>1 DEF Min

\* The part of a window from its k + 1st stamp on.
LEMMA LaterPart ==
    ASSUME NEW ages, Window(ages), NEW k \in 0..Len(ages)
    PROVE  LET later == SubSeq(ages, k + 1, Len(ages))
           IN  /\ Window(later)
               /\ Len(later) = Len(ages) - k
               /\ \A i \in 1..(Len(ages) - k) :
                      i + k \in 1..Len(ages) /\ later[i] = ages[i + k]
<1> DEFINE later == SubSeq(ages, k + 1, Len(ages))
<1>1. Len(ages) \in Nat /\ k \in Nat /\ k <= Len(ages)
  BY WindowFacts
<1>2. \A i \in (k + 1)..Len(ages) : ages[i] \in 0..Minute
  BY <1>1, WindowFacts
<1>3. /\ later \in Seq(0..Minute)
      /\ Len(later) = IF k + 1 <= Len(ages) THEN Len(ages) - (k + 1) + 1 ELSE 0
      /\ \A i \in 1..(Len(ages) - (k + 1) + 1) : later[i] = ages[(k + 1) + i - 1]
  BY <1>1, <1>2, SubSeqProperties
<1> HIDE DEF later
<1>4. Len(later) = Len(ages) - k /\ Len(ages) - (k + 1) + 1 = Len(ages) - k
  BY <1>1, <1>3
<1>5. ASSUME NEW i \in 1..(Len(ages) - k)
      PROVE  i + k \in 1..Len(ages) /\ later[i] = ages[i + k]
  <2>1. (k + 1) + i - 1 = i + k /\ i + k \in 1..Len(ages)
    BY <1>1
  <2> QED
    BY <1>3, <1>4, <2>1
<1>6. Window(later)
  <2> SUFFICES ASSUME NEW i \in 1..(Len(ages) - k), NEW j \in 1..(Len(ages) - k), i <= j
               PROVE  later[j] <= later[i]
    <3>1. DOMAIN later = 1..(Len(ages) - k)
      BY <1>3, <1>4, LenProperties
    <3> QED
      BY <1>3, <3>1 DEF Window
  <2>1. i + k <= j + k
    BY <1>1
  <2> QED
    BY <1>5, <2>1, WindowFacts
<1> QED
  BY <1>4, <1>5, <1>6 DEF later

\* Recent leaves out exactly the stamps that are out of the window.
LEMMA RecentKeeps ==
    ASSUME NEW ages, Window(ages), NEW k, Out(ages, k)
    PROVE  Recent(ages) = SubSeq(ages, k + 1, Len(ages))
<1> DEFINE S == {i \in DOMAIN ages : ages[i] < Minute} \cup {Len(ages) + 1}
<1>1. k \in 0..Len(ages) /\ Len(ages) \in Nat /\ DOMAIN ages = 1..Len(ages)
  BY WindowFacts DEF Out
<1>2. k + 1 \in S
  BY <1>1 DEF Out
<1>3. ASSUME NEW i \in S
      PROVE  k + 1 <= i
  <2>1. CASE i = Len(ages) + 1
    BY <1>1, <2>1
  <2>2. CASE i \in DOMAIN ages /\ ages[i] < Minute
    <3>1. i \in 1..Len(ages) /\ Minute \in Nat
      BY <1>1, <2>2, WindowFacts
    <3>2. i \notin 1..k
      BY <2>2, <3>1 DEF Out
    <3> QED
      BY <1>1, <3>1, <3>2
  <2> QED
    BY <2>1, <2>2
<1>4. S \in SUBSET Int
  BY <1>1
<1>5. Min(S) = k + 1
  <2> HIDE DEF S
  <2> QED
    BY <1>2, <1>3, <1>4, MinIs
<1> QED
  BY <1>5 DEF Recent

\* In every window some first stamps are out, and the rest is recent.
LEMMA OutExists ==
    ASSUME NEW ages, Window(ages)
    PROVE  \E k \in 0..Len(ages) : Out(ages, k)
<1> DEFINE S == {i \in 1..Len(ages) : ages[i] < Minute} \cup {Len(ages) + 1}
<1>1. S \in SUBSET Nat /\ S # {}
  BY WindowFacts
<1>2. PICK m \in S : \A i \in S : m <= i
  <2> HIDE DEF S
  <2> QED
    BY <1>1, LeastNumber
<1>3. m \in 1..(Len(ages) + 1) /\ Len(ages) \in Nat
  BY <1>2, WindowFacts
<1>4. ASSUME NEW i \in 1..(m - 1)
      PROVE  ages[i] = Minute
  <2>1. i \in 1..Len(ages) /\ ~ (m <= i)
    BY <1>3
  <2>2. ~ (ages[i] < Minute)
    BY <1>2, <2>1
  <2> QED
    BY <2>1, <2>2, WindowFacts
<1>5. ASSUME NEW i \in m..Len(ages)
      PROVE  ages[i] < Minute
  <2>1. m \in 1..Len(ages) /\ i \in 1..Len(ages) /\ m <= i
    BY <1>3
  <2>2. ages[m] < Minute
    BY <1>3, <2>1
  <2> QED
    BY <2>1, <2>2, WindowFacts
<1>6. m - 1 \in 0..Len(ages) /\ (m - 1) + 1 = m
  BY <1>3
<1>7. Out(ages, m - 1)
  BY <1>4, <1>5, <1>6 DEF Out
<1> QED
  BY <1>6, <1>7

\* The recent part of a window is a window without stamps that are out.
LEMMA RecentWindow ==
    ASSUME NEW ages, Window(ages)
    PROVE  /\ Window(Recent(ages))
           /\ Out(Recent(ages), 0)
           /\ Len(Recent(ages)) <= Len(ages)
           /\ Recent(Recent(ages)) = Recent(ages)
           /\ ages # <<>> /\ Head(ages) = Minute => Len(Recent(ages)) < Len(ages)
<1>1. PICK k \in 0..Len(ages) : Out(ages, k)
  BY OutExists
<1>2. Recent(ages) = SubSeq(ages, k + 1, Len(ages))
  BY <1>1, RecentKeeps
<1>3. /\ ages \in Seq(0..Minute) /\ Len(ages) \in Nat /\ Minute \in Nat
      /\ k \in Nat /\ k <= Len(ages)
  BY WindowFacts
<1>4. /\ Window(Recent(ages))
      /\ Len(Recent(ages)) = Len(ages) - k
      /\ \A i \in 1..(Len(ages) - k) : Recent(ages)[i] = ages[i + k]
  BY <1>2, LaterPart
<1>7. Out(Recent(ages), 0)
  <2>1. \A i \in 1..(Len(ages) - k) : i + k \in (k + 1)..Len(ages)
    BY <1>3
  <2>2. ASSUME NEW i \in 1..(Len(ages) - k)
        PROVE  Recent(ages)[i] < Minute
    BY <1>1, <1>4, <2>1 DEF Out
  <2> QED
    BY <1>3, <1>4, <2>2 DEF Out
<1>8. Recent(Recent(ages)) = SubSeq(Recent(ages), 1, Len(Recent(ages)))
  BY <1>4, <1>7, RecentKeeps
<1>9. ASSUME ages # <<>>, Head(ages) = Minute
      PROVE  k # 0
  <2>1. 1 \in 1..Len(ages) /\ ages[1] = Minute
    BY <1>3, <1>9
  <2> QED
    BY <1>1, <1>3, <2>1 DEF Out
<1> QED
  <2>1. Recent(ages) \in Seq(0..Minute)
    BY <1>4 DEF Window
  <2>2. Recent(Recent(ages)) = Recent(ages)
    BY <1>8, <2>1, SubSeqFull
  <2> QED
    BY <1>3, <1>4, <1>7, <1>9, <2>2

\* A new stamp stays.
LEMMA RecentAppend ==
    ASSUME NEW ages, Window(ages)
    PROVE  /\ Window(Append(ages, 0))
           /\ Recent(Append(ages, 0)) = Append(Recent(ages), 0)
<1>1. PICK k \in 0..Len(ages) : Out(ages, k)
  BY OutExists
<1>2. /\ ages \in Seq(0..Minute) /\ Len(ages) \in Nat /\ Minute \in Nat
      /\ 0 < Minute /\ k \in Nat /\ k <= Len(ages)
  BY WindowFacts
<1> DEFINE more == Append(ages, 0)
<1>3. /\ more \in Seq(0..Minute)
      /\ Len(more) = Len(ages) + 1
      /\ DOMAIN more = 1..(Len(ages) + 1)
      /\ \A i \in 1..Len(ages) : more[i] = ages[i]
      /\ more[Len(ages) + 1] = 0
  BY <1>2
<1> HIDE DEF more
<1>4. Window(more)
  <2> SUFFICES ASSUME NEW i \in 1..(Len(ages) + 1), NEW j \in 1..(Len(ages) + 1), i <= j
               PROVE  more[j] <= more[i]
    BY <1>3 DEF Window
  <2>1. CASE j = Len(ages) + 1
    <3>1. more[j] = 0 /\ more[i] \in Nat
      BY <1>3, <2>1, WindowFacts
    <3> QED
      BY <1>2, <3>1
  <2>2. CASE j # Len(ages) + 1
    <3>1. i \in 1..Len(ages) /\ j \in 1..Len(ages)
      BY <1>2, <2>2
    <3> QED
      BY <1>3, <3>1, WindowFacts
  <2> QED
    BY <2>1, <2>2
<1>5. Out(more, k)
  <2>1. ASSUME NEW i \in (k + 1)..(Len(ages) + 1)
        PROVE  more[i] < Minute
    <3>1. CASE i = Len(ages) + 1
      BY <1>2, <1>3, <3>1
    <3>2. CASE i # Len(ages) + 1
      <4>1. i \in (k + 1)..Len(ages) /\ i \in 1..Len(ages)
        BY <1>2, <3>2
      <4> QED
        BY <1>1, <1>3, <4>1 DEF Out
    <3> QED
      BY <3>1, <3>2
  <2>2. \A i \in 1..k : i \in 1..Len(ages) /\ more[i] = Minute
    <3>1. \A i \in 1..k : i \in 1..Len(ages)
      BY <1>2
    <3> QED
      BY <1>1, <1>3, <3>1 DEF Out
  <2> QED
    BY <1>2, <1>3, <2>1, <2>2 DEF Out
<1>6. /\ Recent(ages) = SubSeq(ages, k + 1, Len(ages))
      /\ Recent(more) = SubSeq(more, k + 1, Len(ages) + 1)
  BY <1>1, <1>3, <1>4, <1>5, RecentKeeps
<1>7. SubSeq(more, k + 1, Len(ages) + 1) = Append(SubSeq(ages, k + 1, Len(ages)), 0)
  <2> DEFINE short == SubSeq(ages, k + 1, Len(ages))
             long == SubSeq(more, k + 1, Len(ages) + 1)
  <2>1. /\ short \in Seq(0..Minute)
        /\ Len(short) = Len(ages) - k
        /\ \A i \in 1..(Len(ages) - k) :
               i + k \in 1..Len(ages) /\ short[i] = ages[i + k]
    BY LaterPart DEF Window
  <2>2. /\ long \in Seq(0..Minute)
        /\ Len(long) = Len(ages) + 1 - k
        /\ \A i \in 1..(Len(ages) + 1 - k) : long[i] = more[i + k]
    <3>1. k \in 0..Len(more)
      BY <1>2, <1>3
    <3>2. /\ Window(SubSeq(more, k + 1, Len(more)))
          /\ Len(SubSeq(more, k + 1, Len(more))) = Len(more) - k
          /\ \A i \in 1..(Len(more) - k) : SubSeq(more, k + 1, Len(more))[i] = more[i + k]
      BY <1>4, <3>1, LaterPart
    <3> QED
      BY <1>3, <3>2 DEF Window
  <2> HIDE DEF short, long
  <2>3. /\ Append(short, 0) \in Seq(0..Minute)
        /\ Len(Append(short, 0)) = Len(short) + 1
        /\ \A i \in 1..Len(short) : Append(short, 0)[i] = short[i]
        /\ Append(short, 0)[Len(short) + 1] = 0
    BY <1>2, <2>1, AppendProperties
  <2>4. ASSUME NEW i \in 1..Len(long)
        PROVE  Append(short, 0)[i] = long[i]
    <3>1. CASE i = Len(ages) + 1 - k
      <4>1. i + k = Len(ages) + 1 /\ i = Len(short) + 1 /\ i \in 1..(Len(ages) + 1 - k)
        BY <1>2, <2>1, <3>1
      <4> QED
        BY <1>3, <2>2, <2>3, <4>1
    <3>2. CASE i # Len(ages) + 1 - k
      <4>1. i \in 1..(Len(ages) - k) /\ i \in 1..(Len(ages) + 1 - k)
        <5>1. i \in 1..(Len(ages) + 1 - k)
          BY <2>2
        <5> QED
          BY <1>2, <3>2, <5>1
      <4> QED
        BY <1>3, <2>1, <2>2, <2>3, <4>1
    <3> QED
      BY <3>1, <3>2
  <2>5. Len(long) = Len(Append(short, 0))
    BY <1>2, <2>1, <2>2, <2>3
  <2>6. long = Append(short, 0)
    BY <2>2, <2>3, <2>4, <2>5, SeqEqual
  <2> QED
    BY <2>6 DEF short, long
<1> QED
  BY <1>4, <1>6, <1>7 DEF more

\* A window stays one as time passes.
LEMMA OlderWindow ==
    ASSUME NEW ages, Window(ages)
    PROVE  /\ Window(Older(ages))
           /\ Len(Older(ages)) = Len(ages)
           /\ \A i \in 1..Len(ages) :
                  Older(ages)[i] = IF ages[i] = Minute THEN Minute ELSE ages[i] + 1
<1>1. \A i \in 1..Len(ages) :
          Min({ages[i] + 1, Minute}) = IF ages[i] = Minute THEN Minute ELSE ages[i] + 1
  <2> SUFFICES ASSUME NEW i \in 1..Len(ages)
               PROVE  Min({ages[i] + 1, Minute})
                          = IF ages[i] = Minute THEN Minute ELSE ages[i] + 1
    OBVIOUS
  <2> DEFINE S == {ages[i] + 1, Minute}
             m == IF ages[i] = Minute THEN Minute ELSE ages[i] + 1
  <2>1. S \in SUBSET Int /\ m \in S /\ \A x \in S : m <= x
    BY WindowFacts
  <2> HIDE DEF S, m
  <2>2. Min(S) = m
    BY <2>1, MinIs
  <2> QED
    BY <2>2 DEF S, m
<1>2. Older(ages) = [i \in 1..Len(ages) |->
                         IF ages[i] = Minute THEN Minute ELSE ages[i] + 1]
  BY <1>1, WindowFacts DEF Older
<1>3. \A i \in 1..Len(ages) :
          (IF ages[i] = Minute THEN Minute ELSE ages[i] + 1) \in 0..Minute
  BY WindowFacts
<1>4. Older(ages) \in Seq(0..Minute) /\ Len(Older(ages)) = Len(ages)
  BY <1>2, <1>3, WindowFacts
<1>5. DOMAIN Older(ages) = 1..Len(ages)
  BY <1>2
<1> QED
  BY <1>2, <1>4, <1>5, WindowFacts DEF Window

\* Time passes the same for a window and for its recent part.
LEMMA RecentOlder ==
    ASSUME NEW ages, Window(ages)
    PROVE  Recent(Older(Recent(ages))) = Recent(Older(ages))
<1>1. PICK k \in 0..Len(ages) : Out(ages, k)
  BY OutExists
<1> DEFINE old == Older(ages)
           short == Recent(ages)
           aged == Older(short)
<1>2. /\ Window(old)
      /\ Len(old) = Len(ages)
      /\ \A i \in 1..Len(ages) :
             old[i] = IF ages[i] = Minute THEN Minute ELSE ages[i] + 1
  BY OlderWindow
<1>3. Window(short) /\ Window(aged) /\ Len(aged) = Len(short)
  BY RecentWindow, OlderWindow
<1>4. short = SubSeq(ages, k + 1, Len(ages))
  BY <1>1, RecentKeeps
<1>5. /\ ages \in Seq(0..Minute) /\ Len(ages) \in Nat /\ Minute \in Nat
      /\ k \in Nat /\ k <= Len(ages)
  BY WindowFacts
<1>6. /\ Len(short) = Len(ages) - k
      /\ \A i \in 1..(Len(ages) - k) : short[i] = ages[i + k]
  BY <1>4, <1>5
<1>7. \A i \in 1..(Len(ages) - k) : aged[i] = old[i + k]
  <2>1. \A i \in 1..(Len(ages) - k) :
            aged[i] = IF short[i] = Minute THEN Minute ELSE short[i] + 1
    BY <1>3, <1>6, OlderWindow
  <2>2. \A i \in 1..(Len(ages) - k) : i + k \in 1..Len(ages)
    BY <1>5
  <2> HIDE DEF old, short, aged
  <2> QED
    BY <1>2, <1>6, <2>1, <2>2
<1> HIDE DEF old, short, aged
<1>8. PICK m \in 0..Len(old) : Out(old, m)
  BY <1>2, OutExists
<1>9. m \in Nat /\ m <= Len(ages) /\ k <= m
  <2>1. m \in Nat /\ m <= Len(ages)
    BY <1>2, <1>5
  <2>2. ASSUME m < k
        PROVE  FALSE
    <3>1. m + 1 \in 1..k /\ m + 1 \in (m + 1)..Len(ages) /\ m + 1 \in 1..Len(ages)
      BY <1>5, <2>1, <2>2
    <3>2. ages[m + 1] = Minute
      BY <1>1, <3>1 DEF Out
    <3>3. old[m + 1] < Minute
      BY <1>2, <1>8, <3>1 DEF Out
    <3> QED
      BY <1>2, <1>5, <3>1, <3>2, <3>3
  <2> QED
    BY <1>5, <2>1, <2>2
<1>10. Out(aged, m - k)
  <2>1. m - k \in 0..Len(aged)
    BY <1>3, <1>5, <1>6, <1>9
  <2>2. \A i \in 1..(m - k) : i + k \in 1..m /\ i \in 1..(Len(ages) - k)
    BY <1>5, <1>9
  <2>3. \A i \in (m - k + 1)..(Len(ages) - k) :
            i + k \in (m + 1)..Len(ages) /\ i \in 1..(Len(ages) - k)
    BY <1>5, <1>9
  <2>4. \A i \in 1..(m - k) : aged[i] = Minute
    BY <1>7, <1>8, <2>2 DEF Out
  <2>5. \A i \in (m - k + 1)..(Len(ages) - k) : aged[i] < Minute
    BY <1>2, <1>7, <1>8, <2>3 DEF Out
  <2> QED
    BY <1>3, <1>6, <2>1, <2>4, <2>5 DEF Out
<1>11. /\ Recent(old) = SubSeq(old, m + 1, Len(ages))
       /\ Recent(aged) = SubSeq(aged, m - k + 1, Len(ages) - k)
  BY <1>2, <1>3, <1>6, <1>8, <1>10, RecentKeeps
<1>12. SubSeq(aged, m - k + 1, Len(ages) - k) = SubSeq(old, m + 1, Len(ages))
  <2>1. old \in Seq(0..Minute) /\ aged \in Seq(0..Minute)
    BY <1>2, <1>3 DEF Window
  <2> DEFINE a == SubSeq(aged, m - k + 1, Len(ages) - k)
             b == SubSeq(old, m + 1, Len(ages))
  <2>2. /\ m \in 0..Len(old) /\ m - k \in 0..Len(aged)
        /\ Len(aged) = Len(ages) - k /\ Len(aged) - (m - k) = Len(ages) - m
    BY <1>2, <1>3, <1>5, <1>6, <1>9
  <2>3. /\ a \in Seq(0..Minute) /\ Len(a) = Len(ages) - m
        /\ \A i \in 1..(Len(ages) - m) :
               i + (m - k) \in 1..(Len(ages) - k) /\ a[i] = aged[i + (m - k)]
    <3> DEFINE c == SubSeq(aged, (m - k) + 1, Len(aged))
    <3>1. /\ Window(c)
          /\ Len(c) = Len(aged) - (m - k)
          /\ \A i \in 1..(Len(aged) - (m - k)) :
                 i + (m - k) \in 1..Len(aged) /\ c[i] = aged[i + (m - k)]
      BY <1>3, <2>2, LaterPart
    <3>2. a = c
      BY <2>2
    <3> HIDE DEF a, c
    <3> QED
      BY <2>2, <3>1, <3>2 DEF Window
  <2>4. /\ b \in Seq(0..Minute) /\ Len(b) = Len(ages) - m
        /\ \A i \in 1..(Len(ages) - m) : b[i] = old[i + m]
    BY <1>2, <2>2, LaterPart DEF Window
  <2>5. \A i \in 1..(Len(ages) - m) : (i + (m - k)) + k = i + m
    BY <1>5, <1>9
  <2> HIDE DEF a, b
  <2>6. \A i \in 1..(Len(ages) - m) : a[i] = b[i]
    BY <1>7, <2>3, <2>4, <2>5
  <2>7. a = b
    BY <2>3, <2>4, <2>6, SeqEqual
  <2> QED
    BY <2>7 DEF a, b
<1> QED
  BY <1>11, <1>12 DEF old, short, aged

------------------------------------------------------------------------------
(* Types and counts. *)

\* Where the runner is at work on a device.
OnDevice == {"target", "gate", "sleeping", "session"}

\* TypeOK is not inductive: what bounds the counters is the trail, and what
\* bounds the trail is that only a runner at work on a device adds to it.
CountInv ==
    /\ consec_failures <= Len(trail)
    /\ phase \in OnDevice => Len(trail) < Targets
    /\ \/ startsSinceStop <= Len(trail)
       \/ phase = "session" /\ startsSinceStop <= Len(trail) + 1
       \/ phase = "dead"
    /\ Window(rate_window)
    /\ Window(sessions)

TypeInv == TypeOK /\ CountInv

\* What the invariant says of the counters, in numbers.
LEMMA CountFacts ==
    ASSUME TypeInv
    PROVE  /\ Targets \in Nat /\ Threshold \in Nat /\ Limit \in Nat
           /\ trail \in Seq(Outcome) /\ Len(trail) \in Nat /\ Len(trail) <= Targets
           /\ consec_failures \in Nat /\ consec_failures <= Len(trail)
           /\ startsSinceStop \in Nat /\ startsSinceStop <= Targets
<1>1. Targets \in Nat /\ Threshold \in Nat /\ Limit \in Nat
  BY RunAssumption
<1>2. /\ trail \in Seq(Outcome) /\ Len(trail) <= Targets
      /\ consec_failures \in 0..Targets /\ consec_failures <= Len(trail)
      /\ startsSinceStop \in 0..Targets
  BY DEF TypeInv, TypeOK, CountInv
<1>3. Len(trail) \in Nat
  BY <1>2
<1> QED
  BY <1>1, <1>2, <1>3

\* Leaving a target makes the trail one longer.
LEMMA LeaveTypes ==
    ASSUME TypeInv, phase \in OnDevice, NEW outcome \in Outcome, Leave(outcome)
    PROVE  /\ trail' \in Seq(Outcome)
           /\ Len(trail') = Len(trail) + 1
           /\ Len(trail') <= Targets
           /\ phase' = "loop"
<1>1. Len(trail) < Targets
  BY DEF TypeInv, CountInv
<1>2. /\ trail' \in Seq(Outcome)
      /\ Len(trail') = Len(trail) + 1
  BY CountFacts, AppendProperties DEF Leave
<1> QED
  BY <1>1, <1>2, CountFacts DEF Leave

\* A step that moves the runner and counts nothing keeps the types.
LEMMA MoveTypes ==
    ASSUME TypeInv,
           phase' \in Phase,
           phase' \in OnDevice => phase \in OnDevice \/ Len(trail) < Targets,
           phase' # "session", phase = "session" => phase' = "dead",
           phase = "dead" => phase' = "dead",
           status' \in {"approved", "running", "done", "failed"},
           halted' \in BOOLEAN,
           emergency' \in BOOLEAN,
           Window(rate_window'),
           UNCHANGED <<consec_failures, trail, sessions, startsSinceStop>>
    PROVE  TypeInv'
BY DEF TypeInv, TypeOK, CountInv, OnDevice, Window

\* Leaving a target without a session keeps the types.
LEMMA LeaveKeepsTypes ==
    ASSUME TypeInv, phase = "target", NEW outcome \in Outcome, Leave(outcome),
           UNCHANGED <<emergency, status, halted, consec_failures, rate_window, observed>>
    PROVE  TypeInv'
<1>1. /\ trail' \in Seq(Outcome)
      /\ Len(trail') = Len(trail) + 1
      /\ Len(trail') <= Targets
      /\ phase' = "loop"
  BY LeaveTypes DEF OnDevice
<1>2. startsSinceStop <= Len(trail)
  BY DEF TypeInv, CountInv
<1>3. consec_failures <= Len(trail') /\ startsSinceStop <= Len(trail')
  BY <1>1, <1>2, CountFacts
<1> QED
  BY <1>1, <1>3 DEF TypeInv, TypeOK, CountInv, OnDevice, Phase, Window, observed

\* Starting a session keeps the types.
LEMMA StartKeepsTypes ==
    ASSUME TypeInv, phase \in {"gate", "sleeping"},
           NEW stamps, Window(stamps), StartSession(stamps)
    PROVE  TypeInv'
<1>1. Len(trail) < Targets /\ startsSinceStop <= Len(trail)
  BY DEF TypeInv, CountInv, OnDevice
<1>2. startsSinceStop' \in 0..Targets /\ startsSinceStop' <= Len(trail) + 1
  BY <1>1, CountFacts DEF StartSession
<1>3. Window(sessions')
  <2>1. Window(sessions)
    BY DEF TypeInv, CountInv
  <2>2. sessions' = Append(sessions, 0)
    BY DEF StartSession
  <2> QED
    BY <2>1, <2>2, RecentAppend
<1>4. Window(rate_window')
  BY DEF StartSession
<1>5. /\ phase' = "session"
      /\ UNCHANGED <<emergency, status, halted, consec_failures, trail>>
  BY DEF StartSession
<1>6. rate_window' \in Seq(0..Minute) /\ sessions' \in Seq(0..Minute)
  BY <1>3, <1>4 DEF Window
<1>7. TypeOK'
  BY <1>2, <1>5, <1>6 DEF TypeInv, TypeOK, Phase
<1>8. CountInv'
  BY <1>1, <1>2, <1>3, <1>4, <1>5 DEF TypeInv, CountInv, OnDevice
<1> QED
  BY <1>7, <1>8 DEF TypeInv

\* The end of a session keeps the types.
LEMMA SessionKeepsTypes ==
    ASSUME TypeInv, NEW ok \in BOOLEAN, SessionEnds(ok)
    PROVE  TypeInv'
<1> DEFINE outcome == IF ok THEN "ok" ELSE "failed"
<1>1. phase = "session" /\ outcome \in Outcome /\ Leave(outcome)
  BY DEF SessionEnds, Outcome
<1>2. /\ trail' \in Seq(Outcome)
      /\ Len(trail') = Len(trail) + 1
      /\ Len(trail') <= Targets
      /\ phase' = "loop"
  BY <1>1, LeaveTypes DEF OnDevice
<1>3. startsSinceStop <= Len(trail) + 1
  BY <1>1, CountFacts DEF TypeInv, CountInv
<1>4. consec_failures' \in 0..Targets /\ consec_failures' <= Len(trail')
  BY <1>2, CountFacts DEF SessionEnds
<1>5. UNCHANGED <<emergency, status, halted, rate_window, sessions, startsSinceStop>>
  BY DEF SessionEnds, observed
<1>6. TypeOK'
  BY <1>2, <1>4, <1>5 DEF TypeInv, TypeOK, Phase
<1>7. CountInv'
  BY <1>2, <1>3, <1>4, <1>5 DEF TypeInv, CountInv, OnDevice, Window
<1> QED
  BY <1>6, <1>7 DEF TypeInv

\* Time keeps the types.
LEMMA TickKeepsTypes ==
    ASSUME TypeInv, Tick
    PROVE  TypeInv'
<1>1. Window(rate_window) /\ Window(sessions)
  BY DEF TypeInv, CountInv
<1>2. Window(Older(rate_window)) /\ Window(Recent(Older(sessions)))
  BY <1>1, OlderWindow, RecentWindow
<1>3. Window(rate_window') /\ Window(sessions')
  BY <1>2 DEF Tick
<1>4. rate_window' \in Seq(0..Minute) /\ sessions' \in Seq(0..Minute)
  BY <1>3 DEF Window
<1> QED
  BY <1>3, <1>4 DEF Tick, TypeInv, TypeOK, CountInv

\* The types and counts hold at first and after every step.
LEMMA TypeSteps ==
    /\ Init => TypeInv
    /\ TypeInv /\ [Next]_vars => TypeInv'
<1>1. ASSUME Init
      PROVE  TypeInv
  <2>1. Window(<<>>)
    BY DEF Window
  <2>2. 0 \in 0..Targets /\ <<>> \in Seq(Outcome) /\ Len(<<>>) = 0 /\ 0 <= Targets
    BY RunAssumption
  <2>3. TypeOK
    BY <1>1, <2>1, <2>2 DEF Init, TypeOK, Phase, Window
  <2>4. CountInv
    BY <1>1, <2>1, <2>2 DEF Init, CountInv, OnDevice
  <2> QED
    BY <2>3, <2>4 DEF TypeInv
<1>2. ASSUME TypeInv, [Next]_vars
      PROVE  TypeInv'
  <2>1. CASE emergency_stop_now
    <3>1. startsSinceStop' \in 0..Targets /\ startsSinceStop' <= Len(trail)
      BY <1>2, <2>1, CountFacts DEF emergency_stop_now
    <3>2. UNCHANGED runner /\ sessions' = sessions /\ emergency' \in BOOLEAN
      BY <2>1 DEF emergency_stop_now
    <3> QED
      BY <1>2, <3>1, <3>2 DEF runner, TypeInv, TypeOK, CountInv, OnDevice, Window
  <2>2. CASE emergency_clear
    BY <1>2, <2>2
    DEF emergency_clear, runner, observed, TypeInv, TypeOK, CountInv, OnDevice, Window
  <2>3. CASE Tick
    BY <1>2, <2>3, TickKeepsTypes
  <2>4. CASE run_real \/ Crash
    <3>1. Window(rate_window')
      BY <1>2, <2>4 DEF TypeInv, CountInv, run_real, Crash
    <3> QED
      BY <1>2, <2>4, <3>1, MoveTypes
      DEF run_real, Crash, observed, Phase, OnDevice, TypeInv, TypeOK
  <2>5. CASE Advance
    <3>1. Window(rate_window) /\ Window(Recent(rate_window))
      BY <1>2, RecentWindow DEF TypeInv, CountInv
    <3>2. CASE HaltOnStop \/ HaltOnErrors \/ NextTarget \/ LoopEnds \/ Finish
      <4>1. rate_window' = rate_window
        BY <3>2 DEF HaltOnStop, HaltOnErrors, NextTarget, LoopEnds, Finish
      <4>2. Window(rate_window')
        BY <3>1, <4>1
      <4> QED
        BY <1>2, <3>2, <4>2, MoveTypes
        DEF HaltOnStop, HaltOnErrors, NextTarget, LoopEnds, Finish, observed,
            Phase, OnDevice, TypeInv, TypeOK
    <3>3. CASE PassOverTarget
      BY <1>2, <3>3, LeaveKeepsTypes DEF PassOverTarget, Outcome
    <3>4. CASE \E outcome \in {"no_commands", "blocked"} : RefuseTarget(outcome)
      BY <1>2, <3>4, LeaveKeepsTypes DEF RefuseTarget, Outcome
    <3>5. CASE ClearTarget
      <4>1. Window(rate_window')
        BY <3>1, <3>5 DEF ClearTarget
      <4> QED
        BY <1>2, <3>5, <4>1, MoveTypes
        DEF ClearTarget, observed, Phase, OnDevice, TypeInv, TypeOK
    <3>6. CASE GateOpens
      BY <1>2, <3>1, <3>6, StartKeepsTypes, RecentAppend DEF GateOpens
    <3>7. CASE GateSleeps
      <4>1. Window(rate_window')
        BY <3>1, <3>7 DEF GateSleeps
      <4> QED
        BY <1>2, <3>7, <4>1, MoveTypes
        DEF GateSleeps, observed, Phase, OnDevice, TypeInv, TypeOK
    <3>8. CASE GateWakes
      BY <1>2, <3>1, <3>8, StartKeepsTypes, RecentAppend DEF GateWakes
    <3>9. CASE \E ok \in BOOLEAN : SessionEnds(ok)
      BY <1>2, <3>9, SessionKeepsTypes
    <3> QED
      BY <2>5, <3>2, <3>3, <3>4, <3>5, <3>6, <3>7, <3>8, <3>9 DEF Advance
  <2>6. CASE UNCHANGED vars
    BY <1>2, <2>6 DEF vars, runner, observed, TypeInv, TypeOK, CountInv, OnDevice, Window
  <2> QED
    BY <1>2, <2>1, <2>2, <2>3, <2>4, <2>5, <2>6 DEF Next
<1> QED
  BY <1>1, <1>2

\* Every variable keeps its type, and no counter passes the number of devices.
THEOREM TypeCorrect == Spec => []TypeOK
<1>1. TypeInv => TypeOK
  BY DEF TypeInv
<1> QED
  BY <1>1, TypeSteps, PTL DEF Spec

------------------------------------------------------------------------------
(* The rate limit. *)

\* RateHonoured is not inductive: the sessions of the last minute are those
\* the gate's stamps are in the window for, and a gate that sleeps has as many
\* stamps as the limit, the oldest of which is out when it wakes.
RateInv ==
    Limit > 0 =>
        /\ sessions = Recent(rate_window)
        /\ Len(sessions) <= Limit
        /\ phase = "sleeping" => Len(rate_window) = Limit

\* A step that leaves the stamps alone keeps the invariant.
LEMMA RateStep ==
    ASSUME RateInv, UNCHANGED <<rate_window, sessions>>,
           phase' = "sleeping" => phase = "sleeping"
    PROVE  RateInv'
BY DEF RateInv

\* A session started when fewer than Limit stamps are in the window.
LEMMA StartWithinRate ==
    ASSUME TypeInv, RateInv, Limit > 0, NEW stamps, Window(stamps),
           Recent(stamps) = sessions, Len(sessions) < Limit,
           StartSession(Append(stamps, 0))
    PROVE  RateInv'
<1>1. rate_window' = Append(stamps, 0) /\ sessions' = Append(sessions, 0)
      /\ phase' = "session"
  BY DEF StartSession
<1>2. Recent(Append(stamps, 0)) = Append(sessions, 0)
  BY RecentAppend
<1>3. Window(sessions) /\ Limit \in Nat
  BY RunAssumption DEF TypeInv, CountInv
<1>4. Len(Append(sessions, 0)) = Len(sessions) + 1 /\ Len(sessions) \in Nat
  <2>1. sessions \in Seq(0..Minute) /\ 0 \in 0..Minute
    BY <1>3, WindowFacts
  <2> QED
    BY <2>1, AppendProperties, LenProperties
<1>5. Len(sessions') <= Limit
  BY <1>1, <1>3, <1>4
<1> QED
  BY <1>1, <1>2, <1>5 DEF RateInv

\* Every step keeps the invariant.
LEMMA RateSteps ==
    ASSUME TypeInv, RateInv, [Next]_vars
    PROVE  RateInv'
<1>1. Window(rate_window) /\ Window(sessions) /\ Limit \in Nat
  BY RunAssumption DEF TypeInv, CountInv
<1>2. CASE emergency_stop_now \/ emergency_clear \/ run_real \/ Crash
  BY <1>2, RateStep DEF emergency_stop_now, emergency_clear, run_real, Crash, runner, observed
<1>3. CASE UNCHANGED vars
  BY <1>3, RateStep DEF vars, runner, observed
<1>4. CASE Tick
  <2> SUFFICES ASSUME Limit > 0
               PROVE  RateInv'
    BY DEF RateInv
  <2>1. sessions' = Recent(Older(rate_window)) /\ rate_window' = Older(rate_window)
    BY <1>1, <1>4, RecentOlder DEF Tick, RateInv
  <2>2. Len(rate_window') = Len(rate_window) /\ Len(sessions') <= Len(sessions)
    <3>1. /\ Window(Older(sessions)) /\ Len(Older(sessions)) = Len(sessions)
          /\ Len(Older(rate_window)) = Len(rate_window)
      BY <1>1, OlderWindow
    <3>2. Len(Recent(Older(sessions))) <= Len(Older(sessions))
      BY <3>1, RecentWindow
    <3> QED
      BY <1>4, <3>1, <3>2 DEF Tick
  <2>3. Len(sessions') \in Nat /\ Len(sessions) \in Nat
    <3>1. Window(sessions')
      BY <1>1, <2>1, OlderWindow, RecentWindow
    <3> QED
      BY <1>1, <3>1, WindowFacts
  <2>4. phase' = phase
    BY <1>4 DEF Tick
  <2> QED
    BY <1>1, <2>1, <2>2, <2>3, <2>4 DEF RateInv
<1>5. CASE HaltOnStop \/ HaltOnErrors \/ NextTarget \/ ClearTarget \/ LoopEnds \/ Finish
  BY <1>5, RateStep
  DEF HaltOnStop, HaltOnErrors, NextTarget, ClearTarget, LoopEnds, Finish, observed
<1>6. CASE PassOverTarget \/ \E outcome \in {"no_commands", "blocked"} : RefuseTarget(outcome)
  BY <1>6, RateStep DEF PassOverTarget, RefuseTarget, Leave, observed
<1>7. CASE \E ok \in BOOLEAN : SessionEnds(ok)
  BY <1>7, RateStep DEF SessionEnds, Leave, observed
<1>8. CASE GateOpens
  <2> SUFFICES ASSUME Limit > 0
               PROVE  RateInv'
    BY <1>8 DEF RateInv
  <2>1. /\ Len(Recent(rate_window)) < Limit
        /\ StartSession(Append(Recent(rate_window), 0))
    BY <1>8 DEF GateOpens
  <2>2. /\ Recent(rate_window) = sessions
        /\ Window(Recent(rate_window))
        /\ Recent(Recent(rate_window)) = Recent(rate_window)
    BY <1>1, RecentWindow DEF RateInv
  <2> QED
    BY <2>1, <2>2, StartWithinRate
<1>9. CASE GateSleeps
  <2> SUFFICES ASSUME Limit > 0
               PROVE  RateInv'
    BY DEF RateInv
  <2>1. /\ rate_window' = Recent(rate_window) /\ sessions' = sessions
        /\ Len(Recent(rate_window)) >= Limit
    BY <1>9 DEF GateSleeps, observed
  <2>2. Recent(Recent(rate_window)) = Recent(rate_window)
    BY <1>1, RecentWindow
  <2>3. Len(sessions) = Limit
    BY <1>1, <2>1, WindowFacts DEF RateInv
  <2> QED
    BY <2>1, <2>2, <2>3 DEF RateInv
<1>10. CASE GateWakes
  <2> SUFFICES ASSUME Limit > 0
               PROVE  RateInv'
    BY <1>10 DEF RateInv, GateWakes, StartSession
  <2>1. /\ Head(rate_window) = Minute
        /\ StartSession(Append(rate_window, 0))
        /\ Len(rate_window) = Limit
        /\ Recent(rate_window) = sessions
    BY <1>10 DEF GateWakes, RateInv
  <2>2. rate_window # <<>>
    <3>1. rate_window \in Seq(0..Minute) /\ Len(rate_window) # 0
      BY <1>1, <2>1, WindowFacts
    <3> QED
      BY <3>1
  <2>3. Len(Recent(rate_window)) < Len(rate_window)
    BY <1>1, <2>1, <2>2, RecentWindow
  <2>4. Len(sessions) < Limit
    BY <1>1, <2>1, <2>3, WindowFacts
  <2> QED
    BY <1>1, <2>1, <2>4, StartWithinRate
<1> QED
  BY <1>2, <1>3, <1>4, <1>5, <1>6, <1>7, <1>8, <1>9, <1>10 DEF Next, Advance

\* In no minute does a run start more sessions than its limit.
THEOREM RateLimited == Spec => []RateHonoured
<1>1. Init => RateInv
  <2>1. ASSUME Init
        PROVE  Recent(<<>>) = <<>>
    <3>1. Window(<<>>) /\ Out(<<>>, 0)
      BY DEF Window, Out
    <3>2. Recent(<<>>) = SubSeq(<<>>, 1, 0)
      BY <3>1, RecentKeeps
    <3> QED
      BY <3>2
  <2>2. Len(<<>>) = 0 /\ (Limit > 0 => 0 <= Limit)
    BY RunAssumption
  <2> QED
    BY <2>1, <2>2 DEF Init, RateInv
<1>2. TypeInv /\ RateInv /\ [Next]_vars => RateInv'
  BY RateSteps
<1>3. TypeInv /\ RateInv => RateHonoured
  BY DEF RateInv, RateHonoured
<1> QED
  BY <1>1, <1>2, <1>3, TypeSteps, PTL DEF Spec

------------------------------------------------------------------------------
(* The failure threshold. *)

\* The failed sessions among the targets i to j.
Failed(path, i, j) == {k \in i..j : path[k] = "failed"}

\* ThresholdHonoured speaks of every stretch of the trail; the step that adds
\* to it must know of those that end with the trail.  A stretch without a
\* success that ends there has no more failures than the runner has counted,
\* and a runner at work on a device has counted fewer than the threshold.
StreakInv ==
    /\ \A i \in 1..Len(trail) :
          (\A k \in i..Len(trail) : trail[k] # "ok") =>
              Cardinality(Failed(trail, i, Len(trail))) <= consec_failures
    /\ Threshold > 0 => /\ consec_failures <= Threshold
                        /\ phase \in OnDevice => consec_failures < Threshold

ThresholdInv == StreakInv /\ ThresholdHonoured

\* A step that leaves the trail and the count alone keeps the invariant.
LEMMA StreakStep ==
    ASSUME ThresholdInv, UNCHANGED <<trail, consec_failures>>,
           phase' \in OnDevice => phase \in OnDevice
                                  \/ (Threshold > 0 => consec_failures < Threshold)
    PROVE  ThresholdInv'
BY DEF ThresholdInv, StreakInv, ThresholdHonoured, Failed

\* A stretch of numbers has finitely many failures among them.
LEMMA FailedFinite ==
    ASSUME NEW path, NEW i \in Int, NEW j \in Int
    PROVE  /\ IsFiniteSet(Failed(path, i, j))
           /\ Cardinality(Failed(path, i, j)) \in Nat
<1>1. IsFiniteSet(i..j) /\ Failed(path, i, j) \subseteq i..j
  BY FS_Interval DEF Failed
<1> QED
  BY <1>1, FS_Subset, FS_CardinalityType

\* One more outcome adds at most itself to the failures.
LEMMA FailedAppend ==
    ASSUME NEW path \in Seq(Outcome), NEW outcome \in Outcome,
           NEW i \in 1..(Len(path) + 1)
    PROVE  Failed(Append(path, outcome), i, Len(path) + 1)
               = IF outcome = "failed" THEN Failed(path, i, Len(path)) \cup {Len(path) + 1}
                                       ELSE Failed(path, i, Len(path))
<1>1. /\ Len(path) \in Nat
      /\ \A k \in 1..Len(path) : Append(path, outcome)[k] = path[k]
      /\ Append(path, outcome)[Len(path) + 1] = outcome
  BY AppendProperties, LenProperties
<1>2. \A k : k \in i..(Len(path) + 1) <=> k \in i..Len(path) \/ k = Len(path) + 1
  BY <1>1
<1>3. \A k \in i..Len(path) : k \in 1..Len(path) /\ k # Len(path) + 1
  BY <1>1
<1> DEFINE more == Append(path, outcome)
<1>4. \A k \in i..Len(path) : more[k] = path[k]
  BY <1>1, <1>3
<1> HIDE DEF more
<1>5. more[Len(path) + 1] = outcome
  BY <1>1 DEF more
<1>6. Failed(more, i, Len(path) + 1)
          = IF outcome = "failed" THEN Failed(path, i, Len(path)) \cup {Len(path) + 1}
                                  ELSE Failed(path, i, Len(path))
  BY <1>2, <1>3, <1>4, <1>5 DEF Failed
<1> QED
  BY <1>6 DEF more

\* Leaving a target keeps the invariant when the count is kept or grows with
\* a failure, and when a success starts it again.
LEMMA LeaveStreak ==
    ASSUME TypeInv, ThresholdInv, phase \in OnDevice,
           NEW outcome \in Outcome, Leave(outcome),
           consec_failures' = IF outcome = "ok" THEN 0
                              ELSE IF outcome = "failed" THEN consec_failures + 1
                              ELSE consec_failures
    PROVE  ThresholdInv'
<1>1. /\ trail \in Seq(Outcome) /\ Len(trail) \in Nat
      /\ consec_failures \in Nat /\ Threshold \in Nat
  BY CountFacts
<1> DEFINE n == Len(trail) + 1
<1>2. /\ trail' = Append(trail, outcome)
      /\ Len(trail') = n
      /\ DOMAIN trail' = 1..n
      /\ \A k \in 1..Len(trail) : trail'[k] = trail[k]
      /\ trail'[n] = outcome
      /\ phase' = "loop"
  <2>1. /\ Append(trail, outcome) \in Seq(Outcome)
        /\ Len(Append(trail, outcome)) = n
        /\ \A k \in 1..Len(trail) : Append(trail, outcome)[k] = trail[k]
        /\ Append(trail, outcome)[n] = outcome
    BY <1>1, AppendProperties
  <2>2. trail' = Append(trail, outcome) /\ phase' = "loop"
    BY DEF Leave
  <2> QED
    BY <2>1, <2>2, LenProperties
<1>3. n \in 1..n /\ n \in Nat
  BY <1>1
<1>4. Threshold > 0 => consec_failures < Threshold
  BY DEF ThresholdInv, StreakInv
<1>5. Threshold > 0 => consec_failures' <= Threshold
  BY <1>1, <1>4
<1>6. ASSUME NEW i \in 1..n, \A k \in i..n : trail'[k] # "ok"
      PROVE  Cardinality(Failed(trail', i, n)) <= consec_failures'
  <2>1. outcome # "ok" /\ i \in Nat /\ i <= n
    BY <1>1, <1>2, <1>6
  <2>2. /\ IsFiniteSet(Failed(trail, i, Len(trail)))
        /\ Cardinality(Failed(trail, i, Len(trail))) \in Nat
    BY <1>1, <2>1, FailedFinite
  <2>3. Cardinality(Failed(trail, i, Len(trail))) <= consec_failures
    <3>1. CASE i = n
      <4>1. Failed(trail, i, Len(trail)) = {}
        BY <1>1, <3>1 DEF Failed
      <4> QED
        BY <1>1, <4>1, FS_EmptySet
    <3>2. CASE i # n
      <4>1. i \in 1..Len(trail)
        BY <1>1, <2>1, <3>2
      <4>2. \A k \in i..Len(trail) : k \in i..n /\ k \in 1..Len(trail)
        BY <1>1, <4>1
      <4>3. \A k \in i..Len(trail) : trail[k] # "ok"
        BY <1>2, <1>6, <4>2
      <4> QED
        BY <4>1, <4>3 DEF ThresholdInv, StreakInv
    <3> QED
      BY <3>1, <3>2
  <2>4. CASE outcome = "failed"
    <3>1. Failed(trail', i, n) = Failed(trail, i, Len(trail)) \cup {n}
      BY <1>1, <1>2, <2>4, FailedAppend
    <3>2. n \notin Failed(trail, i, Len(trail))
      BY <1>1 DEF Failed
    <3>3. Cardinality(Failed(trail', i, n)) = Cardinality(Failed(trail, i, Len(trail))) + 1
      BY <2>2, <3>1, <3>2, FS_AddElement
    <3> QED
      BY <1>1, <2>2, <2>3, <2>4, <3>3
  <2>5. CASE outcome # "failed"
    <3>1. Failed(trail', i, n) = Failed(trail, i, Len(trail))
      BY <1>1, <1>2, <2>5, FailedAppend
    <3> QED
      BY <2>1, <2>3, <2>5, <3>1
  <2> QED
    BY <2>4, <2>5
<1>7. StreakInv'
  <2>1. phase' \notin OnDevice
    BY <1>2 DEF OnDevice
  <2>2. \A i \in 1..Len(trail') :
            (\A k \in i..Len(trail') : trail'[k] # "ok") =>
                Cardinality(Failed(trail', i, Len(trail'))) <= consec_failures'
    BY <1>2, <1>6
  <2> QED
    BY <1>5, <2>1, <2>2 DEF StreakInv
<1>8. ThresholdHonoured'
  <2> SUFFICES ASSUME Threshold > 0, NEW i \in 1..n, NEW j \in 1..n,
                      \A k \in i..j : trail'[k] # "ok"
               PROVE  Cardinality(Failed(trail', i, j)) <= Threshold
    BY <1>2 DEF ThresholdHonoured, Failed
  <2>1. CASE j = n
    <3>1. Cardinality(Failed(trail', i, n)) <= consec_failures'
      BY <1>6, <2>1
    <3>2. Cardinality(Failed(trail', i, n)) \in Nat
      BY <1>3, FailedFinite
    <3>3. consec_failures' \in Nat
      BY <1>1
    <3> QED
      BY <1>1, <1>5, <2>1, <3>1, <3>2, <3>3
  <2>2. CASE i = n /\ j # n
    <3>1. Failed(trail', i, j) = {}
      BY <1>1, <2>2 DEF Failed
    <3> QED
      BY <1>1, <3>1, FS_EmptySet
  <2>3. CASE i # n /\ j # n
    <3>1. /\ i \in 1..Len(trail) /\ j \in 1..Len(trail)
          /\ \A k \in i..j : k \in 1..Len(trail)
      BY <1>1, <2>3
    <3>2. \A k \in i..j : trail[k] = trail'[k]
      BY <1>2, <3>1
    <3>3. Failed(trail', i, j) = {k \in i..j : trail[k] = "failed"}
      BY <3>2 DEF Failed
    <3>4. i \in DOMAIN trail /\ j \in DOMAIN trail
      BY <1>1, <3>1, LenProperties
    <3> QED
      BY <3>2, <3>3, <3>4 DEF ThresholdInv, ThresholdHonoured
  <2> QED
    BY <2>1, <2>2, <2>3
<1> QED
  BY <1>7, <1>8 DEF ThresholdInv

\* Every step keeps the invariant.
LEMMA StreakSteps ==
    ASSUME TypeInv, ThresholdInv, [Next]_vars
    PROVE  ThresholdInv'
<1>1. CASE emergency_stop_now \/ emergency_clear \/ Tick \/ run_real \/ Crash
  BY <1>1, StreakStep
  DEF emergency_stop_now, emergency_clear, Tick, run_real, Crash, runner, OnDevice
<1>2. CASE UNCHANGED vars
  BY <1>2, StreakStep DEF vars, runner
<1>3. CASE HaltOnStop \/ HaltOnErrors \/ ClearTarget \/ LoopEnds \/ Finish
  BY <1>3, StreakStep
  DEF HaltOnStop, HaltOnErrors, ClearTarget, LoopEnds, Finish, OnDevice
<1>4. CASE NextTarget
  <2>1. Threshold > 0 => consec_failures < Threshold
    BY <1>4, CountFacts DEF NextTarget, TooManyFailures
  <2> QED
    BY <1>4, <2>1, StreakStep DEF NextTarget
<1>5. CASE GateOpens \/ GateSleeps \/ GateWakes
  BY <1>5, StreakStep DEF GateOpens, GateSleeps, GateWakes, StartSession, OnDevice
<1>6. CASE PassOverTarget
  BY <1>6, LeaveStreak DEF PassOverTarget, OnDevice, Outcome
<1>7. CASE \E outcome \in {"no_commands", "blocked"} : RefuseTarget(outcome)
  BY <1>7, LeaveStreak DEF RefuseTarget, OnDevice, Outcome
<1>8. CASE \E ok \in BOOLEAN : SessionEnds(ok)
  <2>1. PICK ok \in BOOLEAN : SessionEnds(ok)
    BY <1>8
  <2> DEFINE outcome == IF ok THEN "ok" ELSE "failed"
  <2>2. /\ phase \in OnDevice /\ outcome \in Outcome /\ Leave(outcome)
        /\ consec_failures' = IF outcome = "ok" THEN 0
                              ELSE IF outcome = "failed" THEN consec_failures + 1
                              ELSE consec_failures
    BY <2>1 DEF SessionEnds, OnDevice, Outcome
  <2> HIDE DEF outcome
  <2> QED
    BY <2>2, LeaveStreak
<1> QED
  BY <1>1, <1>2, <1>3, <1>4, <1>5, <1>6, <1>7, <1>8 DEF Next, Advance

\* No stretch of the trail without a success has more failures than the
\* threshold.
THEOREM ThresholdKept == Spec => []ThresholdHonoured
<1>1. Init => ThresholdInv
  BY RunAssumption DEF Init, ThresholdInv, StreakInv, ThresholdHonoured, OnDevice
<1>2. TypeInv /\ ThresholdInv /\ [Next]_vars => ThresholdInv'
  BY StreakSteps
<1>3. ThresholdInv => ThresholdHonoured
  BY DEF ThresholdInv
<1> QED
  BY <1>1, <1>2, <1>3, TypeSteps, PTL DEF Spec

-------------------------------------------------------------------------------
(* How far a run is from its end: the safety half of RunEnds. *)

\* The most steps the runner can take from a phase without another target.
StepsOf ==
    [p \in Phase |->
        CASE p = "ready" -> 7
          [] p = "loop" -> 6
          [] p = "target" -> 5
          [] p = "gate" -> 4
          [] p = "sleeping" -> 3
          [] p = "session" -> 2
          [] p = "finish" -> 1
          [] p \in {"ended", "dead"} -> 0]

\* The most steps the runner can still take.
StepsLeft == 6 * (Targets - Len(trail)) + StepsOf[phase]

\* Nothing leads a run back: every step of the runner, and its death, bring it
\* nearer its end, and while it sleeps every tick ages the stamp it sleeps for.
Onward ==
    /\ StepsLeft' <= StepsLeft
    /\ Advance \/ Crash => StepsLeft' < StepsLeft
    /\ Tick /\ phase = "sleeping" =>
          Head(rate_window') = Min({Head(rate_window) + 1, Minute})

\* A gate that sleeps, sleeps for a stamp.
SleepInv == phase = "sleeping" => rate_window # <<>>

LEMMA SleepSteps ==
    ASSUME TypeInv, SleepInv, [Next]_vars
    PROVE  SleepInv'
<1>1. CASE GateSleeps
  <2>1. Window(rate_window)
    BY DEF TypeInv, CountInv
  <2>2. rate_window' \in Seq(Nat) /\ Len(rate_window') >= Limit /\ Limit > 0 /\ Limit \in Nat
    BY <1>1, <2>1, RecentWindow, WindowFacts, RunAssumption DEF GateSleeps
  <2> QED
    BY <2>2 DEF SleepInv
<1>2. CASE Tick
  BY <1>2 DEF Tick, SleepInv, Older
<1>3. CASE emergency_stop_now \/ emergency_clear \/ UNCHANGED vars
  BY <1>3 DEF emergency_stop_now, emergency_clear, vars, runner, SleepInv
<1>4. CASE run_real \/ HaltOnStop \/ HaltOnErrors \/ NextTarget \/ ClearTarget \/ LoopEnds
           \/ Finish \/ Crash
  BY <1>4 DEF run_real, HaltOnStop, HaltOnErrors, NextTarget, ClearTarget, LoopEnds,
              Finish, Crash, SleepInv
<1>5. CASE PassOverTarget \/ GateOpens \/ GateWakes
           \/ (\E outcome \in {"no_commands", "blocked"} : RefuseTarget(outcome))
           \/ \E ok \in BOOLEAN : SessionEnds(ok)
  BY <1>5 DEF PassOverTarget, GateOpens, GateWakes, StartSession, RefuseTarget,
              SessionEnds, Leave, SleepInv
<1> QED
  BY <1>1, <1>2, <1>3, <1>4, <1>5 DEF Next, Advance

\* How many steps are left is a number.
LEMMA LeftBounds ==
    ASSUME TypeInv
    PROVE  StepsLeft \in Nat
<1>1. StepsOf[phase] \in Nat
  BY DEF StepsOf, Phase, TypeInv, TypeOK
<1>2. Targets - Len(trail) \in Nat
  BY CountFacts
<1> QED
  BY <1>1, <1>2 DEF StepsLeft

\* So is how many are left after a step.
LEMMA LeftNext == TypeInv /\ [Next]_vars => (StepsLeft \in Nat)'
<1>1. TypeInv => StepsLeft \in Nat
  BY LeftBounds
<1> QED
  BY <1>1, TypeSteps, PTL

\* A step that leaves the trail alone and moves to a phase nearer the end.
LEMMA NearerPhase ==
    ASSUME TypeInv, trail' = trail, phase' \in Phase, StepsOf[phase'] < StepsOf[phase]
    PROVE  StepsLeft' < StepsLeft
<1>1. StepsOf[phase] \in Nat /\ StepsOf[phase'] \in Nat
  BY DEF StepsOf, Phase, TypeInv, TypeOK
<1>2. Targets - Len(trail) \in Int
  BY CountFacts
<1> QED
  BY <1>1, <1>2 DEF StepsLeft

\* A step that leaves a target, which has at most five steps.
LEMMA NearerTarget ==
    ASSUME TypeInv, phase \in OnDevice, NEW outcome \in Outcome, Leave(outcome)
    PROVE  StepsLeft' < StepsLeft
<1>1. Len(trail') = Len(trail) + 1
  BY CountFacts DEF Leave
<1>2. StepsOf[phase] >= 2 /\ StepsOf[phase] \in Nat /\ StepsOf[phase'] = 6
  <2>1. phase \in {"target", "gate", "sleeping", "session"}
    BY DEF OnDevice
  <2>2. /\ StepsOf["target"] = 5 /\ StepsOf["gate"] = 4 /\ StepsOf["sleeping"] = 3
        /\ StepsOf["session"] = 2 /\ StepsOf["loop"] = 6
    BY DEF StepsOf, Phase
  <2>3. phase' = "loop"
    BY DEF Leave
  <2> QED
    BY <2>1, <2>2, <2>3
<1>3. Targets - Len(trail) \in Int /\ Targets - Len(trail') = (Targets - Len(trail)) - 1
  BY <1>1, CountFacts
<1> QED
  BY <1>2, <1>3 DEF StepsLeft

\* Every step of the runner, and its death, bring it nearer its end.
LEMMA AdvanceNearer ==
    ASSUME TypeInv, Advance \/ Crash \/ run_real
    PROVE  StepsLeft' < StepsLeft
<1>1. CASE HaltOnStop \/ HaltOnErrors \/ NextTarget \/ LoopEnds
  BY <1>1, NearerPhase DEF HaltOnStop, HaltOnErrors, NextTarget, LoopEnds, StepsOf, Phase
<1>2. CASE ClearTarget \/ GateOpens \/ GateSleeps \/ GateWakes
  BY <1>2, NearerPhase DEF ClearTarget, GateOpens, GateSleeps, GateWakes, StartSession,
                           StepsOf, Phase
<1>3. CASE Finish \/ Crash \/ run_real
  BY <1>3, NearerPhase DEF Finish, Crash, run_real, StepsOf, Phase, TypeInv, TypeOK
<1>4. CASE PassOverTarget \/ \E outcome \in {"no_commands", "blocked"} : RefuseTarget(outcome)
  BY <1>4, NearerTarget DEF PassOverTarget, RefuseTarget, OnDevice, Outcome
<1>5. CASE \E ok \in BOOLEAN : SessionEnds(ok)
  BY <1>5, NearerTarget DEF SessionEnds, OnDevice, Outcome
<1> QED
  BY <1>1, <1>2, <1>3, <1>4, <1>5 DEF Advance

\* A step of the flag or the clock leaves the runner where it is.
LEMMA StaysPut ==
    ASSUME TypeInv, trail' = trail, phase' = phase
    PROVE  StepsLeft' <= StepsLeft
<1>1. StepsLeft \in Nat
  BY LeftBounds
<1>2. StepsLeft' = StepsLeft
  BY DEF StepsLeft
<1> QED
  BY <1>1, <1>2

\* A run has a bounded number of steps before it, each takes it nearer its
\* end, and the gate's sleep is used up tick by tick: whatever the flag, the
\* clock and the devices do, no run of the loop can go on for ever.
THEOREM RunMovesOn == Spec => [][Onward]_vars
<1>1. Init => SleepInv
  BY DEF Init, SleepInv
<1>2. TypeInv /\ SleepInv /\ [Next]_vars => SleepInv'
  BY SleepSteps
<1>3. TypeInv /\ SleepInv /\ [Next]_vars => [Onward]_vars
  <2> SUFFICES ASSUME TypeInv, SleepInv, Next
               PROVE  Onward
    OBVIOUS
  <2>1. Advance \/ Crash => StepsLeft' < StepsLeft
    BY AdvanceNearer
  <2>2. StepsLeft' <= StepsLeft
    <3>1. CASE Advance \/ Crash \/ run_real
      <4>1. StepsLeft \in Nat /\ StepsLeft' \in Nat
        BY LeftBounds, LeftNext
      <4> QED
        BY <3>1, <4>1, AdvanceNearer
    <3>2. CASE emergency_stop_now \/ emergency_clear \/ Tick
      BY <3>2, StaysPut DEF emergency_stop_now, emergency_clear, Tick, runner
    <3> QED
      BY <3>1, <3>2 DEF Next
  <2>3. ASSUME Tick, phase = "sleeping"
        PROVE  Head(rate_window') = Min({Head(rate_window) + 1, Minute})
    <3>1. rate_window \in Seq(0..Minute) /\ rate_window # <<>>
      BY <2>3 DEF SleepInv, TypeInv, TypeOK
    <3>2. 1 \in DOMAIN rate_window /\ Head(rate_window) = rate_window[1]
      BY <3>1
    <3>3. rate_window' = Older(rate_window)
      BY <2>3 DEF Tick
    <3>4. Older(rate_window)[1] = Min({rate_window[1] + 1, Minute})
      BY <3>2 DEF Older
    <3> QED
      BY <3>1, <3>2, <3>3, <3>4 DEF Older
  <2> QED
    BY <2>1, <2>2, <2>3 DEF Onward
<1> QED
  BY <1>1, <1>2, <1>3, TypeSteps, PTL DEF Spec

==============================================================================
