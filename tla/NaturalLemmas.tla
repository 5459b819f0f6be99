----------------------------- MODULE NaturalLemmas -----------------------------
(***************************************************************************)
(* Induction over the naturals in a form that needs no operator parameter: *)
(* a set of naturals that is not empty has a least element.                *)
(***************************************************************************)
EXTENDS Integers, FiniteSetTheorems, WellFoundedInduction, TLAPS

\* Every set of naturals with an element has a least one: its parts up to an
\* element are finite, so one of them has no smaller part.
LEMMA LeastNumber ==
    ASSUME NEW S \in SUBSET Nat, S # {}
    PROVE  \E m \in S : \A x \in S : m <= x
<1> DEFINE UpTo(y) == {x \in S : x <= y}
           T == {UpTo(y) : y \in S}
<1>1. ASSUME NEW y \in S
      PROVE  UpTo(y) \in FiniteSubsetsOf(S)
  <2>1. y \in Nat /\ UpTo(y) \in SUBSET Nat /\ \A x \in UpTo(y) : x <= y
    OBVIOUS
  <2>2. IsFiniteSet(UpTo(y))
    <3> HIDE DEF UpTo
    <3> QED
      BY <2>1, FS_BoundedSetOfNaturals
  <2> QED
    BY <2>2 DEF FiniteSubsetsOf
<1>2. T \subseteq FiniteSubsetsOf(S) /\ T # {}
  BY <1>1
<1>3. PICK U \in T : \A V \in T : ~ (<<V, U>> \in StrictSubsetOrdering(S))
  <2> HIDE DEF T
  <2> QED
    BY <1>2, FS_StrictSubsetOrderingWellFounded, WFMin
<1>4. PICK m \in S : U = UpTo(m)
  BY <1>3
<1>5. ASSUME NEW x \in S, x < m
      PROVE  FALSE
  <2>1. UpTo(x) \in T
    OBVIOUS
  <2>2. UpTo(x) \subseteq UpTo(m)
    <3>1. x \in Nat /\ m \in Nat /\ \A y \in S : y \in Nat
      OBVIOUS
    <3>2. ASSUME NEW y \in S, y <= x
          PROVE  y <= m
      BY <1>5, <3>1, <3>2
    <3> QED
      BY <3>2
  <2>3. m \in UpTo(m) /\ m \notin UpTo(x)
    BY <1>5
  <2>4. <<UpTo(x), UpTo(m)>> \in StrictSubsetOrdering(S)
    <3>1. UpTo(x) \in SUBSET S /\ UpTo(m) \in SUBSET S
      OBVIOUS
    <3> HIDE DEF UpTo
    <3> QED
      BY <2>2, <2>3, <3>1 DEF StrictSubsetOrdering
  <2> QED
    BY <1>3, <1>4, <2>1, <2>4
<1> QED
  BY <1>5
==============================================================================
