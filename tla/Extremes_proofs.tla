-------------------------- MODULE Extremes_proofs --------------------------
(***************************************************************************)
(* Least and greatest elements: the facts about Min and Max of             *)
(* FiniteSetsExt that the other proofs use.                                *)
(***************************************************************************)
EXTENDS FiniteSetsExt, FiniteSetTheorems, WellFoundedInduction, TLAPS

\* The least-number principle, from the well-foundedness of strict inclusion.
LEMMA NatSetMin ==
  ASSUME NEW S \in SUBSET Nat, S # {}
  PROVE  Min(S) \in S /\ \A x \in S : Min(S) <= x
<1> DEFINE T == {0..x : x \in S}
<1>1. T \subseteq FiniteSubsetsOf(Nat)
  <2> SUFFICES ASSUME NEW x \in S PROVE 0..x \in FiniteSubsetsOf(Nat)
    OBVIOUS
  <2>1. x \in Int /\ 0 \in Int /\ 0..x \subseteq Nat
    OBVIOUS
  <2>2. IsFiniteSet(0..x)
    BY <2>1, FS_Interval
  <2> QED BY <2>1, <2>2 DEF FiniteSubsetsOf
<1>2. T # {}
  BY Zenon
<1>3. PICK t \in T : \A y \in T : ~(<<y, t>> \in StrictSubsetOrdering(Nat))
  BY Zenon, <1>1, <1>2, FS_StrictSubsetOrderingWellFounded, WFMin
<1>4. PICK m \in S : t = 0..m
  BY <1>3
<1>5. ASSUME NEW x \in S, x < m
      PROVE  FALSE
  <2>1. 0..x \in T
    OBVIOUS
  <2>2. 0..x \subseteq 0..m /\ 0..x # 0..m
    <3>1. m \in 0..m /\ m \notin 0..x
      BY <1>5
    <3> QED BY <1>5, <3>1
  <2>3. <<0..x, 0..m>> \in StrictSubsetOrdering(Nat)
    BY <2>2 DEF StrictSubsetOrdering
  <2> QED BY Zenon, <1>3, <1>4, <2>1, <2>3
<1>6. \A x \in S : m <= x
  BY <1>5
<1> QED BY Zenon, <1>6 DEF Min

\* The greatest element of a bounded set of naturals.
LEMMA NatSetMax ==
  ASSUME NEW S \in SUBSET Nat, S # {}, NEW n \in Nat, \A x \in S : x <= n
  PROVE  Max(S) \in S /\ \A x \in S : x <= Max(S)
<1> DEFINE T == {n - x : x \in S}
<1>1. T \in SUBSET Nat /\ T # {}
  <2>1. \A x \in S : n - x \in Nat
    OBVIOUS
  <2>2. PICK x \in S : TRUE
    BY Zenon
  <2> QED BY Zenon, <2>1, <2>2
<1>2. Min(T) \in T /\ \A y \in T : Min(T) <= y
  BY Zenon, <1>1, NatSetMin
<1>3. PICK m \in S : Min(T) = n - m
  BY Zenon, <1>2
<1>4. \A x \in S : m >= x
  <2> SUFFICES ASSUME NEW x \in S PROVE m >= x
    OBVIOUS
  <2>1. n - x \in T
    OBVIOUS
  <2>2. n - m <= n - x
    BY Zenon, <2>1, <1>2, <1>3
  <2> QED BY <2>2
<1> QED BY Zenon, <1>4 DEF Max

\* The smaller of two numbers, as std::min in addPermission.
LEMMA PairMin ==
  ASSUME NEW x \in Nat, NEW y \in Nat
  PROVE  Min({x, y}) = IF x <= y THEN x ELSE y
<1>1. {x, y} \in SUBSET Nat /\ {x, y} # {}
  OBVIOUS
<1>2. Min({x, y}) \in {x, y} /\ \A z \in {x, y} : Min({x, y}) <= z
  BY <1>1, NatSetMin
<1> QED BY <1>2

\* The larger of two numbers, as std::max in addPermission.
LEMMA PairMax ==
  ASSUME NEW x \in Nat, NEW y \in Nat
  PROVE  Max({x, y}) = IF x >= y THEN x ELSE y
<1>1. {x, y} \in SUBSET Nat /\ {x, y} # {} /\ \A z \in {x, y} : z <= x + y
  OBVIOUS
<1>2. Max({x, y}) \in {x, y} /\ \A z \in {x, y} : z <= Max({x, y})
  BY <1>1, NatSetMax
<1> QED BY <1>2
=============================================================================
