------------------------- MODULE Permissions_proofs -------------------------
(***************************************************************************)
(* What addPermission, revokePermission and hasPermission do to a          *)
(* permission vector, proved for vectors of every length and every range.  *)
(* The vectors are arbitrary: nothing is assumed about their order, so the *)
(* results also cover the overlapping vectors that addPermission builds.   *)
(***************************************************************************)
EXTENDS Permissions, Extremes_proofs, SequenceTheorems

\* Every bounded set of naturals can be listed in ascending order.
LEMMA AscendingType ==
  ASSUME NEW n \in Nat, NEW S \in SUBSET (0..n)
  PROVE  /\ Cardinality(S) \in Nat
         /\ Ascending(S) \in [1..Cardinality(S) -> S]
<1> DEFINE Sorted(Q) == \E f \in [1..Cardinality(Q) -> Q] :
             \A i, j \in 1..Cardinality(Q) : i < j => f[i] < f[j]
           T == {Q \in SUBSET (0..n) : ~Sorted(Q)}
<1>0. IsFiniteSet(0..n) /\ FiniteSubsetsOf(0..n) = SUBSET (0..n)
  <2>1. IsFiniteSet(0..n)
    BY FS_Interval
  <2> QED BY <2>1, FS_FiniteSubsetsOfFinite
<1>1. T = {}
  <2> SUFFICES ASSUME T # {} PROVE FALSE
    OBVIOUS
  <2>1. T \subseteq FiniteSubsetsOf(0..n)
    BY <1>0
  <2> HIDE DEF T
  <2>2. PICK Q \in T : \A R \in T : ~(<<R, Q>> \in StrictSubsetOrdering(0..n))
    BY <2>1, FS_StrictSubsetOrderingWellFounded, WFMin
  <2> USE DEF T
  <2>3. Q \in SUBSET (0..n) /\ IsFiniteSet(Q) /\ ~Sorted(Q)
    BY Zenon, <2>2, <1>0, FS_Subset
  <2>4. CASE Q = {}
    <3>1. Cardinality(Q) = 0 /\ 1..0 = {}
      BY <2>4, FS_EmptySet
    <3>2. [i \in 1..0 |-> 0] \in [1..Cardinality(Q) -> Q]
      BY <3>1
    <3> QED BY Zenon, <2>3, <3>1, <3>2
  <2>5. CASE Q # {}
    <3> DEFINE m == Max(Q)
               R == Q \ {m}
    <3>0. \A x \in Q : x \in Nat
      BY <2>3
    <3>1. m \in Q /\ \A x \in Q : x <= m
      <4>1. Q \in SUBSET Nat /\ \A x \in Q : x <= n
        BY <2>3
      <4> HIDE DEF T
      <4> QED BY Zenon, <4>1, <2>5, NatSetMax
    <3> HIDE DEF m
    <3>2. IsFiniteSet(R) /\ Cardinality(R) = Cardinality(Q) - 1
      BY <2>3, <3>1, FS_RemoveElement
    <3>3. Cardinality(Q) \in Nat /\ Cardinality(R) \in Nat
      BY <2>3, <3>2, FS_CardinalityType
    <3>4. Sorted(R)
      <4>1. <<R, Q>> \in StrictSubsetOrdering(0..n)
        BY Zenon, <2>3, <3>1 DEF StrictSubsetOrdering
      <4>2. R \notin T
        BY Zenon, <2>2, <4>1
      <4> QED BY Zenon, <4>2, <2>3
    <3>5. PICK f \in [1..Cardinality(R) -> R] :
             \A i, j \in 1..Cardinality(R) : i < j => f[i] < f[j]
      BY Zenon, <3>4
    <3> DEFINE c == Cardinality(Q)
               g == [i \in 1..c |-> IF i = c THEN m ELSE f[i]]
    <3> HIDE DEF T, Sorted
    <3>6. \A i \in 1..c : i # c => i \in 1..Cardinality(R) /\ g[i] = f[i] /\ f[i] \in R
      <4> SUFFICES ASSUME NEW i \in 1..c, i # c
                   PROVE  i \in 1..Cardinality(R) /\ g[i] = f[i] /\ f[i] \in R
        OBVIOUS
      <4>1. i \in 1..Cardinality(R)
        BY <3>2, <3>3
      <4> QED BY Zenon, <4>1, <3>5
    <3>7. g \in [1..c -> Q]
      BY Zenon, <3>1, <3>5, <3>6
    <3>8. \A i, j \in 1..c : i < j => g[i] < g[j]
      <4> SUFFICES ASSUME NEW i \in 1..c, NEW j \in 1..c, i < j
                   PROVE  g[i] < g[j]
        BY Zenon
      <4>1. i # c
        BY <3>3
      <4>2. CASE j = c
        <5>1. g[i] \in Q /\ g[i] # m /\ g[j] = m
          BY Zenon, <4>1, <4>2, <3>6
        <5> HIDE DEF g, R
        <5>2. g[i] <= m /\ g[i] \in Nat /\ m \in Nat
          BY <5>1, <3>1, <3>0
        <5> QED BY <5>1, <5>2
      <4>3. CASE j # c
        <5>1. i \in 1..Cardinality(R) /\ j \in 1..Cardinality(R)
          BY Zenon, <4>1, <4>3, <3>6
        <5>2. g[i] = f[i] /\ g[j] = f[j]
          BY <4>1, <4>3, <3>6
        <5> QED BY Zenon, <5>1, <5>2, <3>5
      <4> QED BY <4>2, <4>3
    <3> QED BY Zenon, <2>3, <3>7, <3>8 DEF Sorted
  <2> QED BY <2>4, <2>5
<1>2. Sorted(S)
  BY Zenon, <1>1
<1>3. Cardinality(S) \in Nat
  BY Zenon, <1>0, FS_Subset, FS_CardinalityType
<1> QED BY <1>2, <1>3 DEF Ascending

-----------------------------------------------------------------------------
\* The elements of a concatenation.
LEMMA ConcatElements ==
  ASSUME NEW P, NEW a \in Seq(P), NEW b \in Seq(P)
  PROVE  /\ a \o b \in Seq(P)
         /\ Len(a \o b) = Len(a) + Len(b)
         /\ \A i \in 1..Len(a) : (a \o b)[i] = a[i]
         /\ \A i \in 1..Len(b) : (a \o b)[Len(a) + i] = b[i]
<1>1. Len(a) \in Nat /\ Len(b) \in Nat
  BY LenProperties
<1>2. a \o b \in Seq(P) /\ Len(a \o b) = Len(a) + Len(b)
  BY ConcatProperties
<1>3. \A i \in 1..Len(a) : (a \o b)[i] = a[i]
  BY <1>1
<1>4. \A i \in 1..Len(b) : (a \o b)[Len(a) + i] = b[i]
  BY <1>1
<1> QED BY <1>2, <1>3, <1>4

\* Every entry of new comes from a, at the same place, or from b.
FromParts(new, a, b) ==
  \A i \in 1..Len(new) : \/ i \in 1..Len(a) /\ new[i] = a[i]
                         \/ \E j \in 1..Len(b) : new[i] = b[j]

\* An element of a concatenation comes from one of its parts.
LEMMA ConcatOrigin ==
  ASSUME NEW P, NEW a \in Seq(P), NEW b \in Seq(P)
  PROVE  FromParts(a \o b, a, b)
<1> SUFFICES ASSUME NEW i \in 1..Len(a \o b)
             PROVE  \/ i \in 1..Len(a) /\ (a \o b)[i] = a[i]
                    \/ \E j \in 1..Len(b) : (a \o b)[i] = b[j]
  BY DEF FromParts
<1>1. Len(a) \in Nat /\ Len(b) \in Nat
  BY LenProperties
<1>2. CASE i <= Len(a)
  <2>1. i \in 1..Len(a)
    BY <1>1, <1>2, ConcatElements
  <2> QED BY <2>1, ConcatElements
<1>3. CASE i > Len(a)
  <2>1. i - Len(a) \in 1..Len(b) /\ i = Len(a) + (i - Len(a))
    BY <1>1, <1>3, ConcatElements
  <2> QED BY <2>1, ConcatElements
<1> QED BY <1>1, <1>2, <1>3

\* Every entry of part is in new.
Includes(new, part) ==
  \A j \in 1..Len(part) : \E i \in 1..Len(new) : new[i] = part[j]

\* A concatenation holds every element of its parts.
LEMMA ConcatIncludes ==
  ASSUME NEW P, NEW a \in Seq(P), NEW b \in Seq(P)
  PROVE  Includes(a \o b, a) /\ Includes(a \o b, b)
<1>1. Len(a) \in Nat /\ Len(b) \in Nat
  BY LenProperties
<1>2. ASSUME NEW j \in 1..Len(a)
      PROVE  \E i \in 1..Len(a \o b) : (a \o b)[i] = a[j]
  <2>1. j \in 1..Len(a \o b) /\ (a \o b)[j] = a[j]
    BY <1>1, ConcatElements
  <2> QED BY <2>1
<1>3. ASSUME NEW j \in 1..Len(b)
      PROVE  \E i \in 1..Len(a \o b) : (a \o b)[i] = b[j]
  <2>1. Len(a) + j \in 1..Len(a \o b)
    BY <1>1, ConcatElements
  <2>2. (a \o b)[Len(a) + j] = b[j]
    BY <1>1, ConcatElements
  <2> QED BY <2>1, <2>2
<1> QED BY <1>2, <1>3 DEF Includes

(***************************************************************************)
(* new holds the entries of perms outside s..e and those of mid, no other. *)
(***************************************************************************)
Spliced(new, perms, s, e, mid) ==
  /\ \A i \in 1..Len(new) :
       \/ \E j \in 1..Len(mid) : new[i] = mid[j]
       \/ \E j \in 1..Len(perms) : (j < s \/ j > e) /\ new[i] = perms[j]
  /\ \A j \in 1..Len(mid) : \E i \in 1..Len(new) : new[i] = mid[j]

\* Splice does what its name says.
LEMMA SpliceProperties ==
  ASSUME NEW P, NEW perms \in Seq(P), NEW mid \in Seq(P),
         NEW s \in 1..(Len(perms) + 1), NEW e \in (s - 1)..Len(perms)
  PROVE  LET new == Splice(perms, s, e, mid)
         IN new \in Seq(P) /\ Spliced(new, perms, s, e, mid)
<1> DEFINE n == Len(perms)
           a == SubSeq(perms, 1, s - 1)
           z == SubSeq(perms, e + 1, n)
           am == a \o mid
           new == am \o z
<1>0. n \in Nat /\ s \in Nat /\ e \in Nat /\ s - 1 <= n /\ e <= n /\ s - 1 <= e /\ s >= 1
  BY LenProperties
<1>1. a \in Seq(P) /\ Len(a) = s - 1 /\ \A i \in 1..(s - 1) : a[i] = perms[i]
  <2>1. \A i \in 1..(s - 1) : perms[i] \in P
    BY <1>0, ElementOfSeq
  <2> QED BY <1>0, <2>1, SubSeqProperties
<1>2. z \in Seq(P) /\ Len(z) = n - e /\ \A i \in 1..(n - e) : z[i] = perms[e + i]
  <2>1. \A i \in (e + 1)..n : perms[i] \in P
    BY <1>0, ElementOfSeq
  <2>2. z \in Seq(P) /\ Len(z) = n - e
    BY <1>0, <2>1, SubSeqProperties
  <2>3. \A i \in 1..(n - e) : z[i] = perms[e + i]
    <3> HIDE DEF n
    <3> SUFFICES ASSUME NEW i \in 1..(n - e) PROVE z[i] = perms[e + i]
      BY Zenon
    <3>1. z[i] = perms[(e + 1) + i - 1]
      BY <1>0, <2>1, SubSeqProperties
    <3>2. (e + 1) + i - 1 = e + i
      BY <1>0
    <3> QED BY Zenon, <3>1, <3>2
  <2> QED BY <2>2, <2>3
<1> HIDE DEF a, z
<1>3. am \in Seq(P)
  BY <1>1, ConcatElements
<1>4. new \in Seq(P)
  BY <1>2, <1>3, ConcatElements
<1>5. Splice(perms, s, e, mid) = new
  BY DEF Splice, a, z, am
<1>6. Len(mid) \in Nat
  BY LenProperties
<1>7. ASSUME NEW i \in 1..Len(new)
      PROVE  \/ \E j \in 1..Len(mid) : new[i] = mid[j]
             \/ \E j \in 1..Len(perms) : (j < s \/ j > e) /\ new[i] = perms[j]
  <2> HIDE DEF am
  <2>1. CASE i \in 1..Len(am) /\ new[i] = am[i]
    <3>1. \/ i \in 1..Len(a) /\ am[i] = a[i]
          \/ \E j \in 1..Len(mid) : am[i] = mid[j]
      <4>1. FromParts(am, a, mid)
        BY <1>1, ConcatOrigin DEF am
      <4> QED BY <2>1, <4>1 DEF FromParts
    <3>2. ASSUME i \in 1..Len(a), am[i] = a[i]
          PROVE  i \in 1..Len(perms) /\ i < s /\ am[i] = perms[i]
      BY <3>2, <1>0, <1>1
    <3> QED BY <2>1, <3>1, <3>2
  <2>2. ASSUME NEW j \in 1..Len(z), new[i] = z[j]
        PROVE  \E k \in 1..Len(perms) : k > e /\ new[i] = perms[k]
    <3> HIDE DEF new
    <3>1. e + j \in 1..Len(perms) /\ e + j > e /\ z[j] = perms[e + j]
      BY <1>0, <1>2
    <3> QED BY <2>2, <3>1
  <2>3. \/ i \in 1..Len(am) /\ new[i] = am[i]
        \/ \E j \in 1..Len(z) : new[i] = z[j]
    <3>1. am \in Seq(P) /\ z \in Seq(P)
      BY <1>2, <1>3
    <3>2. FromParts(new, am, z)
      BY <3>1, ConcatOrigin
    <3> HIDE DEF new
    <3> QED BY <3>2 DEF FromParts
  <2> HIDE DEF new
  <2> QED BY <2>1, <2>2, <2>3
<1>8. ASSUME NEW j \in 1..Len(mid)
      PROVE  \E i \in 1..Len(new) : new[i] = mid[j]
  <2>1. Len(am) = Len(a) + Len(mid) /\ Len(a) + j \in 1..Len(am) /\ am[Len(a) + j] = mid[j]
    <3>1. Len(am) = Len(a) + Len(mid)
      BY Zenon, <1>1, ConcatElements
    <3>2. \A i \in 1..Len(mid) : am[Len(a) + i] = mid[i]
      BY <1>1, ConcatElements
    <3> HIDE DEF am
    <3>3. Len(a) + j \in 1..(Len(a) + Len(mid))
      BY <1>0, <1>1, <1>6
    <3> QED BY <3>1, <3>2, <3>3
  <2> HIDE DEF am
  <2>2. Len(new) = Len(am) + Len(z) /\ \A i \in 1..Len(am) : new[i] = am[i]
    BY ZenonT(30), <1>2, <1>3, ConcatElements
  <2> HIDE DEF new
  <2>3. Len(a) + j \in 1..Len(new)
    <3>1. Len(z) \in Nat /\ Len(am) \in Nat
      BY <1>2, <1>3, LenProperties
    <3> QED BY <2>1, <2>2, <3>1
  <2> QED BY <2>1, <2>2, <2>3
<1> HIDE DEF new
<1> QED BY <1>4, <1>5, <1>7, <1>8 DEF Spliced

-----------------------------------------------------------------------------
\* Sequences of at most one permission, as the remainders of a token are.
LEMMA OptionalType ==
  ASSUME NEW p \in Permission, NEW c \in BOOLEAN
  PROVE  LET q == IF c THEN <<p>> ELSE <<>>
         IN /\ q \in Seq(Permission)
            /\ \A i \in 1..Len(q) : q[i] = p /\ c
            /\ c => 1 \in 1..Len(q) /\ q[1] = p
<1>1. CASE c
  <2>1. <<p>> \in Seq(Permission) /\ Len(<<p>>) = 1 /\ <<p>>[1] = p
    OBVIOUS
  <2> QED BY <1>1, <2>1
<1>2. CASE ~c
  <2>1. <<>> \in Seq(Permission) /\ Len(<<>>) = 0
    OBVIOUS
  <2> QED BY <1>2, <2>1
<1> QED BY <1>1, <1>2

\* A new permission is a permission.
LEMMA NewPermissionType ==
  ASSUME NEW start \in Nat, NEW end \in Nat, NEW write \in BOOLEAN
  PROVE  NewPermission(start, end, write) \in Permission
BY DEF NewPermission, Permission

(***************************************************************************)
(* revokePermission leaves no token that overlaps the revoked range, and   *)
(* every token it leaves is part of an old token of the same mode.         *)
(***************************************************************************)
THEOREM RevokeProperties ==
  ASSUME NEW perms \in Seq(Permission), NEW start \in Nat, NEW end \in Nat
  PROVE  LET new == RevokePermission(perms, start, end)
         IN /\ new \in Seq(Permission)
            /\ \A i \in 1..Len(new) :
                 /\ ~IsShared(new[i], start, end)
                 /\ \E j \in 1..Len(perms) :
                      /\ new[i].write = perms[j].write
                      /\ perms[j].start <= new[i].start
                      /\ new[i].end <= perms[j].end
<1> DEFINE n == Len(perms)
           shared == {i \in 1..n : IsShared(perms[i], start, end)}
           s == Min(shared)
           e == Max(shared)
           left  == IF s = e THEN NewPermission(perms[s].start, start, perms[s].write)
                    ELSE [perms[s] EXCEPT !.end = start]
           right == IF s = e THEN NewPermission(end, perms[e].end, perms[e].write)
                    ELSE [perms[e] EXCEPT !.start = end]
           before == IF perms[s].start < start THEN <<left>> ELSE <<>>
           after  == IF end < perms[e].end THEN <<right>> ELSE <<>>
           mid == before \o after
           new == RevokePermission(perms, start, end)
<1>0. n \in Nat /\ \A i \in 1..n : perms[i] \in Permission
  BY LenProperties, ElementOfSeq
<1>1. CASE shared = {}
  <2>1. new = perms
    BY <1>1 DEF RevokePermission
  <2>2. \A i \in 1..n : /\ ~IsShared(perms[i], start, end)
                        /\ perms[i].start <= perms[i].start
                        /\ perms[i].end <= perms[i].end
    BY <1>0, <1>1 DEF Permission
  <2> QED BY <2>1, <2>2
<1>2. CASE shared # {}
  <2>1. /\ s \in 1..n /\ e \in 1..n /\ s <= e
        /\ IsShared(perms[s], start, end) /\ IsShared(perms[e], start, end)
        /\ \A i \in 1..n : i < s \/ i > e => ~IsShared(perms[i], start, end)
    <3>1. shared \in SUBSET Nat /\ \A i \in shared : i <= n
      BY <1>0
    <3>2. s \in shared /\ \A i \in shared : s <= i
      BY Zenon, <1>2, <3>1, NatSetMin
    <3>3. e \in shared /\ \A i \in shared : i <= e
      BY Zenon, <1>0, <1>2, <3>1, NatSetMax
    <3> HIDE DEF s, e
    <3> QED BY <1>0, <3>1, <3>2, <3>3
  <2>2. new = Splice(perms, s, e, mid)
    BY <1>2 DEF RevokePermission
  <2> HIDE DEF s, e, shared, new
  <2>3. perms[s] \in Permission /\ perms[e] \in Permission
    BY <1>0, <2>1
  <2>3a. /\ perms[s].start \in Nat /\ perms[s].end \in Nat /\ start < perms[s].end
         /\ perms[e].start \in Nat /\ perms[e].end \in Nat /\ end > perms[e].start
    <3>1. start < perms[s].end /\ end > perms[e].start
      BY <2>1 DEF IsShared
    <3> QED BY <3>1, <2>3 DEF Permission
  <2>4. left \in Permission /\ right \in Permission
    BY Zenon, <2>3 DEF Permission, NewPermission
  <2>5. /\ left.write = perms[s].write /\ left.start = perms[s].start /\ left.end = start
        /\ right.write = perms[e].write /\ right.start = end /\ right.end = perms[e].end
    BY <2>3 DEF Permission, NewPermission
  <2> HIDE DEF left, right
  <2>6. /\ before \in Seq(Permission)
        /\ \A i \in 1..Len(before) : before[i] = left /\ perms[s].start < start
    BY Zenon, <2>3, <2>4, OptionalType DEF Permission
  <2>7. /\ after \in Seq(Permission)
        /\ \A i \in 1..Len(after) : after[i] = right /\ end < perms[e].end
    BY Zenon, <2>3, <2>4, OptionalType DEF Permission
  <2> HIDE DEF before, after
  <2>8. /\ mid \in Seq(Permission)
        /\ \A i \in 1..Len(mid) : \/ mid[i] = left /\ perms[s].start < start
                                  \/ mid[i] = right /\ end < perms[e].end
    <3>1. mid \in Seq(Permission)
      BY <2>6, <2>7, ConcatElements
    <3>2. FromParts(mid, before, after)
      BY <2>6, <2>7, ConcatOrigin
    <3> HIDE DEF mid
    <3> QED BY Zenon, <2>6, <2>7, <3>1, <3>2 DEF FromParts
  <2> HIDE DEF mid
  <2>9. s \in 1..(Len(perms) + 1) /\ e \in (s - 1)..Len(perms)
    BY <1>0, <2>1
  <2>10. /\ new \in Seq(Permission)
         /\ \A i \in 1..Len(new) :
              \/ \E j \in 1..Len(mid) : new[i] = mid[j]
              \/ \E j \in 1..n : (j < s \/ j > e) /\ new[i] = perms[j]
    <3> HIDE DEF n
    <3>1. new \in Seq(Permission) /\ Spliced(new, perms, s, e, mid)
      BY <2>2, <2>8, <2>9, SpliceProperties
    <3> QED BY <3>1 DEF n, Spliced
  <2>11. ASSUME NEW i \in 1..Len(new)
         PROVE  /\ ~IsShared(new[i], start, end)
                /\ \E j \in 1..n : /\ new[i].write = perms[j].write
                                   /\ perms[j].start <= new[i].start
                                   /\ new[i].end <= perms[j].end
    <3>1. CASE new[i] = left /\ perms[s].start < start
      <4>1. ~(start < start) /\ start <= perms[s].end /\ perms[s].start <= perms[s].start
        BY <2>3a
      <4>2. s \in 1..n
        BY <2>1
      <4> QED BY <3>1, <2>5, <4>1, <4>2 DEF IsShared
    <3>2. CASE new[i] = right /\ end < perms[e].end
      <4>1. ~(end > end) /\ perms[e].start <= end /\ perms[e].end <= perms[e].end
        BY <2>3a
      <4>2. e \in 1..n
        BY <2>1
      <4> QED BY <3>2, <2>5, <4>1, <4>2 DEF IsShared
    <3>3. ASSUME NEW j \in 1..n, j < s \/ j > e, new[i] = perms[j]
          PROVE  /\ ~IsShared(new[i], start, end)
                 /\ new[i].write = perms[j].write
                 /\ perms[j].start <= new[i].start
                 /\ new[i].end <= perms[j].end
      <4>1. ~IsShared(perms[j], start, end)
        BY <2>1, <3>3
      <4>2. perms[j].start <= perms[j].start /\ perms[j].end <= perms[j].end
        BY <1>0 DEF Permission
      <4> QED BY <3>3, <4>1, <4>2
    <3> QED BY Zenon, <2>8, <2>10, <3>1, <3>2, <3>3
  <2> QED BY <2>10, <2>11 DEF new
<1> QED BY <1>1, <1>2

-----------------------------------------------------------------------------
(***************************************************************************)
(* A token m that addPermission may put into the vector: each of its bytes *)
(* was covered before, or is in the granted range, in m's mode.            *)
(***************************************************************************)
Justified(m, perms, start, end, write) ==
  \A b \in Nat : Covers(m, b) =>
    \/ start <= b /\ b < end /\ (m.write => write)
    \/ \E j \in 1..Len(perms) : Covers(perms[j], b) /\ (m.write => perms[j].write)

AllJustified(mid, perms, start, end, write) ==
  \A i \in 1..Len(mid) : Justified(mid[i], perms, start, end, write)

\* Every byte of the range is allowed.
AllowsRange(perms, start, end, write) ==
  \A b \in Nat : start <= b /\ b < end => Allows(perms, b, write)

\* Byte b is allowed already, or granted now.
Explained(perms, b, w, start, end, write) ==
  Allows(perms, b, w) \/ (start <= b /\ b < end /\ (w => write))

\* A splice of justified tokens allows nothing new outside the granted range.
LEMMA SpliceSound ==
  ASSUME NEW perms \in Seq(Permission), NEW mid \in Seq(Permission),
         NEW s \in 1..(Len(perms) + 1), NEW e \in (s - 1)..Len(perms),
         NEW start \in Nat, NEW end \in Nat, NEW write \in BOOLEAN,
         AllJustified(mid, perms, start, end, write),
         NEW b \in Nat, NEW w \in BOOLEAN,
         Allows(Splice(perms, s, e, mid), b, w)
  PROVE  Explained(perms, b, w, start, end, write)
<1> DEFINE new == Splice(perms, s, e, mid)
<1>1. \A i \in 1..Len(new) :
        \/ \E j \in 1..Len(mid) : new[i] = mid[j]
        \/ \E j \in 1..Len(perms) : new[i] = perms[j]
  <2>1. Spliced(new, perms, s, e, mid)
    BY SpliceProperties
  <2> QED BY <2>1 DEF Spliced
<1>2. PICK i \in 1..Len(new) : Covers(new[i], b) /\ (w => new[i].write)
  BY DEF Allows
<1> HIDE DEF new
<1>3. ASSUME NEW j \in 1..Len(perms), new[i] = perms[j]
      PROVE  Allows(perms, b, w)
  BY SMTT(30), <1>2, <1>3 DEF Allows
<1>4. ASSUME NEW j \in 1..Len(mid), new[i] = mid[j]
      PROVE  Explained(perms, b, w, start, end, write)
  <2>1. Justified(mid[j], perms, start, end, write) /\ Covers(mid[j], b) /\ (w => mid[j].write)
    BY <1>2, <1>4 DEF AllJustified
  <2>2. \/ start <= b /\ b < end /\ (mid[j].write => write)
        \/ \E k \in 1..Len(perms) : Covers(perms[k], b) /\ (mid[j].write => perms[k].write)
    BY <2>1 DEF Justified
  <2> QED BY <2>1, <2>2 DEF Allows, Explained
<1> QED BY SMTT(30), <1>1, <1>3, <1>4 DEF Explained

\* What mid allows, the splice allows.
LEMMA SpliceCovers ==
  ASSUME NEW perms \in Seq(Permission), NEW mid \in Seq(Permission),
         NEW s \in 1..(Len(perms) + 1), NEW e \in (s - 1)..Len(perms),
         NEW b \in Nat, NEW w \in BOOLEAN, Allows(mid, b, w)
  PROVE  Allows(Splice(perms, s, e, mid), b, w)
<1>1. PICK j \in 1..Len(mid) : Covers(mid[j], b) /\ (w => mid[j].write)
  BY DEF Allows
<1>2. Spliced(Splice(perms, s, e, mid), perms, s, e, mid)
  BY SpliceProperties
<1>3. PICK i \in 1..Len(Splice(perms, s, e, mid)) : Splice(perms, s, e, mid)[i] = mid[j]
  BY <1>2 DEF Spliced
<1> QED BY SMTT(30), <1>1, <1>3 DEF Allows

\* Locking changes neither the range nor the mode.
LEMMA LockIfProperties ==
  ASSUME NEW p \in Permission, NEW lockNew \in BOOLEAN
  PROVE  /\ LockIf(lockNew, p) \in Permission
         /\ LockIf(lockNew, p).start = p.start
         /\ LockIf(lockNew, p).end = p.end
         /\ LockIf(lockNew, p).write = p.write
BY DEF LockIf, Permission

\* The token that addPermission records is well formed.
LEMMA NewLocked ==
  ASSUME NEW start \in Nat, NEW end \in Nat, NEW write \in BOOLEAN, NEW lockNew \in BOOLEAN
  PROVE  LET p == LockIf(lockNew, NewPermission(start, end, write))
         IN p \in Permission /\ p.start = start /\ p.end = end /\ p.write = write
<1> DEFINE q == NewPermission(start, end, write)
<1>1. q \in Permission /\ q.start = start /\ q.end = end /\ q.write = write
  BY DEF NewPermission, Permission
<1> HIDE DEF q
<1>2. LockIf(lockNew, q) \in Permission /\ LockIf(lockNew, q).start = start
      /\ LockIf(lockNew, q).end = end /\ LockIf(lockNew, q).write = write
  BY <1>1, LockIfProperties
<1> QED BY <1>2 DEF q

ReadToken(p, from, to) == p \in Permission /\ p.start = from /\ p.end = to /\ p.write = FALSE

\* A new read token, locked or not, covers its range for reading only.
LEMMA NewLockedRead ==
  ASSUME NEW from \in Nat, NEW to \in Nat, NEW lockNew \in BOOLEAN
  PROVE  ReadToken(LockIf(lockNew, NewPermission(from, to, FALSE)), from, to)
<1>1. \A w \in BOOLEAN :
        LET p == LockIf(lockNew, NewPermission(from, to, w))
        IN p \in Permission /\ p.start = from /\ p.end = to /\ p.write = w
  BY NewLocked
<1> QED BY Zenon, <1>1 DEF ReadToken

\* The run s..e of entries that addPermission replaces touches the range.
LEMMA RunProperties ==
  ASSUME NEW perms \in Seq(Permission), NEW start \in Nat, NEW end \in Nat,
         FirstTouching(perms, start, end) # 0
  PROVE  LET s == FirstTouching(perms, start, end)
             e == RunEnd(perms, s, start, end)
         IN /\ s \in 1..Len(perms) /\ e \in s..Len(perms)
            /\ \A i \in s..e : IsInclusiveShared(perms[i], start, end)
<1> DEFINE n == Len(perms)
           touching == {i \in 1..n : IsInclusiveShared(perms[i], start, end)}
           s == FirstTouching(perms, start, end)
           apart == {i \in (s + 1)..n : ~IsInclusiveShared(perms[i], start, end)}
           e == RunEnd(perms, s, start, end)
<1>0. n \in Nat
  BY LenProperties
<1>1. touching # {} /\ s = Min(touching)
  BY DEF FirstTouching
<1>2. s \in touching
  <2>1. touching \in SUBSET Nat
    BY <1>0
  <2> HIDE DEF touching
  <2> QED BY <1>1, <2>1, NatSetMin
<1>3. e = IF apart = {} THEN s ELSE Min(apart) - 1
  BY DEF RunEnd
<1> HIDE DEF s, e
<1>4. s \in 1..n /\ IsInclusiveShared(perms[s], start, end)
  BY <1>2
<1>5. CASE apart = {}
  <2>1. e = s
    BY <1>3, <1>5
  <2>2. \A i \in s..s : i = s
    BY <1>4
  <2> QED BY <1>0, <1>4, <2>1, <2>2 DEF s, e
<1>6. CASE apart # {}
  <2> DEFINE m == Min(apart)
  <2>1. apart \in SUBSET Nat
    BY <1>4
  <2>2. m \in apart /\ \A x \in apart : m <= x
    BY Zenon, <1>6, <2>1, NatSetMin
  <2>3. e = m - 1
    BY <1>3, <1>6
  <2>4. m \in (s + 1)..n
    BY <2>2
  <2> HIDE DEF m
  <2>5. e \in s..n
    BY <1>0, <1>4, <2>3, <2>4
  <2>6. ASSUME NEW i \in s..e
        PROVE  IsInclusiveShared(perms[i], start, end)
    <3>1. CASE i = s
      BY <1>4, <3>1
    <3>2. CASE i # s
      <4>1. i \in (s + 1)..n /\ ~(m <= i)
        BY <1>0, <1>4, <2>3, <2>4, <3>2
      <4> QED BY <2>2, <4>1
    <3> QED BY <3>1, <3>2
  <2> QED BY <1>4, <2>5, <2>6 DEF s, e
<1> QED BY <1>5, <1>6

(***************************************************************************)
(* What a grant may do to a vector: nothing is allowed that was not        *)
(* allowed before or granted now, and all of the granted range is allowed. *)
(***************************************************************************)
AddedTo(new, perms, start, end, write) ==
  /\ \A b \in Nat : \A w \in BOOLEAN :
       Allows(new, b, w) => Explained(perms, b, w, start, end, write)
  /\ AllowsRange(new, start, end, write)

\* The three branches of addPermission splice justified tokens into the vector.
LEMMA SpliceAdds ==
  ASSUME NEW perms \in Seq(Permission), NEW mid \in Seq(Permission),
         NEW s \in 1..(Len(perms) + 1), NEW e \in (s - 1)..Len(perms),
         NEW start \in Nat, NEW end \in Nat, NEW write \in BOOLEAN,
         AllJustified(mid, perms, start, end, write),
         AllowsRange(mid, start, end, write)
  PROVE  LET new == Splice(perms, s, e, mid)
         IN new \in Seq(Permission) /\ AddedTo(new, perms, start, end, write)
<1> DEFINE new == Splice(perms, s, e, mid)
<1>1. new \in Seq(Permission)
  BY SpliceProperties
<1>2. ASSUME NEW b \in Nat, NEW w \in BOOLEAN, Allows(new, b, w)
      PROVE  Explained(perms, b, w, start, end, write)
  BY <1>2, SpliceSound
<1>3. ASSUME NEW b \in Nat, start <= b, b < end
      PROVE  Allows(new, b, write)
  <2>1. Allows(mid, b, write)
    BY <1>3 DEF AllowsRange
  <2> QED BY <2>1, SpliceCovers
<1> HIDE DEF new
<1> QED BY <1>1, <1>2, <1>3 DEF AddedTo, AllowsRange, new

\* The branch that finds no touching entry.
LEMMA AddApartProperties ==
  ASSUME NEW perms \in Seq(Permission), NEW start \in Nat, NEW end \in Nat,
         NEW write \in BOOLEAN, NEW lockNew \in BOOLEAN
  PROVE  LET new == AddApart(perms, start, end, write, lockNew)
         IN new \in Seq(Permission) /\ AddedTo(new, perms, start, end, write)
<1> DEFINE n == Len(perms)
           before == {i \in 1..n : perms[i].end < start}
           at == IF before = {} THEN 0 ELSE Max(before)
           p == LockIf(lockNew, NewPermission(start, end, write))
           mid == <<p>>
<1>0. n \in Nat
  BY LenProperties
<1>1. at \in 0..n
  <2>1. CASE before = {}
    BY <1>0, <2>1
  <2>2. CASE before # {}
    <3>1. before \in SUBSET Nat /\ \A i \in before : i <= n
      BY <1>0
    <3>2. Max(before) \in before
      BY Zenon, <1>0, <2>2, <3>1, NatSetMax
    <3> QED BY <1>0, <2>2, <3>2
  <2> QED BY <2>1, <2>2
<1>2. p \in Permission /\ p.start = start /\ p.end = end /\ p.write = write
  BY NewLocked
<1> HIDE DEF at, p
<1>3. mid \in Seq(Permission) /\ Len(mid) = 1 /\ mid[1] = p
  BY <1>2
<1> HIDE DEF mid
<1>4. AllJustified(mid, perms, start, end, write)
  <2>1. Justified(p, perms, start, end, write)
    BY <1>2 DEF Justified, Covers
  <2>2. \A i \in 1..Len(mid) : mid[i] = p
    BY <1>3
  <2> QED BY <2>1, <2>2 DEF AllJustified
<1>5. AllowsRange(mid, start, end, write)
  <2>1. 1 \in 1..Len(mid)
    BY <1>3
  <2> QED BY <1>2, <1>3, <2>1 DEF AllowsRange, Allows, Covers
<1>6. at + 1 \in 1..(Len(perms) + 1) /\ at \in (at + 1 - 1)..Len(perms)
  BY <1>0, <1>1
<1>7. AddApart(perms, start, end, write, lockNew) = Splice(perms, at + 1, at, mid)
  BY DEF AddApart, at, p, mid
<1> HIDE DEF n
<1> QED BY <1>3, <1>4, <1>5, <1>6, <1>7, SpliceAdds

\* The branch that adds a write token, on a run that touches the range.
LEMMA AddWriteProperties ==
  ASSUME NEW perms \in Seq(Permission), NEW start \in Nat, NEW end \in Nat,
         NEW lockNew \in BOOLEAN,
         NEW s \in 1..Len(perms), NEW e \in s..Len(perms),
         IsInclusiveShared(perms[s], start, end),
         IsInclusiveShared(perms[e], start, end)
  PROVE  LET new == AddWrite(perms, s, e, start, end, lockNew)
         IN new \in Seq(Permission) /\ AddedTo(new, perms, start, end, TRUE)
<1> DEFINE first == perms[s]
           last  == perms[e]
           newStart == IF first.write THEN Min({first.start, start}) ELSE start
           newEnd   == IF last.write THEN Max({last.end, end}) ELSE end
           cs == ~first.write /\ first.start < start
           ce == ~last.write /\ last.end > end
           sp == NewPermission(first.start, start, FALSE)
           ep == NewPermission(end, first.end, FALSE)
           sPermit == IF cs THEN <<sp>> ELSE <<>>
           ePermit == IF ce THEN <<ep>> ELSE <<>>
           permit  == LockIf(lockNew, NewPermission(newStart, newEnd, TRUE))
           one == <<permit>>
           mid == sPermit \o one \o ePermit
<1>0. Len(perms) \in Nat
  BY LenProperties
<1>1. /\ first \in Permission /\ last \in Permission /\ s \in 1..Len(perms) /\ e \in 1..Len(perms)
      /\ end >= first.start /\ start <= first.end
      /\ end >= last.start /\ start <= last.end
  BY <1>0, ElementOfSeq DEF IsInclusiveShared
<1>2. /\ first.start \in Nat /\ first.end \in Nat /\ first.write \in BOOLEAN
      /\ last.start \in Nat /\ last.end \in Nat /\ last.write \in BOOLEAN
  BY SMTT(30), <1>1 DEF Permission
<1>3. /\ newStart \in Nat /\ newStart <= start
      /\ newStart # start => first.write /\ newStart = first.start
  BY <1>2, PairMin
<1>4. /\ newEnd \in Nat /\ end <= newEnd
      /\ newEnd # end => last.write /\ newEnd = last.end
  BY <1>2, PairMax
<1> HIDE DEF first, last, newStart, newEnd
<1>5. /\ sp \in Permission /\ sp.start = first.start /\ sp.end = start /\ sp.write = FALSE
      /\ ep \in Permission /\ ep.start = end /\ ep.end = first.end /\ ep.write = FALSE
  BY <1>2 DEF NewPermission, Permission
<1>6. permit \in Permission /\ permit.start = newStart /\ permit.end = newEnd /\ permit.write = TRUE
  <2>1. newStart \in Nat /\ newEnd \in Nat
    BY <1>3, <1>4
  <2>2. \A w \in BOOLEAN :
          LET p == LockIf(lockNew, NewPermission(newStart, newEnd, w))
          IN p \in Permission /\ p.start = newStart /\ p.end = newEnd /\ p.write = w
    BY <2>1, NewLocked
  <2> QED BY Zenon, <2>2
<1>7. cs \in BOOLEAN /\ ce \in BOOLEAN
  OBVIOUS
<1> HIDE DEF sp, ep, permit, cs, ce
<1>8. sPermit \in Seq(Permission) /\ \A i \in 1..Len(sPermit) : sPermit[i] = sp /\ cs
  BY <1>5, <1>7, OptionalType
<1>9. ePermit \in Seq(Permission) /\ \A i \in 1..Len(ePermit) : ePermit[i] = ep /\ ce
  BY <1>5, <1>7, OptionalType
<1>10. one \in Seq(Permission) /\ Len(one) = 1 /\ one[1] = permit
  BY <1>6
<1> HIDE DEF sPermit, ePermit, one
<1>11. Justified(permit, perms, start, end, TRUE)
  <2> SUFFICES ASSUME NEW b \in Nat, newStart <= b, b < newEnd
               PROVE  \/ start <= b /\ b < end
                      \/ \E j \in 1..Len(perms) : Covers(perms[j], b) /\ perms[j].write
    BY <1>6 DEF Justified, Covers
  <2>1. CASE b < start
    <3>1. first.write /\ first.start <= b /\ b < first.end
      BY <2>1, <1>1, <1>2, <1>3
    <3> QED BY <3>1, <1>1 DEF Covers, first
  <2>2. CASE b >= end
    <3>1. last.write /\ last.start <= b /\ b < last.end
      BY <2>2, <1>1, <1>2, <1>4
    <3> QED BY <3>1, <1>1 DEF Covers, last
  <2> QED BY <2>1, <2>2
<1>12. Justified(sp, perms, start, end, TRUE)
  <2> SUFFICES ASSUME NEW b \in Nat, first.start <= b, b < start
               PROVE  \E j \in 1..Len(perms) : Covers(perms[j], b)
    BY <1>5 DEF Justified, Covers
  <2>1. first.start <= b /\ b < first.end
    BY <1>1, <1>2
  <2> QED BY <2>1, <1>1 DEF Covers, first
<1>13. Justified(ep, perms, start, end, TRUE)
  <2> SUFFICES ASSUME NEW b \in Nat, end <= b, b < first.end
               PROVE  \E j \in 1..Len(perms) : Covers(perms[j], b)
    BY <1>5 DEF Justified, Covers
  <2>1. first.start <= b /\ b < first.end
    BY <1>1, <1>2
  <2> QED BY <2>1, <1>1 DEF Covers, first
<1>14. mid \in Seq(Permission) /\ \A i \in 1..Len(mid) : mid[i] \in {sp, permit, ep}
  <2> DEFINE so == sPermit \o one
  <2>1. so \in Seq(Permission)
    BY <1>8, <1>10, ConcatElements
  <2>2. \A i \in 1..Len(so) : so[i] \in {sp, permit}
    <3>1. FromParts(so, sPermit, one)
      BY <1>8, <1>10, ConcatOrigin
    <3>2. \A j \in 1..Len(one) : one[j] = permit
      BY <1>10
    <3> HIDE DEF so
    <3> QED BY <1>8, <3>1, <3>2 DEF FromParts
  <2> HIDE DEF so
  <2>3. so \o ePermit \in Seq(Permission)
    BY <1>9, <2>1, ConcatElements
  <2>4. ASSUME NEW i \in 1..Len(so \o ePermit)
        PROVE  (so \o ePermit)[i] \in {sp, permit, ep}
    <3>1. FromParts(so \o ePermit, so, ePermit)
      BY <1>9, <2>1, ConcatOrigin
    <3> QED BY <1>9, <2>2, <3>1 DEF FromParts
  <2> QED BY SMTT(30), <2>3, <2>4 DEF so
<1>15. \E i \in 1..Len(mid) : mid[i] = permit
  <2> DEFINE so == sPermit \o one
  <2>1. so \in Seq(Permission) /\ Includes(so, one)
    BY <1>8, <1>10, ConcatElements, ConcatIncludes
  <2> HIDE DEF so
  <2>2. Includes(so \o ePermit, so)
    BY <1>9, <2>1, ConcatIncludes
  <2>3. 1 \in 1..Len(one)
    BY <1>10
  <2>4. PICK i \in 1..Len(so) : so[i] = permit
    BY Zenon, <1>10, <2>1, <2>3 DEF Includes
  <2>5. PICK j \in 1..Len(so \o ePermit) : (so \o ePermit)[j] = permit
    BY <2>2, <2>4 DEF Includes
  <2> QED BY <2>5 DEF so
<1>16. AllJustified(mid, perms, start, end, TRUE)
  <2> HIDE DEF mid
  <2> QED BY Zenon, <1>11, <1>12, <1>13, <1>14 DEF AllJustified
<1>17. AllowsRange(mid, start, end, TRUE)
  <2> HIDE DEF mid
  <2>1. \A b \in Nat : start <= b /\ b < end => Covers(permit, b) /\ permit.write
    BY <1>3, <1>4, <1>6 DEF Covers
  <2> QED BY <2>1, <1>15 DEF Allows, AllowsRange
<1>18. AddWrite(perms, s, e, start, end, lockNew) = Splice(perms, s, e, mid)
  BY DEF AddWrite, mid, one, sPermit, ePermit, permit, sp, ep, cs, ce, newStart, newEnd, first, last
<1>19. s \in 1..(Len(perms) + 1) /\ e \in (s - 1)..Len(perms)
  BY <1>0
<1> HIDE DEF mid
<1> QED BY Zenon, <1>14, <1>16, <1>17, <1>18, <1>19, SpliceAdds

\* A function on an initial interval of the naturals is a sequence.
LEMMA FunctionIsSeq ==
  ASSUME NEW P, NEW m \in Nat, NEW f \in [1..m -> P]
  PROVE  f \in Seq(P) /\ Len(f) = m
<1>1. f \in Seq(P)
  BY SeqDef
<1> QED BY <1>1, LenProperties

\* A natural number is even or odd.
LEMMA Parity ==
  ASSUME NEW i \in Nat, 1 <= i
  PROVE  \/ i % 2 = 1 /\ (i + 1) \div 2 \in Nat /\ 2 * ((i + 1) \div 2) = i + 1
         \/ i % 2 # 1 /\ i \div 2 \in Nat /\ 2 * (i \div 2) = i
BY SMT

\* The halves of the positions in an interleaved vector.
LEMMA Halving ==
  ASSUME NEW j \in Nat, 1 <= j
  PROVE  /\ (2 * j) % 2 # 1 /\ (2 * j) \div 2 = j
         /\ (2 * j - 1) % 2 = 1 /\ (2 * j - 1 + 1) \div 2 = j
BY SMT

-----------------------------------------------------------------------------
(***************************************************************************)
(* W lists write tokens of the vector that touch the range, as the         *)
(* writePermits collected by addPermission do.                             *)
(***************************************************************************)
KeptWrites(W, perms, start, end) ==
  \A j \in 1..Len(W) :
    /\ W[j] \in Permission /\ W[j].write
    /\ W[j].start <= end /\ start <= W[j].end
    /\ \E i \in 1..Len(perms) : W[j] = perms[i]

\* The write tokens of a touching run are kept as they are.
LEMMA WritePermitsProperties ==
  ASSUME NEW perms \in Seq(Permission), NEW start \in Nat, NEW end \in Nat,
         NEW s \in 1..Len(perms), NEW e \in s..Len(perms),
         \A i \in s..e : IsInclusiveShared(perms[i], start, end)
  PROVE  LET W == WritePermits(perms, s, e)
         IN W \in Seq(Permission) /\ KeptWrites(W, perms, start, end)
<1> DEFINE n == Len(perms)
           I == {i \in s..e : perms[i].write}
           k == Cardinality(I)
           indices == Ascending(I)
           W == [j \in 1..k |-> perms[indices[j]]]
<1>0. n \in Nat /\ \A i \in s..e : i \in 1..n /\ perms[i] \in Permission
  BY LenProperties, ElementOfSeq
<1>1. I \in SUBSET (0..n)
  BY <1>0
<1> HIDE DEF I
<1>2. k \in Nat /\ indices \in [1..k -> I]
  BY Zenon, <1>0, <1>1, AscendingType
<1> HIDE DEF k, indices
<1>3. \A i \in I : /\ i \in s..e /\ i \in 1..n /\ perms[i] \in Permission /\ perms[i].write
                   /\ IsInclusiveShared(perms[i], start, end)
  BY <1>0 DEF I
<1>4. W \in [1..k -> Permission]
  BY <1>2, <1>3
<1>5. W \in Seq(Permission) /\ Len(W) = k
  BY <1>2, <1>4, FunctionIsSeq
<1>6. KeptWrites(W, perms, start, end)
  <2> SUFFICES ASSUME NEW j \in 1..k
               PROVE  /\ W[j] \in Permission /\ W[j].write
                      /\ W[j].start <= end /\ start <= W[j].end
                      /\ \E i \in 1..n : W[j] = perms[i]
    BY Zenon, <1>5 DEF KeptWrites
  <2>1. indices[j] \in I /\ W[j] = perms[indices[j]]
    BY <1>2
  <2> HIDE DEF W
  <2>2. /\ indices[j] \in 1..n /\ W[j] \in Permission /\ W[j].write
        /\ IsInclusiveShared(W[j], start, end)
    BY <1>3, <2>1
  <2>3. W[j].start \in Nat /\ W[j].end \in Nat
    BY Zenon, <2>2 DEF Permission
  <2> QED BY <2>1, <2>2, <2>3 DEF IsInclusiveShared
<1>7. WritePermits(perms, s, e) = W
  BY DEF WritePermits, W, indices, k, I
<1> QED BY <1>5, <1>6, <1>7

\* The read tokens laid around the kept write tokens cover the range.
LEMMA InterleavedProperties ==
  ASSUME NEW perms \in Seq(Permission), NEW start \in Nat, NEW end \in Nat,
         NEW lockNew \in BOOLEAN, NEW newStart \in Nat, NEW newEnd \in Nat,
         newStart <= start, end <= newEnd,
         AllowsRange(perms, newStart, start, FALSE),
         AllowsRange(perms, end, newEnd, FALSE),
         NEW W \in Seq(Permission), W # <<>>, KeptWrites(W, perms, start, end)
  PROVE  LET mid == Interleaved(W, newStart, newEnd, lockNew)
         IN /\ mid \in Seq(Permission)
            /\ AllJustified(mid, perms, start, end, FALSE)
            /\ AllowsRange(mid, start, end, FALSE)
<1> DEFINE k == Len(W)
           inside == W[k].start <= newEnd /\ newEnd <= W[k].end
           cl == newStart < W[1].start
           lp == LockIf(lockNew, NewPermission(newStart, W[1].start, FALSE))
           lead == IF cl THEN <<lp>> ELSE <<>>
           gapEnd(j) == IF j = k THEN newEnd ELSE W[j + 1].start
           gap(j) == NewPermission(W[j].end, gapEnd(j), FALSE)
           m == IF inside THEN 2 * k - 1 ELSE 2 * k
           f == [i \in 1..m |-> LockIf(lockNew,
                   IF i % 2 = 1 THEN W[(i + 1) \div 2] ELSE gap(i \div 2))]
           mid == lead \o f
<1>0. k \in Nat /\ k >= 1 /\ 1 \in 1..k /\ k \in 1..k
  BY EmptySeq, LenProperties
<1>1. \A j \in 1..k : /\ W[j] \in Permission /\ W[j].write
                      /\ W[j].start \in Nat /\ W[j].end \in Nat
                      /\ W[j].start <= end /\ start <= W[j].end
                      /\ \E i \in 1..Len(perms) : W[j] = perms[i]
  BY SMTT(30) DEF KeptWrites, Permission
<1>2. m \in Nat /\ m <= 2 * k /\ m >= 2 * k - 1 /\ (m = 2 * k <=> ~inside)
  BY <1>0
<1>3. \A j \in 1..k : j # k => j + 1 \in 1..k
  BY <1>0
<1>4. \A j \in 1..k : gapEnd(j) \in Nat
  BY <1>1, <1>3
<1> HIDE DEF k, m, gapEnd
<1>5. \A j \in 1..k : ReadToken(LockIf(lockNew, gap(j)), W[j].end, gapEnd(j))
  <2> SUFFICES ASSUME NEW j \in 1..k
               PROVE  ReadToken(LockIf(lockNew, gap(j)), W[j].end, gapEnd(j))
    BY Zenon
  <2>1. W[j].end \in Nat /\ gapEnd(j) \in Nat
    BY <1>1, <1>4
  <2> QED BY Zenon, <2>1, NewLockedRead
<1>6. \A j \in 1..k : LET w == LockIf(lockNew, W[j])
                      IN /\ w \in Permission /\ w.start = W[j].start
                         /\ w.end = W[j].end /\ w.write = W[j].write
  BY <1>1, LockIfProperties
<1> HIDE DEF gap
\* The entries of f: kept write tokens at odd places, gaps at even ones.
<1>7. ASSUME NEW i \in 1..m
      PROVE  \/ \E j \in 1..k : i = 2 * j - 1 /\ f[i] = LockIf(lockNew, W[j])
             \/ \E j \in 1..k : i = 2 * j /\ f[i] = LockIf(lockNew, gap(j))
  <2>1. CASE i % 2 = 1
    <3>1. (i + 1) \div 2 \in 1..k /\ i = 2 * ((i + 1) \div 2) - 1
      BY <1>0, <1>2, <2>1, Parity
    <3>2. f[i] = LockIf(lockNew, W[(i + 1) \div 2])
      BY <2>1
    <3> QED BY <3>1, <3>2
  <2>2. CASE i % 2 # 1
    <3>1. i \div 2 \in 1..k /\ i = 2 * (i \div 2)
      BY <1>0, <1>2, <2>2, Parity
    <3>2. f[i] = LockIf(lockNew, gap(i \div 2))
      BY <2>2
    <3> QED BY <3>1, <3>2
  <2> QED BY <2>1, <2>2
<1>8. \A j \in 1..k : 2 * j - 1 \in 1..m /\ f[2 * j - 1] = LockIf(lockNew, W[j])
  <2> SUFFICES ASSUME NEW j \in 1..k
               PROVE  2 * j - 1 \in 1..m /\ f[2 * j - 1] = LockIf(lockNew, W[j])
    OBVIOUS
  <2>1. 2 * j - 1 \in 1..m
    BY <1>0, <1>2
  <2>2. (2 * j - 1) % 2 = 1 /\ (2 * j - 1 + 1) \div 2 = j
    BY <1>0, Halving
  <2>3. f[2 * j - 1] = IF (2 * j - 1) % 2 = 1 THEN LockIf(lockNew, W[(2 * j - 1 + 1) \div 2])
                       ELSE LockIf(lockNew, gap((2 * j - 1) \div 2))
    BY <2>1
  <2> QED BY <2>1, <2>2, <2>3
<1>9. \A j \in 1..k : 2 * j <= m => 2 * j \in 1..m /\ f[2 * j] = LockIf(lockNew, gap(j))
  <2> SUFFICES ASSUME NEW j \in 1..k, 2 * j <= m
               PROVE  2 * j \in 1..m /\ f[2 * j] = LockIf(lockNew, gap(j))
    OBVIOUS
  <2>1. 2 * j \in 1..m
    BY <1>0, <1>2
  <2>2. (2 * j) % 2 # 1 /\ (2 * j) \div 2 = j
    BY <1>0, Halving
  <2>3. f[2 * j] = IF (2 * j) % 2 = 1 THEN LockIf(lockNew, W[(2 * j + 1) \div 2])
                   ELSE LockIf(lockNew, gap((2 * j) \div 2))
    BY <2>1
  <2> QED BY <2>1, <2>2, <2>3
<1>10. f \in [1..m -> Permission]
  <2>1. \A i \in 1..m : f[i] \in Permission
    BY <1>5, <1>6, <1>7 DEF ReadToken
  <2> QED BY <2>1
<1> HIDE DEF f
<1>11. f \in Seq(Permission) /\ Len(f) = m
  BY <1>2, <1>10, FunctionIsSeq
<1>12. ReadToken(lp, newStart, W[1].start) /\ cl \in BOOLEAN
  <2>1. W[1].start \in Nat
    BY <1>0, <1>1
  <2>2. ReadToken(lp, newStart, W[1].start)
    BY Zenon, <2>1, NewLockedRead
  <2>3. \A x, y \in Nat : (x < y) \in BOOLEAN
    OBVIOUS
  <2>4. cl \in BOOLEAN
    BY <2>1, <2>3
  <2> QED BY Zenon, <2>2, <2>4
<1> HIDE DEF lp, cl
<1>13. /\ lead \in Seq(Permission)
       /\ \A i \in 1..Len(lead) : lead[i] = lp /\ cl
       /\ cl => 1 \in 1..Len(lead) /\ lead[1] = lp
  BY <1>12, OptionalType DEF ReadToken
<1> HIDE DEF lead
<1>14. mid \in Seq(Permission) /\ Includes(mid, lead) /\ Includes(mid, f)
  BY <1>11, <1>13, ConcatElements, ConcatIncludes
<1>15. Justified(lp, perms, start, end, FALSE)
  <2> SUFFICES ASSUME NEW b \in Nat, newStart <= b, b < W[1].start
               PROVE  (start <= b /\ b < end) \/ Allows(perms, b, FALSE)
    BY <1>12 DEF Justified, Covers, ReadToken, Allows
  <2>1. b < end
    BY <1>0, <1>1
  <2>2. CASE b < start
    BY Zenon, <2>2 DEF AllowsRange
  <2>3. CASE start <= b
    BY Zenon, <2>1, <2>3
  <2>4. b < start \/ start <= b
    OBVIOUS
  <2> QED BY Zenon, <2>2, <2>3, <2>4
<1>16. ASSUME NEW j \in 1..k
       PROVE  Justified(LockIf(lockNew, W[j]), perms, start, end, FALSE)
  <2>1. PICK i \in 1..Len(perms) : W[j] = perms[i]
    BY <1>1
  <2> QED BY SMTT(30), <1>6, <2>1 DEF Justified, Covers
<1>17. ASSUME NEW j \in 1..k
       PROVE  Justified(LockIf(lockNew, gap(j)), perms, start, end, FALSE)
  <2> SUFFICES ASSUME NEW b \in Nat, W[j].end <= b, b < gapEnd(j)
               PROVE  (start <= b /\ b < end) \/ Allows(perms, b, FALSE)
    BY <1>5 DEF Justified, Covers, ReadToken, Allows
  <2>1. start <= b
    BY SMTT(30), <1>1
  <2>2. CASE j = k
    <3>1. b < newEnd
      BY <2>2 DEF gapEnd
    <3>2. CASE end <= b
      BY Zenon, <3>1, <3>2 DEF AllowsRange
    <3>3. CASE b < end
      BY Zenon, <2>1, <3>3
    <3>4. end <= b \/ b < end
      OBVIOUS
    <3> QED BY Zenon, <3>2, <3>3, <3>4
  <2>3. CASE j # k
    <3>1. gapEnd(j) = W[j + 1].start /\ W[j + 1].start <= end /\ W[j + 1].start \in Nat
      BY <1>1, <1>3, <2>3 DEF gapEnd
    <3>2. b < end
      BY SMTT(30), <3>1
    <3> QED BY Zenon, <2>1, <3>2
  <2> QED BY Zenon, <2>2, <2>3
<1>18. AllJustified(mid, perms, start, end, FALSE)
  <2> SUFFICES ASSUME NEW i \in 1..Len(mid)
               PROVE  Justified(mid[i], perms, start, end, FALSE)
    BY Zenon DEF AllJustified
  <2>1. \/ i \in 1..Len(lead) /\ mid[i] = lead[i]
        \/ \E j \in 1..Len(f) : mid[i] = f[j]
    <3>1. FromParts(mid, lead, f)
      BY <1>11, <1>13, ConcatOrigin
    <3> HIDE DEF mid
    <3> QED BY Zenon, <3>1 DEF FromParts
  <2> HIDE DEF mid
  <2>2. CASE i \in 1..Len(lead) /\ mid[i] = lead[i]
    BY Zenon, <2>2, <1>13, <1>15
  <2>3. ASSUME NEW j \in 1..m, mid[i] = f[j]
        PROVE  Justified(mid[i], perms, start, end, FALSE)
    BY Zenon, <2>3, <1>7, <1>16, <1>17
  <2> QED BY Zenon, <1>11, <2>1, <2>2, <2>3
\* Take the last kept token that starts at or before b: it, or the gap behind it, covers b.
<1>19. AllowsRange(mid, start, end, FALSE)
  <2> HIDE DEF mid
  <2> SUFFICES ASSUME NEW b \in Nat, start <= b, b < end
               PROVE  \E i \in 1..Len(mid) : Covers(mid[i], b)
    BY DEF AllowsRange, Allows
  <2>1. ASSUME NEW i \in 1..m, Covers(f[i], b)
        PROVE  \E l \in 1..Len(mid) : Covers(mid[l], b)
    BY Zenon, <2>1, <1>11, <1>14 DEF Includes
  <2> DEFINE J == {j \in 1..k : W[j].start <= b}
  <2>2. CASE J = {}
    <3>1. b < W[1].start /\ newStart <= b
      BY <2>2, <1>0, <1>1
    <3>2. cl /\ Covers(lp, b)
      BY <3>1, <1>0, <1>1, <1>12 DEF Covers, ReadToken, cl
    <3>3. PICK l \in 1..Len(mid) : mid[l] = lp
      BY <3>2, <1>13, <1>14 DEF Includes
    <3> QED BY <3>2, <3>3
  <2>3. CASE J # {}
    <3> DEFINE j == Max(J)
    <3>1. J \in SUBSET Nat /\ \A x \in J : x <= k
      BY <1>0
    <3>2. j \in J /\ \A x \in J : x <= j
      BY Zenon, <1>0, <2>3, <3>1, NatSetMax
    <3>3. j \in 1..k /\ W[j].start <= b
      BY <3>2
    <3>4. j # k => b < W[j + 1].start
      <4>1. SUFFICES ASSUME j # k, ~(b < W[j + 1].start) PROVE FALSE
        OBVIOUS
      <4>2. j + 1 \in 1..k /\ W[j + 1].start \in Nat
        BY <1>1, <1>3, <3>3, <4>1
      <4>3. j + 1 \in J
        BY <4>1, <4>2
      <4>4. j + 1 <= j
        BY <3>2, <4>3
      <4> HIDE DEF j
      <4> QED BY <3>3, <4>4, <1>0
    <3> HIDE DEF j, J
    <3>5. CASE b < W[j].end
      <4>1. Covers(LockIf(lockNew, W[j]), b)
        BY <1>6, <3>3, <3>5 DEF Covers
      <4> QED BY SMTT(30), <1>8, <2>1, <3>3, <4>1
    <3>6. CASE W[j].end <= b
      <4>1. b < gapEnd(j)
        <5>1. CASE j = k
          BY <5>1 DEF gapEnd
        <5>2. CASE j # k
          BY <5>2, <3>4 DEF gapEnd
        <5> QED BY <5>1, <5>2
      <4>2. Covers(LockIf(lockNew, gap(j)), b)
        BY <1>5, <3>3, <3>6, <4>1 DEF Covers, ReadToken
      <4>3. 2 * j <= m
        <5>1. CASE j = k
          <6>1. ~inside
            BY SMTT(30), <5>1, <3>6, <1>1, <3>3
          <6> QED BY <5>1, <6>1, <1>0, <1>2
        <5>2. CASE j # k
          BY <5>2, <1>0, <1>2, <3>3
        <5> QED BY <5>1, <5>2
      <4> QED BY <1>9, <2>1, <3>3, <4>2, <4>3
    <3> QED BY <1>1, <3>3, <3>5, <3>6
  <2> QED BY <2>2, <2>3
<1>20. Interleaved(W, newStart, newEnd, lockNew) = mid
  BY DEF Interleaved, mid, lead, cl, lp, f, m, gap, gapEnd, k
<1> HIDE DEF mid
<1> QED BY Zenon, <1>14, <1>18, <1>19, <1>20

\* The branch that adds a read token, on a run that touches the range.
LEMMA AddReadProperties ==
  ASSUME NEW perms \in Seq(Permission), NEW start \in Nat, NEW end \in Nat,
         NEW lockNew \in BOOLEAN,
         NEW s \in 1..Len(perms), NEW e \in s..Len(perms),
         \A i \in s..e : IsInclusiveShared(perms[i], start, end)
  PROVE  LET new == AddRead(perms, s, e, start, end, lockNew)
         IN new \in Seq(Permission) /\ AddedTo(new, perms, start, end, FALSE)
<1> DEFINE first == perms[s]
           last  == perms[e]
           newStart == IF ~first.write /\ first.start < start THEN first.start ELSE start
           newEnd   == IF ~last.write /\ last.end > end THEN last.end ELSE end
           W == WritePermits(perms, s, e)
           p == LockIf(lockNew, NewPermission(newStart, newEnd, FALSE))
           mid == IF W = <<>> THEN <<p>> ELSE Interleaved(W, newStart, newEnd, lockNew)
<1>0. Len(perms) \in Nat /\ s \in 1..Len(perms) /\ e \in 1..Len(perms)
  BY LenProperties
<1>1. /\ first \in Permission /\ last \in Permission
      /\ end >= first.start /\ start <= first.end
      /\ end >= last.start /\ start <= last.end
  BY <1>0, ElementOfSeq DEF IsInclusiveShared
<1>2. /\ first.start \in Nat /\ first.end \in Nat
      /\ last.start \in Nat /\ last.end \in Nat
  BY <1>1 DEF Permission
<1>3. /\ newStart \in Nat /\ newStart <= start
      /\ newStart # start => newStart = first.start
  BY <1>2
<1>4. /\ newEnd \in Nat /\ end <= newEnd
      /\ newEnd # end => newEnd = last.end
  BY <1>2
<1>5. AllowsRange(perms, newStart, start, FALSE)
  <2> HIDE DEF newStart
  <2> SUFFICES ASSUME NEW b \in Nat, newStart <= b, b < start
               PROVE  Covers(perms[s], b)
    BY <1>0 DEF AllowsRange, Allows
  <2> QED BY <1>1, <1>2, <1>3 DEF Covers
<1>6. AllowsRange(perms, end, newEnd, FALSE)
  <2> HIDE DEF newEnd
  <2> SUFFICES ASSUME NEW b \in Nat, end <= b, b < newEnd
               PROVE  Covers(perms[e], b)
    BY <1>0 DEF AllowsRange, Allows
  <2> QED BY <1>1, <1>2, <1>4 DEF Covers
<1>7. W \in Seq(Permission) /\ KeptWrites(W, perms, start, end)
  BY WritePermitsProperties
<1> HIDE DEF W, newStart, newEnd, first, last
<1>8. /\ mid \in Seq(Permission)
      /\ AllJustified(mid, perms, start, end, FALSE)
      /\ AllowsRange(mid, start, end, FALSE)
  <2>1. CASE W # <<>>
    <3>1. mid = Interleaved(W, newStart, newEnd, lockNew)
      BY <2>1
    <3> HIDE DEF mid
    <3>2. newStart \in Nat /\ newEnd \in Nat /\ newStart <= start /\ end <= newEnd
      BY <1>3, <1>4
    <3> QED BY ZenonT(30), <2>1, <3>1, <3>2, <1>5, <1>6, <1>7, InterleavedProperties
  <2>2. CASE W = <<>>
    <3>1. newStart \in Nat /\ newEnd \in Nat
      BY <1>3, <1>4
    <3>2. ReadToken(p, newStart, newEnd) /\ mid = <<p>>
      BY Zenon, <2>2, <3>1, NewLockedRead
    <3> HIDE DEF p, mid
    <3>3. <<p>> \in Seq(Permission) /\ Len(<<p>>) = 1 /\ <<p>>[1] = p
      BY <3>2 DEF ReadToken
    <3>4. Justified(p, perms, start, end, FALSE)
      <4> SUFFICES ASSUME NEW b \in Nat, newStart <= b, b < newEnd
                   PROVE  (start <= b /\ b < end) \/ Allows(perms, b, FALSE)
        BY <3>2 DEF Justified, Covers, ReadToken, Allows
      <4>1. CASE b < start
        BY Zenon, <4>1, <1>5 DEF AllowsRange
      <4>2. CASE end <= b
        BY Zenon, <4>2, <1>6 DEF AllowsRange
      <4>3. b < start \/ end <= b \/ (start <= b /\ b < end)
        OBVIOUS
      <4> QED BY Zenon, <4>1, <4>2, <4>3
    <3>5. \A i \in 1..Len(mid) : mid[i] = p
      BY <3>2, <3>3
    <3>6. AllJustified(mid, perms, start, end, FALSE)
      BY Zenon, <3>4, <3>5 DEF AllJustified
    <3>7. \A b \in Nat : start <= b /\ b < end => Covers(p, b)
      BY <1>3, <1>4, <3>2 DEF Covers, ReadToken
    <3>8. 1 \in 1..Len(mid) /\ mid[1] = p
      BY <3>2, <3>3
    <3>9. AllowsRange(mid, start, end, FALSE)
      BY <3>7, <3>8 DEF AllowsRange, Allows
    <3> QED BY Zenon, <3>2, <3>3, <3>6, <3>9
  <2> QED BY Zenon, <2>1, <2>2
<1>9. AddRead(perms, s, e, start, end, lockNew) = Splice(perms, s, e, mid)
  BY DEF AddRead, mid, p, W, newStart, newEnd, first, last
<1>10. s \in 1..(Len(perms) + 1) /\ e \in (s - 1)..Len(perms)
  BY <1>0
<1> HIDE DEF mid
<1>11. \A w \in BOOLEAN : w = FALSE =>
         LET new == Splice(perms, s, e, mid)
         IN new \in Seq(Permission) /\ AddedTo(new, perms, start, end, w)
  BY Zenon, <1>8, <1>10, SpliceAdds
<1> QED BY Zenon, <1>9, <1>11

(***************************************************************************)
(* addPermission, for every vector and every range: the result allows      *)
(* nothing beyond the old tokens and the grant, and all of the grant.      *)
(***************************************************************************)
THEOREM AddProperties ==
  ASSUME NEW perms \in Seq(Permission), NEW start \in Nat, NEW end \in Nat,
         NEW write \in BOOLEAN, NEW lockNew \in BOOLEAN
  PROVE  LET new == AddPermission(perms, start, end, write, lockNew)
         IN new \in Seq(Permission) /\ AddedTo(new, perms, start, end, write)
<1> DEFINE s == FirstTouching(perms, start, end)
           e == RunEnd(perms, s, start, end)
           new == AddPermission(perms, start, end, write, lockNew)
<1>1. CASE s = 0
  <2>1. new = AddApart(perms, start, end, write, lockNew)
    BY <1>1 DEF AddPermission
  <2> QED BY <2>1, AddApartProperties
<1>2. CASE s # 0
  <2>1. /\ s \in 1..Len(perms) /\ e \in s..Len(perms)
        /\ \A i \in s..e : IsInclusiveShared(perms[i], start, end)
    BY <1>2, RunProperties
  <2>2. new = IF write THEN AddWrite(perms, s, e, start, end, lockNew)
              ELSE AddRead(perms, s, e, start, end, lockNew)
    BY <1>2 DEF AddPermission
  <2> HIDE DEF s, e, new
  <2>3. s \in s..e /\ e \in s..e
    BY <2>1, LenProperties
  <2>4. CASE write = TRUE
    <3>1. new = AddWrite(perms, s, e, start, end, lockNew)
      BY <2>2, <2>4
    <3>2. new \in Seq(Permission) /\ AddedTo(new, perms, start, end, TRUE)
      BY Zenon, <2>1, <2>3, <3>1, AddWriteProperties
    <3> QED BY Zenon, <2>4, <3>2 DEF new
  <2>5. CASE write = FALSE
    <3>1. new = AddRead(perms, s, e, start, end, lockNew)
      BY <2>2, <2>5
    <3>2. new \in Seq(Permission) /\ AddedTo(new, perms, start, end, FALSE)
      BY Zenon, <2>1, <3>1, AddReadProperties
    <3> QED BY Zenon, <2>5, <3>2 DEF new
  <2> QED BY Zenon, <2>4, <2>5
<1> QED BY <1>1, <1>2

-----------------------------------------------------------------------------
(***************************************************************************)
(* revokePermission byte by byte: nothing of the range is allowed any      *)
(* more, and nothing is allowed elsewhere that was not allowed before.     *)
(***************************************************************************)
RevokedFrom(new, perms, start, end) ==
  \A b \in Nat : \A w \in BOOLEAN :
    Allows(new, b, w) => Allows(perms, b, w) /\ ~(start <= b /\ b < end)

\* What a vector allows after a revocation, byte by byte: nothing in the
\* range, nothing new elsewhere.
THEOREM RevokeAllows ==
  ASSUME NEW perms \in Seq(Permission), NEW start \in Nat, NEW end \in Nat
  PROVE  LET new == RevokePermission(perms, start, end)
         IN new \in Seq(Permission) /\ RevokedFrom(new, perms, start, end)
<1> DEFINE new == RevokePermission(perms, start, end)
<1>1. /\ new \in Seq(Permission)
      /\ \A i \in 1..Len(new) :
           /\ ~IsShared(new[i], start, end)
           /\ \E j \in 1..Len(perms) :
                /\ new[i].write = perms[j].write
                /\ perms[j].start <= new[i].start
                /\ new[i].end <= perms[j].end
  BY RevokeProperties
<1> HIDE DEF new
<1>2. ASSUME NEW b \in Nat, NEW w \in BOOLEAN, Allows(new, b, w)
      PROVE  Allows(perms, b, w) /\ ~(start <= b /\ b < end)
  <2>1. PICK i \in 1..Len(new) : Covers(new[i], b) /\ (w => new[i].write)
    BY <1>2 DEF Allows
  <2>2. PICK j \in 1..Len(perms) : /\ new[i].write = perms[j].write
                                   /\ perms[j].start <= new[i].start
                                   /\ new[i].end <= perms[j].end
    BY <1>1
  <2>3. new[i] \in Permission /\ perms[j] \in Permission
    BY <1>1, ElementOfSeq
  <2>4. /\ new[i].start \in Nat /\ new[i].end \in Nat
        /\ perms[j].start \in Nat /\ perms[j].end \in Nat
    BY <2>3 DEF Permission
  <2>5. Covers(perms[j], b)
    BY SMTT(30), <2>1, <2>2, <2>4 DEF Covers
  <2>6. Allows(perms, b, w)
    BY <2>1, <2>2, <2>5 DEF Allows
  <2>7. ~IsShared(new[i], start, end)
    BY <1>1
  <2>8. ~(start <= b /\ b < end)
    BY <2>1, <2>4, <2>7 DEF Covers, IsShared
  <2> QED BY <2>6, <2>8
<1> QED BY <1>1, <1>2 DEF RevokedFrom, new

(***************************************************************************)
(* hasPermission answers yes only for ranges that are allowed throughout,  *)
(* whatever the order of the vector: of the chain of entries it accepts,   *)
(* the last one that starts at or before a byte covers that byte.          *)
(***************************************************************************)
THEOREM HasPermissionAllows ==
  ASSUME NEW perms \in Seq(Permission), NEW start \in Nat, NEW end \in Nat,
         NEW write \in BOOLEAN, HasPermission(perms, start, end, write)
  PROVE  AllowsRange(perms, start, end, write)
<1> DEFINE n == Len(perms)
           later == {i \in 1..n : perms[i].start > start}
           s == IF later = {} THEN n ELSE Min(later) - 1
           reaching == {i \in s..n : perms[i].end >= end}
           e == IF reaching = {} THEN n ELSE Min(reaching)
<1>0. n \in Nat
  BY LenProperties
<1>1. /\ n # 0 /\ s # 0
      /\ perms[s].start <= start
      /\ perms[e].end >= end
      /\ write => \A i \in s..e : perms[i].write
      /\ \A i \in s..(e - 1) : perms[i].end = perms[i + 1].start
  BY Zenon DEF HasPermission
<1>2. s \in 1..n
  <2>1. CASE later = {}
    BY SMTT(30), <1>0, <1>1, <2>1
  <2>2. CASE later # {}
    <3>1. later \in SUBSET Nat
      BY <1>0
    <3>2. Min(later) \in later
      BY Zenon, <2>2, <3>1, NatSetMin
    <3>3. s = Min(later) - 1 /\ Min(later) \in 1..n
      BY <2>2, <3>2
    <3> QED BY SMTT(30), <1>0, <1>1, <3>3
  <2> QED BY SMTT(30), <2>1, <2>2
<1> HIDE DEF s
<1>3. e \in s..n
  <2>1. CASE reaching = {}
    BY <1>0, <1>2, <2>1
  <2>2. CASE reaching # {}
    <3>1. reaching \in SUBSET Nat
      BY <1>2
    <3>2. Min(reaching) \in reaching
      BY Zenon, <2>2, <3>1, NatSetMin
    <3> QED BY <2>2, <3>2
  <2> QED BY <2>1, <2>2
<1> HIDE DEF e
<1>4. \A i \in s..e : i \in 1..n /\ perms[i].start \in Nat /\ perms[i].end \in Nat
  <2>1. \A i \in s..e : i \in 1..n
    BY <1>0, <1>2, <1>3
  <2>2. \A i \in 1..n : perms[i] \in Permission
    BY ElementOfSeq
  <2> QED BY <2>1, <2>2 DEF Permission
<1> SUFFICES ASSUME NEW b \in Nat, start <= b, b < end
             PROVE  \E i \in s..e : Covers(perms[i], b)
  BY <1>1, <1>4 DEF AllowsRange, Allows
<1> DEFINE chain == {i \in s..e : perms[i].start <= b}
           last == Max(chain)
<1>5. s \in chain
  BY <1>0, <1>1, <1>2, <1>3, <1>4
<1>6. chain \in SUBSET Nat /\ e \in Nat /\ \A x \in chain : x <= e
  BY <1>0, <1>2, <1>3
<1>7. last \in chain /\ \A x \in chain : x <= last
  <2> HIDE DEF chain
  <2> QED BY Zenon, <1>5, <1>6, NatSetMax
<1>8. last \in s..e /\ perms[last].start <= b
  BY <1>7
<1>9. CASE last = e
  BY <1>1, <1>4, <1>8, <1>9 DEF Covers
<1>10. CASE last # e
  <2>1. last \in s..(e - 1) /\ last + 1 \in s..e
    BY <1>0, <1>2, <1>3, <1>8, <1>10
  <2>2. ~(last + 1 <= last)
    BY <1>0, <1>2, <1>8
  <2>3. ~(perms[last + 1].start <= b)
    BY <1>7, <2>1, <2>2
  <2> HIDE DEF last
  <2>4. b < perms[last].end
    BY <1>1, <1>4, <2>1, <2>3
  <2> QED BY <1>8, <2>4 DEF Covers
<1> QED BY <1>9, <1>10
=============================================================================
