-------------------------- MODULE BlockList_proofs --------------------------
(***************************************************************************)
(* The linked lists of the cache stay well linked, for any number of       *)
(* blocks.  Links that fit together locally do not exclude a ring of nodes *)
(* beside the list, so the inductive invariant also ranks the members: the *)
(* rank falls from each node to the next with no member in between.        *)
(***************************************************************************)
EXTENDS BlockList, Integers, TLAPS

ListTypeOK ==
  /\ MRUNode \in Nodes \union {Null} /\ LRUNode \in Nodes \union {Null}
  /\ prev \in [Nodes -> Nodes \union {Null}]
  /\ next \in [Nodes -> Nodes \union {Null}]
  /\ members \subseteq Nodes

\* No member has a rank between those of m and its successor.
Adjacent(rank, m) ==
  /\ rank[next[m]] < rank[m]
  /\ \A k \in members : rank[k] < rank[m] => k = next[m] \/ rank[k] < rank[next[m]]

Ranked(rank) ==
  /\ \A k, m \in members : rank[k] = rank[m] => k = m
  /\ \A m \in members : m # MRUNode => rank[m] < rank[MRUNode]
  /\ \A m \in members : m # LRUNode => rank[LRUNode] < rank[m] /\ Adjacent(rank, m)

IInv == ListTypeOK /\ ListLinked /\ \E rank \in [Nodes -> Int] : Ranked(rank)

-----------------------------------------------------------------------------
\* The empty list is well linked.
LEMMA InitLinked == ListInit => IInv
<1> SUFFICES ASSUME ListInit PROVE IInv
  OBVIOUS
<1>1. ListTypeOK /\ ListLinked
  BY DEF ListInit, ListTypeOK, ListLinked
<1>2. [n \in Nodes |-> 0] \in [Nodes -> Int]
  OBVIOUS
<1>3. Ranked([n \in Nodes |-> 0])
  BY DEF ListInit, Ranked
<1> QED
  BY <1>1, <1>2, <1>3 DEF IInv

\* Adding in front keeps the links: the new node had none.
LEMMA AddLinked ==
  ASSUME IInv, NEW n \in Nodes, AddToList(n)
  PROVE  IInv'
<1>1. ListTypeOK'
  BY NullAssumption DEF IInv, ListTypeOK, ListLinked, AddToList, Set, SetIf
<1>2. PICK rank \in [Nodes -> Int] : Ranked(rank)
  BY DEF IInv
<1>3. CASE members = {}
  <2>1. ListLinked'
    BY <1>3, NullAssumption DEF IInv, ListTypeOK, ListLinked, AddToList, Set, SetIf
  <2>2. members' = {n} /\ MRUNode' = n /\ LRUNode' = n
    BY <1>3 DEF IInv, ListLinked, AddToList
  <2>3. Ranked(rank)'
    BY <2>2 DEF Ranked
  <2> QED
    BY <1>1, <2>1, <2>3 DEF IInv
<1>4. CASE members # {}
  <2>1. MRUNode \in members /\ LRUNode \in members /\ n # MRUNode
    BY <1>4 DEF IInv, ListLinked, AddToList
  <2>2. /\ MRUNode' = n /\ LRUNode' = LRUNode /\ members' = members \union {n}
        /\ next' = [next EXCEPT ![n] = MRUNode] /\ prev' = [prev EXCEPT ![MRUNode] = n]
        /\ n \notin members /\ n # Null /\ MRUNode # Null /\ LRUNode # Null
    BY <2>1, NullAssumption DEF IInv, ListTypeOK, ListLinked, AddToList, Set, SetIf
  <2>3. ASSUME NEW m \in members, m # MRUNode
        PROVE  prev'[m] = prev[m] /\ prev[m] \in members /\ next'[prev[m]] = m
    BY <2>1, <2>2, <2>3 DEF IInv, ListTypeOK, ListLinked
  <2>4. ASSUME NEW m \in members, m # LRUNode
        PROVE  next'[m] = next[m] /\ next[m] \in members /\ prev'[next[m]] = m
    BY <2>1, <2>2, <2>4, NullAssumption DEF IInv, ListTypeOK, ListLinked
  <2>5. next'[LRUNode] = Null /\ prev'[n] = Null /\ prev'[MRUNode] = n /\ next'[n] = MRUNode
    BY <2>1, <2>2 DEF IInv, ListTypeOK, ListLinked
  <2>6. \A m \in Nodes \ members' : prev'[m] = Null /\ next'[m] = Null
    BY <2>1, <2>2 DEF IInv, ListTypeOK, ListLinked
  <2>7. ListLinked'
    BY SMTT(30), <2>1, <2>2, <2>3, <2>4, <2>5, <2>6 DEF ListLinked
  <2>8. PICK r \in [Nodes -> Int] :
          /\ r[n] = rank[MRUNode] + 1
          /\ \A m \in members : r[m] = rank[m] /\ r[m] <= rank[MRUNode]
    <3>1. rank[MRUNode] \in Int /\ \A m \in members : rank[m] <= rank[MRUNode]
      BY <2>1, <1>2 DEF IInv, ListTypeOK, Ranked
    <3> DEFINE r0 == [rank EXCEPT ![n] = rank[MRUNode] + 1]
    <3>2. r0 \in [Nodes -> Int] /\ r0[n] = rank[MRUNode] + 1
      BY <3>1, <2>2 DEF IInv, ListTypeOK
    <3>3. \A m \in members : r0[m] = rank[m] /\ r0[m] <= rank[MRUNode]
      BY <3>1, <2>2 DEF IInv, ListTypeOK
    <3> QED BY Zenon, <3>2, <3>3
  <2>9. /\ \A m \in members' : r[m] \in Int /\ rank[m] \in Int
        /\ \A m \in members : r[m] < r[n]
    BY <2>1, <2>2, <2>8 DEF IInv, ListTypeOK
  <2>10. Ranked(r)'
    <3>1. ASSUME NEW m \in members, m # LRUNode PROVE Adjacent(r, m)'
      <4>1. Adjacent(rank, m)
        BY <3>1, <1>2 DEF Ranked
      <4>2. next'[m] = next[m] /\ next[m] \in members
        BY <2>4, <3>1
      <4>3. r[n] > r[m] /\ ~(r[n] < r[m])
        BY <2>9, <2>2, <3>1
      <4> QED
        BY <4>1, <4>2, <4>3, <2>2, <2>8 DEF Adjacent
    <3>2. Adjacent(r, n)'
      <4>1. \A k \in members : k = MRUNode \/ r[k] < r[MRUNode]
        BY <1>2, <2>1, <2>8 DEF Ranked
      <4>2. r[MRUNode] < r[n] /\ ~(r[n] < r[n])
        BY <2>1, <2>2, <2>9
      <4> QED
        BY <4>1, <4>2, <2>2, <2>5 DEF Adjacent
    <3>3. \A k, m \in members' : r[k] = r[m] => k = m
      BY <1>2, <2>2, <2>8, <2>9 DEF Ranked
    <3>4. \A m \in members' : m # MRUNode' => r[m] < r[MRUNode']
      BY <2>2, <2>9
    <3>5. \A m \in members' : m # LRUNode' => r[LRUNode'] < r[m]
      BY SMTT(30), <1>2, <2>1, <2>2, <2>8, <2>9 DEF Ranked
    <3> QED
      BY <2>2, <3>1, <3>2, <3>3, <3>4, <3>5 DEF Ranked
  <2> QED
    BY <1>1, <2>7, <2>10 DEF IInv
<1> QED
  BY <1>3, <1>4

\* Removing the only node empties the list; its links were null already.
LEMMA OnlyLinked ==
  ASSUME IInv, NEW n \in Nodes, RemoveOnly(n)
  PROVE  IInv'
<1>1. PICK rank \in [Nodes -> Int] : Ranked(rank)
  BY DEF IInv
<1>2. members = {n}
  <2>1. ASSUME NEW m \in members, m # n PROVE FALSE
    <3>1. rank[m] \in Int /\ rank[n] \in Int
      BY <2>1, <1>1 DEF IInv, ListTypeOK
    <3>2. rank[m] < rank[n] /\ rank[n] < rank[m]
      BY <2>1, <1>1 DEF RemoveOnly, Ranked
    <3> QED
      BY <3>1, <3>2
  <2> QED
    BY <2>1 DEF RemoveOnly
<1>3. prev[n] = Null /\ next[n] = Null
  BY DEF IInv, ListLinked, RemoveOnly
<1>4. members' = {} /\ MRUNode' = Null /\ LRUNode' = Null /\ prev' = prev /\ next' = next
  BY <1>2 DEF RemoveOnly
<1>5. ListTypeOK' /\ ListLinked'
  BY <1>2, <1>3, <1>4 DEF IInv, ListTypeOK, ListLinked
<1>6. Ranked(rank)'
  BY <1>4 DEF Ranked
<1> QED
  BY <1>5, <1>6 DEF IInv

-----------------------------------------------------------------------------
\* What removing one of several nodes does to the pointers.
Unlinks(n) ==
  /\ n \in members /\ MRUNode # LRUNode
  /\ members' = members \ {n}
  /\ LRUNode' = IF n = LRUNode THEN prev[n] ELSE LRUNode
  /\ MRUNode' = IF n = MRUNode THEN next[n] ELSE MRUNode
  /\ next' \in [Nodes -> Nodes \union {Null}]
  /\ prev' \in [Nodes -> Nodes \union {Null}]
  /\ next'[n] = Null /\ prev'[n] = Null
  /\ \A m \in Nodes \ {n} :
       /\ next'[m] = IF n # MRUNode /\ m = prev[n] THEN next[n] ELSE next[m]
       /\ prev'[m] = IF n # LRUNode /\ m = next[n] THEN prev[n] ELSE prev[m]

\* The neighbours of a node differ from it and from each other.
LEMMA Neighbours ==
  ASSUME IInv, NEW rank \in [Nodes -> Int], Ranked(rank), NEW n \in members
  PROVE  /\ n # MRUNode => prev[n] \in members /\ next[prev[n]] = n /\ prev[n] # n
                           /\ prev[n] # LRUNode /\ rank[n] < rank[prev[n]]
         /\ n # LRUNode => next[n] \in members /\ prev[next[n]] = n /\ next[n] # n
                           /\ next[n] # MRUNode /\ rank[next[n]] < rank[n]
         /\ n # LRUNode /\ n # MRUNode => prev[n] # next[n]
<1>1. n \in Nodes /\ n # Null /\ rank[n] \in Int /\ members \subseteq Nodes
  BY NullAssumption DEF IInv, ListTypeOK
<1>2. ASSUME n # MRUNode
      PROVE  /\ prev[n] \in members /\ next[prev[n]] = n /\ prev[n] # n
             /\ prev[n] # LRUNode /\ rank[n] < rank[prev[n]]
  <2>1. prev[n] \in members /\ next[prev[n]] = n
    BY <1>2 DEF IInv, ListLinked
  <2>2. prev[n] # LRUNode
    BY <1>1, <2>1 DEF IInv, ListLinked
  <2>3. rank[n] < rank[prev[n]]
    BY <2>1, <2>2 DEF Ranked, Adjacent
  <2> QED
    BY <1>1, <2>1, <2>2, <2>3
<1>3. ASSUME n # LRUNode
      PROVE  /\ next[n] \in members /\ prev[next[n]] = n /\ next[n] # n
             /\ next[n] # MRUNode /\ rank[next[n]] < rank[n]
  <2>1. next[n] \in members /\ prev[next[n]] = n
    BY <1>3 DEF IInv, ListLinked
  <2>2. next[n] # MRUNode
    BY <1>1, <2>1 DEF IInv, ListLinked
  <2>3. rank[next[n]] < rank[n]
    BY <1>3 DEF Ranked, Adjacent
  <2> QED
    BY <1>1, <2>1, <2>2, <2>3
<1>4. ASSUME n # MRUNode, n # LRUNode, prev[n] = next[n] PROVE FALSE
  BY <1>1, <1>2, <1>3, <1>4
<1> QED
  BY <1>2, <1>3, <1>4

\* Joining the neighbours of a removed node keeps the list ranked.
LEMMA UnlinkRanked ==
  ASSUME IInv, NEW rank \in [Nodes -> Int], Ranked(rank), NEW n, Unlinks(n)
  PROVE  Ranked(rank)'
<1>1. n \in members /\ members' \subseteq members /\ n \notin members' /\ members \subseteq Nodes
  BY DEF Unlinks, IInv, ListTypeOK
<1>2. \A m \in members : rank[m] \in Int
  BY <1>1
<1>3. MRUNode \in members /\ LRUNode \in members
  BY <1>1 DEF IInv, ListLinked
<1>4. \A k, m \in members' : rank[k] = rank[m] => k = m
  BY <1>1 DEF Ranked
<1>5. ASSUME NEW m \in members', m # MRUNode' PROVE rank[m] < rank[MRUNode']
  <2>1. CASE n = MRUNode
    <3>1. n # LRUNode /\ MRUNode' = next[n] /\ m # n
      BY <1>1, <2>1 DEF Unlinks
    <3>2. rank[m] < rank[n] /\ Adjacent(rank, n)
      BY <1>1, <2>1, <3>1 DEF Ranked
    <3> QED
      BY <1>1, <1>5, <3>1, <3>2 DEF Adjacent
  <2>2. CASE n # MRUNode
    BY <1>1, <1>5, <2>2 DEF Unlinks, Ranked
  <2> QED
    BY <2>1, <2>2
<1>6. ASSUME NEW m \in members', m # LRUNode' PROVE rank[LRUNode'] < rank[m]
  <2>1. CASE n = LRUNode
    <3>1. n # MRUNode /\ LRUNode' = prev[n] /\ m # n
      BY <1>1, <2>1 DEF Unlinks
    <3>2. prev[n] \in members /\ next[prev[n]] = n /\ prev[n] # LRUNode
      BY <3>1, <1>1, Neighbours
    <3>3. rank[n] < rank[m] /\ Adjacent(rank, prev[n])
      BY <1>1, <2>1, <3>1, <3>2 DEF Ranked
    <3>4. ~(rank[m] < rank[prev[n]])
      BY <1>1, <1>2, <3>1, <3>2, <3>3 DEF Adjacent
    <3>5. rank[m] # rank[prev[n]]
      BY <1>1, <1>6, <3>1, <3>2 DEF Ranked
    <3> QED
      BY SMTT(30), <1>1, <1>2, <3>1, <3>2, <3>4, <3>5
  <2>2. CASE n # LRUNode
    BY <1>1, <1>6, <2>2 DEF Unlinks, Ranked
  <2> QED
    BY <2>1, <2>2
<1>7. ASSUME NEW m \in members', m # LRUNode' PROVE Adjacent(rank, m)'
  <2>1. m \in Nodes \ {n} /\ m \in members
    BY <1>1
  <2>2. CASE n # MRUNode /\ m = prev[n]
    <3>1. n # LRUNode /\ next'[m] = next[n]
      BY <1>7, <2>1, <2>2 DEF Unlinks
    <3>2. next[m] = n /\ m # LRUNode /\ rank[n] < rank[m] /\ next[n] \in members
      BY <1>1, <2>2, <3>1, Neighbours
    <3>3. Adjacent(rank, m) /\ Adjacent(rank, n)
      BY <1>1, <2>1, <3>1, <3>2 DEF Ranked
    <3> QED
      BY SMTT(30), <1>1, <1>2, <2>1, <3>1, <3>2, <3>3 DEF Adjacent
  <2>3. CASE ~(n # MRUNode /\ m = prev[n])
    <3>1. next'[m] = next[m]
      BY <2>1, <2>3 DEF Unlinks
    <3>2. m # LRUNode
      BY <1>1, <1>7 DEF Unlinks
    <3>3. Adjacent(rank, m)
      BY <2>1, <3>2 DEF Ranked
    <3> QED
      BY <1>1, <3>1, <3>3 DEF Adjacent
  <2> QED
    BY <2>2, <2>3
<1> QED
  BY <1>4, <1>5, <1>6, <1>7 DEF Ranked

\* Joining the neighbours of a removed node keeps the list linked.
LEMMA UnlinkLinked ==
  ASSUME IInv, NEW n, Unlinks(n)
  PROVE  IInv'
<1>1. PICK rank \in [Nodes -> Int] : Ranked(rank)
  BY DEF IInv
<1>2. n \in members /\ members \subseteq Nodes /\ members' = members \ {n}
  BY DEF Unlinks, IInv, ListTypeOK
<1>3. MRUNode \in members /\ LRUNode \in members /\ MRUNode # LRUNode
  BY <1>2 DEF IInv, ListLinked, Unlinks
<1>4. MRUNode' \in members' /\ LRUNode' \in members'
  BY <1>1, <1>2, <1>3, Neighbours DEF Unlinks
<1>5. ASSUME NEW m \in members'
      PROVE  IF m = MRUNode' THEN prev'[m] = Null
             ELSE prev'[m] \in members' /\ next'[prev'[m]] = m
  <2>1. m \in members /\ m # n /\ m \in Nodes
    BY <1>2
  <2>2. CASE n # LRUNode /\ m = next[n]
    <3>1. prev'[m] = prev[n] /\ m # MRUNode
      BY SMTT(30), <1>1, <1>2, <2>1, <2>2, Neighbours DEF Unlinks
    <3>2. CASE n = MRUNode
      BY <1>2, <2>2, <3>1, <3>2 DEF Unlinks, IInv, ListLinked
    <3>3. CASE n # MRUNode
      <4>1. prev[n] \in members /\ prev[n] # n /\ MRUNode' = MRUNode
        BY SMTT(30), <1>1, <1>2, <3>3, Neighbours DEF Unlinks
      <4>2. next'[prev[n]] = m
        BY <1>2, <2>2, <3>3, <4>1 DEF Unlinks
      <4> QED
        BY <1>2, <3>1, <4>1, <4>2
    <3> QED
      BY <3>2, <3>3
  <2>3. CASE ~(n # LRUNode /\ m = next[n])
    <3>1. prev'[m] = prev[m] /\ (m = MRUNode' <=> m = MRUNode)
      BY <1>2, <1>3, <2>1, <2>3 DEF Unlinks
    <3>2. CASE m = MRUNode
      BY <2>1, <3>1, <3>2 DEF IInv, ListLinked
    <3>3. CASE m # MRUNode
      <4>1. prev[m] \in members /\ next[prev[m]] = m
        BY <2>1, <3>3 DEF IInv, ListLinked
      <4>2. prev[m] # n
        <5>1. CASE n = LRUNode
          BY SMTT(30), <1>2, <2>1, <4>1, <5>1, NullAssumption DEF IInv, ListLinked
        <5>2. CASE n # LRUNode
          BY <2>3, <4>1, <5>2
        <5> QED
          BY <5>1, <5>2
      <4>3. n # MRUNode => prev[m] # prev[n]
        BY <1>1, <1>2, <2>1, <4>1, Neighbours
      <4>4. next'[prev[m]] = m
        BY SMTT(30), <1>2, <4>1, <4>2, <4>3 DEF Unlinks
      <4> QED
        BY SMTT(30), <1>2, <3>1, <3>3, <4>1, <4>2, <4>4
    <3> QED
      BY <3>2, <3>3
  <2> QED
    BY <2>2, <2>3
<1>6. ASSUME NEW m \in members'
      PROVE  IF m = LRUNode' THEN next'[m] = Null
             ELSE next'[m] \in members' /\ prev'[next'[m]] = m
  <2>1. m \in members /\ m # n /\ m \in Nodes
    BY <1>2
  <2>2. CASE n # MRUNode /\ m = prev[n]
    <3>1. next'[m] = next[n] /\ m # LRUNode
      BY SMTT(30), <1>1, <1>2, <2>1, <2>2, Neighbours DEF Unlinks
    <3>2. CASE n = LRUNode
      BY SMTT(30), <1>2, <2>2, <3>1, <3>2 DEF Unlinks, IInv, ListLinked
    <3>3. CASE n # LRUNode
      <4>1. next[n] \in members /\ next[n] # n /\ LRUNode' = LRUNode
        BY <1>1, <1>2, <3>3, Neighbours DEF Unlinks
      <4>2. prev'[next[n]] = m
        BY SMTT(30), <1>2, <2>2, <3>3, <4>1 DEF Unlinks
      <4> QED
        BY <1>2, <3>1, <4>1, <4>2
    <3> QED
      BY <3>2, <3>3
  <2>3. CASE ~(n # MRUNode /\ m = prev[n])
    <3>1. next'[m] = next[m] /\ (m = LRUNode' <=> m = LRUNode)
      BY <1>2, <1>3, <2>1, <2>3 DEF Unlinks
    <3>2. CASE m = LRUNode
      BY SMTT(30), <2>1, <3>1, <3>2 DEF IInv, ListLinked
    <3>3. CASE m # LRUNode
      <4>1. next[m] \in members /\ prev[next[m]] = m
        BY <2>1, <3>3 DEF IInv, ListLinked
      <4>2. next[m] # n
        <5>1. CASE n = MRUNode
          BY SMTT(30), <1>2, <2>1, <4>1, <5>1, NullAssumption DEF IInv, ListLinked
        <5>2. CASE n # MRUNode
          BY <2>3, <4>1, <5>2
        <5> QED
          BY <5>1, <5>2
      <4>3. n # LRUNode => next[m] # next[n]
        BY <1>1, <1>2, <2>1, <4>1, Neighbours
      <4>4. prev'[next[m]] = m
        BY <1>2, <4>1, <4>2, <4>3 DEF Unlinks
      <4> QED
        BY <1>2, <3>1, <3>3, <4>1, <4>2, <4>4
    <3> QED
      BY <3>2, <3>3
  <2> QED
    BY <2>2, <2>3
<1>7. ASSUME NEW m \in Nodes \ members' PROVE prev'[m] = Null /\ next'[m] = Null
  <2>1. CASE m = n
    BY <2>1 DEF Unlinks
  <2>2. CASE m # n
    <3>1. m \notin members /\ prev[m] = Null /\ next[m] = Null
      BY <1>2, <2>2 DEF IInv, ListLinked
    <3>2. (n # MRUNode => m # prev[n]) /\ (n # LRUNode => m # next[n])
      BY <1>1, <1>2, <3>1, Neighbours
    <3> QED
      BY <2>2, <3>1, <3>2 DEF Unlinks
  <2> QED
    BY <2>1, <2>2
<1>8. ListLinked'
  BY <1>2, <1>4, <1>5, <1>6, <1>7, NullAssumption DEF ListLinked
<1>9. ListTypeOK'
  BY <1>2, <1>4 DEF ListTypeOK, Unlinks
<1>10. Ranked(rank)'
  BY <1>1, UnlinkRanked
<1> QED
  BY <1>8, <1>9, <1>10 DEF IInv

\* removeFromRecencyList, removeFromDirtyList for one of several nodes.
LEMMA RemoveLinked ==
  ASSUME IInv, NEW n \in Nodes, RemoveFromList(n)
  PROVE  IInv'
<1>1. PICK rank \in [Nodes -> Int] : Ranked(rank)
  BY DEF IInv
<1>2. n \in members /\ members \subseteq Nodes /\ MRUNode \in members /\ LRUNode \in members
  BY DEF RemoveFromList, IInv, ListTypeOK, ListLinked
<1>3. MRUNode # LRUNode
  <2>1. SUFFICES ASSUME MRUNode = LRUNode PROVE FALSE
    OBVIOUS
  <2>2. n # MRUNode
    BY <2>1 DEF RemoveFromList
  <2>3. rank[n] < rank[MRUNode] /\ rank[MRUNode] < rank[n]
    BY SMTT(30), <1>1, <1>2, <2>1, <2>2 DEF Ranked
  <2> QED
    BY <1>2, <2>3
<1>4. /\ n # Null
      /\ n = MRUNode => prev[n] = Null
      /\ n # MRUNode => prev[n] \in members
      /\ n = LRUNode => next[n] = Null
      /\ n # LRUNode => next[n] \in members
  BY <1>2, NullAssumption DEF IInv, ListLinked
<1>5. Unlinks(n)
  BY <1>2, <1>3, <1>4, NullAssumption
     DEF RemoveFromList, Unlinks, Set, SetIf, IInv, ListTypeOK
<1> QED
  BY <1>5, UnlinkLinked

\* removeRecencyListLRU, removeDirtyListLRU for a list of several nodes.
LEMMA LRULinked ==
  ASSUME IInv, RemoveLRU
  PROVE  IInv'
<1>1. LRUNode \in members /\ members \subseteq Nodes /\ LRUNode # MRUNode
  BY DEF RemoveLRU, IInv, ListTypeOK, ListLinked
<1>2. next[LRUNode] = Null /\ prev[LRUNode] \in members /\ LRUNode # Null
  BY <1>1, NullAssumption DEF IInv, ListLinked
<1>3. Unlinks(LRUNode)
  BY <1>1, <1>2, NullAssumption DEF RemoveLRU, Unlinks, Set, SetIf, IInv, ListTypeOK
<1> QED
  BY <1>3, UnlinkLinked

\* removeRecencyListLRU, removeDirtyListLRU for a list of one node.
LEMMA LastLinked ==
  ASSUME IInv, RemoveLastLRU
  PROVE  IInv'
<1>1. LRUNode \in Nodes /\ LRUNode \in members
  BY DEF RemoveLastLRU, IInv, ListTypeOK, ListLinked
<1>2. prev[LRUNode] = Null /\ next[LRUNode] = Null
  BY <1>1 DEF RemoveLastLRU, IInv, ListLinked
<1>3. prev' = prev /\ next' = next
  BY <1>1, <1>2 DEF RemoveLastLRU, Set, IInv, ListTypeOK
<1>4. RemoveOnly(LRUNode)
  BY <1>1, <1>3 DEF RemoveLastLRU, RemoveOnly
<1> QED
  BY <1>1, <1>4, OnlyLinked

\* Every step of the list keeps the invariant.
LEMMA StepLinked ==
  ASSUME IInv, [ListNext]_listVars
  PROVE  IInv'
<1>1. CASE UNCHANGED listVars
  BY <1>1 DEF IInv, ListTypeOK, ListLinked, Ranked, Adjacent, listVars
<1>2. ASSUME NEW n \in Nodes, AddToList(n) \/ RemoveOnly(n) \/ RemoveFromList(n)
      PROVE  IInv'
  BY <1>2, AddLinked, OnlyLinked, RemoveLinked
<1>3. CASE RemoveLastLRU \/ RemoveLRU
  BY <1>3, LastLinked, LRULinked
<1> QED
  BY <1>1, <1>2, <1>3 DEF ListNext

(***************************************************************************)
(* Whatever blocks are used, dropped and recycled, each list of the cache  *)
(* is doubly linked over exactly its members.                              *)
(***************************************************************************)
THEOREM ListStaysLinked == ListSpec => []ListLinked
<1>1. IInv => ListLinked
  BY DEF IInv
<1> QED
  BY InitLinked, StepLinked, <1>1, PTL DEF ListSpec

(***************************************************************************)
(* The assertions in removeRecencyListLRU and removeDirtyListLRU hold.     *)
(***************************************************************************)
THEOREM LRUAssertsHold == ListSpec => []AssertsHold
<1>1. IInv => AssertsHold
  BY NullAssumption DEF IInv, ListTypeOK, ListLinked, AssertsHold
<1> QED
  BY InitLinked, StepLinked, <1>1, PTL DEF ListSpec
=============================================================================
