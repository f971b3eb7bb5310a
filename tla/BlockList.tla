----------------------------- MODULE BlockList -----------------------------
(***************************************************************************)
(* The doubly linked lists of the cache, pointer by pointer.  The recency  *)
(* list and the dirty list have the same code over two sets of links (the  *)
(* ListNodes recencyNode and dirtyNode of a block); this is one of them.   *)
(* The caller holds cacheLock, adds only nodes that are not in the list    *)
(* and removes only nodes that are: the clean flag of the block tells.     *)
(***************************************************************************)
EXTENDS Naturals, FiniteSets

CONSTANTS Nodes, Null

ASSUME NullAssumption == Null \notin Nodes

VARIABLES
  MRUNode, LRUNode,  \* the two ends
  prev, next,        \* the links of every node
  members            \* the nodes in the list, as the cache knows them

listVars == <<MRUNode, LRUNode, prev, next, members>>

ListInit ==
  /\ MRUNode = Null /\ LRUNode = Null
  /\ prev = [n \in Nodes |-> Null]
  /\ next = [n \in Nodes |-> Null]
  /\ members = {}

\* The links with that of m set to n, when m is a node at all.
Set(links, m, n) == [links EXCEPT ![m] = n]

SetIf(links, m, n) == IF m = Null THEN links ELSE Set(links, m, n)

\* Mutant: the old front is not linked back to the new one.
MutOneWay(n) ==
  /\ n \notin members
  /\ MRUNode' = n
  /\ LRUNode' = IF LRUNode = Null THEN n ELSE LRUNode
  /\ next' = Set(next, n, MRUNode)
  /\ members' = members \union {n}
  /\ UNCHANGED prev

\* addToRecencyList and addToDirtyList; the prev link of n is left as it is.
AddToList(n) ==
  /\ n \notin members
  /\ MRUNode' = n
  /\ LRUNode' = IF LRUNode = Null THEN n ELSE LRUNode
  /\ next' = Set(next, n, MRUNode)
  /\ prev' = SetIf(prev, MRUNode, n)
  /\ members' = members \union {n}

\* removeFrom... for the only node: the links of the node are not reset.
RemoveOnly(n) ==
  /\ n \in members
  /\ n = MRUNode /\ n = LRUNode
  /\ MRUNode' = Null /\ LRUNode' = Null
  /\ members' = members \ {n}
  /\ UNCHANGED <<prev, next>>

\* Mutant: the front pointer is not moved.
MutFrontStays(n) ==
  /\ n \in members
  /\ ~(n = MRUNode /\ n = LRUNode)
  /\ LRUNode' = IF n = LRUNode THEN prev[n] ELSE LRUNode
  /\ next' = Set(SetIf(next, prev[n], next[n]), n, Null)
  /\ prev' = Set(SetIf(prev, next[n], prev[n]), n, Null)
  /\ members' = members \ {n}
  /\ UNCHANGED MRUNode

\* removeFrom... for one of several.
RemoveFromList(n) ==
  /\ n \in members
  /\ ~(n = MRUNode /\ n = LRUNode)
  /\ LRUNode' = IF n = LRUNode THEN prev[n] ELSE LRUNode
  /\ MRUNode' = IF n = MRUNode THEN next[n] ELSE MRUNode
  /\ next' = Set(SetIf(next, prev[n], next[n]), n, Null)
  /\ prev' = Set(SetIf(prev, next[n], prev[n]), n, Null)
  /\ members' = members \ {n}

\* remove...ListLRU when the list has one node.
RemoveLastLRU ==
  /\ LRUNode # Null
  /\ LRUNode = MRUNode
  /\ MRUNode' = Null /\ LRUNode' = Null
  /\ next' = Set(next, LRUNode, Null)
  /\ prev' = Set(prev, LRUNode, Null)
  /\ members' = members \ {LRUNode}

\* Mutant: the links of the removed node are not reset.
MutKeepLinks ==
  /\ LRUNode # Null
  /\ LRUNode # MRUNode
  /\ LRUNode' = prev[LRUNode]
  /\ next' = SetIf(next, prev[LRUNode], next[LRUNode])
  /\ members' = members \ {LRUNode}
  /\ UNCHANGED <<MRUNode, prev>>

\* remove...ListLRU when the list has several.
RemoveLRU ==
  /\ LRUNode # Null
  /\ LRUNode # MRUNode
  /\ LRUNode' = prev[LRUNode]
  /\ next' = Set(SetIf(next, prev[LRUNode], next[LRUNode]), LRUNode, Null)
  /\ prev' = Set(prev, LRUNode, Null)
  /\ members' = members \ {LRUNode}
  /\ UNCHANGED MRUNode

ListNext ==
  \/ \E n \in Nodes : AddToList(n) \/ RemoveOnly(n) \/ RemoveFromList(n)
  \/ RemoveLastLRU \/ RemoveLRU

ListSpec == ListInit /\ [][ListNext]_listVars

-----------------------------------------------------------------------------
(***************************************************************************)
(* The list is doubly linked from end to end over exactly its members, and *)
(* no other node keeps a link into it.                                     *)
(***************************************************************************)
ListLinked ==
  /\ MRUNode = Null <=> members = {}
  /\ LRUNode = Null <=> members = {}
  /\ members # {} => MRUNode \in members /\ LRUNode \in members
  /\ \A n \in members :
       /\ IF n = MRUNode THEN prev[n] = Null
          ELSE prev[n] \in members /\ next[prev[n]] = n
       /\ IF n = LRUNode THEN next[n] = Null
          ELSE next[n] \in members /\ prev[next[n]] = n
  /\ \A n \in Nodes \ members : prev[n] = Null /\ next[n] = Null

(***************************************************************************)
(* The assertions of removeRecencyListLRU and removeDirtyListLRU hold: the *)
(* oldest of several nodes has a predecessor and no successor.             *)
(***************************************************************************)
AssertsHold ==
  LRUNode # Null /\ LRUNode # MRUNode => prev[LRUNode] # Null /\ next[LRUNode] = Null

\* The nodes met by following next from MRUNode, as printRecencyList does.
Order ==
  LET at[i \in 1..Cardinality(members)] ==
        IF i = 1 THEN MRUNode
        ELSE IF at[i - 1] = Null THEN Null ELSE next[at[i - 1]]
  IN [i \in 1..Cardinality(members) |-> at[i]]

(***************************************************************************)
(* The pointers implement a list of nodes in the order of their last use.  *)
(***************************************************************************)
Recency == INSTANCE LRUOrder WITH order <- Order

ImplementsLRUOrder == Recency!Spec
=============================================================================
