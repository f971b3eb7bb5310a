---------------------------- MODULE Cache_proofs ----------------------------
(***************************************************************************)
(* Type correctness of the cache and the safety of its free list, for any  *)
(* number of blocks, thresholds, addresses and contents.                   *)
(***************************************************************************)
EXTENDS Cache, Extremes_proofs

\* A thread that carries a block has one to carry.
Carrying ==
  /\ app.pc = "filling" => app.node # Null
  /\ harvester.pc = "freeing" => harvester.node # Null

(***************************************************************************)
(* Two waits pay for each block taken and nothing is ever paid back, so    *)
(* half the blocks stay free: the waits done so far, 1 of them for the     *)
(* block about to be taken, bound the blocks that are gone.                *)
(***************************************************************************)
FreeBound ==
  2 * Len(free) >= BlockCount + freeBlockSemaphore + (IF app.pc = "admitted" THEN 1 ELSE 0)

IInv == CacheTypeOK /\ Carrying /\ FreeBound

-----------------------------------------------------------------------------
\* Removing a node leaves a list.
LEMMA RemoveType ==
  ASSUME NEW S, NEW list \in Seq(S), NEW n
  PROVE  RemoveFirst(list, n) \in Seq(S)
<1>1. CASE \E i \in 1..Len(list) : list[i] = n
  <2> DEFINE I == {i \in 1..Len(list) : list[i] = n}
  <2>1. I \in SUBSET Nat /\ I # {}
    BY <1>1
  <2>2. RemoveFirst(list, n) = RemoveAt(list, Min(I))
    BY Zenon, <1>1, <2>1 DEF RemoveFirst, SelectInSeq
  <2>3. Min(I) \in 1..Len(list)
    BY Zenon, <2>1, NatSetMin
  <2>4. ASSUME NEW k \in 1..Len(list)
        PROVE  RemoveAt(list, k) \in Seq(S)
    <3>1. SubSeq(list, 1, k - 1) \in Seq(S) /\ SubSeq(list, k + 1, Len(list)) \in Seq(S)
      OBVIOUS
    <3> QED
      BY <3>1 DEF RemoveAt
  <2> QED
    BY Zenon, <2>2, <2>3, <2>4
<1>2. CASE ~\E i \in 1..Len(list) : list[i] = n
  BY <1>2 DEF RemoveFirst
<1> QED
  BY <1>1, <1>2

\* Adding a node in front makes the list one longer.
LEMMA ConsType ==
  ASSUME NEW S, NEW list \in Seq(S), NEW n \in S
  PROVE  Cons(n, list) \in Seq(S) /\ Len(Cons(n, list)) = Len(list) + 1
BY DEF Cons

\* The oldest node of a list, and the list without it.
LEMMA LastType ==
  ASSUME NEW S, NEW list \in Seq(S), list # <<>>
  PROVE  Last(list) \in S /\ Front(list) \in Seq(S)
BY DEF Last, Front

\* Moving a node to the front leaves a list.
LEMMA ToFrontType ==
  ASSUME NEW S, NEW list \in Seq(S), NEW n \in S
  PROVE  ToFront(list, n) \in Seq(S)
BY RemoveType, ConsType DEF ToFront

\* lookup returns a node or null.
LEMMA LookupType ==
  ASSUME CacheTypeOK, NEW a \in Addrs
  PROVE  Lookup(a) \in Nodes \union {Null}
<1>1. CASE Found(a) = {}
  BY <1>1 DEF Lookup
<1>2. CASE Found(a) # {}
  <2>1. Found(a) \in SUBSET Nat /\ Found(a) \subseteq 1..Len(hashTable)
    BY DEF Found
  <2>2. Min(Found(a)) \in 1..Len(hashTable)
    BY ZenonT(30), <1>2, <2>1, NatSetMin
  <2>3. ASSUME NEW i \in 1..Len(hashTable) PROVE hashTable[i] \in Nodes
    BY DEF CacheTypeOK, App
  <2> QED
    BY Zenon, <1>2, <2>2, <2>3 DEF Lookup
<1> QED
  BY <1>1, <1>2

\* The values an idle application thread is reset to are legal.
LEMMA IdleType == SomeAddr \in Addrs /\ 0 \in Values /\ Null \notin Nodes
BY CacheAssumption DEF SomeAddr, Nodes, Null

\* The cache starts with every block free.
LEMMA InitInv == CacheInit => IInv
<1> SUFFICES ASSUME CacheInit PROVE IInv
  OBVIOUS
<1>1. free \in Seq(Nodes) /\ Len(free) = BlockCount
  BY CacheAssumption DEF CacheInit, Nodes
<1>2. CacheTypeOK
  BY SMTT(30), <1>1, IdleType, CacheAssumption DEF CacheInit, CacheTypeOK, App, AppIdle, Block, Null
<1>3. Carrying /\ FreeBound
  BY <1>1, CacheAssumption DEF CacheInit, Carrying, FreeBound, AppIdle
<1> QED
  BY <1>2, <1>3 DEF IInv

-----------------------------------------------------------------------------
\* The steps of the application thread that do not take a block.
LEMMA HitInv ==
  ASSUME IInv, NEW a \in Addrs, NEW v \in Values, ReadHit(a) \/ WriteHit(a, v)
  PROVE  IInv'
<1>1. Lookup(a) \in Nodes
  BY Zenon, LookupType DEF IInv, ReadHit, WriteHit
<1>2. /\ recency' \in Seq(Nodes) /\ dirty' \in Seq(Nodes)
      /\ block' \in [Nodes -> Block]
  <2>1. block \in [Nodes -> Block] /\ recency \in Seq(Nodes) /\ dirty \in Seq(Nodes)
    BY DEF IInv, CacheTypeOK, App
  <2>2. /\ RemoveFirst(recency, Lookup(a)) \in Seq(Nodes)
        /\ ToFront(recency, Lookup(a)) \in Seq(Nodes)
        /\ ToFront(dirty, Lookup(a)) \in Seq(Nodes)
    BY Zenon, <1>1, <2>1, RemoveType, ToFrontType
  <2>3. block' \in [Nodes -> Block]
    BY ZenonT(30), <1>1, <2>1 DEF ReadHit, WriteHit, Store, Block
  <2> QED
    BY Zenon, <2>1, <2>2, <2>3 DEF ReadHit, WriteHit, Store
<1>3. free' = free /\ hashTable' = hashTable /\ UNCHANGED <<semaphores, threads, server>>
  BY Zenon DEF ReadHit, WriteHit, Store
<1>4. written' \in [Addrs -> Values] /\ dropped' \subseteq Addrs
  BY ZenonT(30) DEF IInv, CacheTypeOK, App, ReadHit, WriteHit, WriteReturns, history
<1> QED
  BY <1>2, <1>3, <1>4 DEF IInv, CacheTypeOK, App, Carrying, FreeBound, semaphores, threads

\* A miss only starts the refill.
LEMMA MissInv ==
  ASSUME IInv, NEW a \in Addrs, NEW v \in Values, NEW w \in BOOLEAN, Miss(a, w, v)
  PROVE  IInv'
BY Zenon, IdleType DEF IInv, CacheTypeOK, App, Carrying, FreeBound, Miss, AppIdle,
   lists, semaphores, history

\* The block comes from the file server.
LEMMA FetchInv ==
  ASSUME IInv, Fetch
  PROVE  IInv'
BY Zenon DEF IInv, CacheTypeOK, App, Carrying, FreeBound, Fetch, lists, semaphores, history

\* The first of the two waits moves a unit from the semaphore to the thread.
LEMMA AwaitInv ==
  ASSUME IInv, AwaitFreeBlock
  PROVE  IInv'
<1>1. CacheTypeOK' /\ Carrying'
  <2>1. freeBlockSemaphore' \in Nat
    BY DEF IInv, CacheTypeOK, App, AwaitFreeBlock
  <2>2. app' \in App /\ app'.pc = "admitted"
    BY Zenon DEF IInv, CacheTypeOK, App, AwaitFreeBlock
  <2>3. UNCHANGED <<block, lists, harvesterSemaphore, evictor, harvester, server, history>>
    BY DEF AwaitFreeBlock
  <2> QED
    BY ZenonT(30), <2>1, <2>2, <2>3 DEF IInv, CacheTypeOK, Carrying, App, lists, history
<1>2. FreeBound'
  BY SMTT(30), CacheAssumption DEF IInv, CacheTypeOK, App, FreeBound, AwaitFreeBlock, lists
<1> QED
  BY <1>1, <1>2 DEF IInv

\* Where getFreeListEntry takes a block there are at least two.
LEMMA TwoFree ==
  ASSUME IInv
  PROVE  FreeListSuffices
BY CacheAssumption DEF IInv, CacheTypeOK, App, FreeBound, FreeListSuffices

\* The second wait and the block taken cost the bound two each.
LEMMA TakeInv ==
  ASSUME IInv, GetFreeListEntry
  PROVE  IInv'
<1>1. free \in Seq(Nodes) /\ Len(free) >= 2
  BY TwoFree DEF IInv, CacheTypeOK, App, FreeListSuffices, GetFreeListEntry
<1>2. Head(free) \in Nodes /\ Tail(free) \in Seq(Nodes) /\ Len(Tail(free)) = Len(free) - 1
  BY <1>1
<1>3. CacheTypeOK'
  <2>1. freeBlockSemaphore' \in Nat /\ harvesterSemaphore' \in Nat
    BY DEF IInv, CacheTypeOK, App, GetFreeListEntry
  <2>2. app' \in App
    BY Zenon, <1>2 DEF IInv, CacheTypeOK, App, GetFreeListEntry
  <2>3. /\ free' \in Seq(Nodes)
        /\ UNCHANGED <<block, recency, dirty, hashTable, evictor, harvester, server, history>>
    BY <1>2 DEF GetFreeListEntry
  <2> QED
    BY Zenon, <2>1, <2>2, <2>3 DEF IInv, CacheTypeOK, App, history
<1>4. Carrying'
  BY <1>2, IdleType DEF IInv, CacheTypeOK, App, Carrying, GetFreeListEntry
<1>5. FreeBound'
  BY SMTT(30), <1>1, <1>2, CacheAssumption DEF IInv, CacheTypeOK, App, FreeBound, GetFreeListEntry
<1> QED
  BY Zenon, <1>3, <1>4, <1>5 DEF IInv

\* The filled block becomes visible.
LEMMA AddInv ==
  ASSUME IInv, AddBlock
  PROVE  IInv'
<1>1. app.node \in Nodes
  BY DEF IInv, CacheTypeOK, App, Carrying, AddBlock
<1>2. Cons(app.node, hashTable) \in Seq(Nodes) /\ Cons(app.node, recency) \in Seq(Nodes)
  BY <1>1, ConsType DEF IInv, CacheTypeOK, App
<1>3. block' \in [Nodes -> Block]
  BY <1>1 DEF IInv, CacheTypeOK, App, AddBlock, Block
<1>4. app' \in App /\ app'.pc \in {"idle", "added"}
  BY Zenon, IdleType DEF IInv, CacheTypeOK, App, AddBlock, AppIdle
<1>5. CacheTypeOK'
  BY ZenonT(30), <1>2, <1>3, <1>4 DEF IInv, CacheTypeOK, App, AddBlock, AddToHashmap, semaphores,
     history
<1> QED
  BY <1>4, <1>5 DEF IInv, Carrying, FreeBound, AddBlock, semaphores

\* The write after a miss stores in the block it finds, if it finds one.
LEMMA AgainInv ==
  ASSUME IInv, WriteAgain
  PROVE  IInv'
<1>1. app.addr \in Addrs /\ app.data \in Values
  BY DEF IInv, CacheTypeOK, App
<1>2. /\ recency' \in Seq(Nodes) /\ dirty' \in Seq(Nodes)
      /\ block' \in [Nodes -> Block] /\ free' = free /\ hashTable' = hashTable
  <2>1. block \in [Nodes -> Block] /\ recency \in Seq(Nodes) /\ dirty \in Seq(Nodes)
    BY DEF IInv, CacheTypeOK, App
  <2>2. CASE Lookup(app.addr) = Null
    BY <2>1, <2>2 DEF WriteAgain, lists
  <2>3. CASE Lookup(app.addr) # Null
    <3>1. Lookup(app.addr) \in Nodes
      BY ZenonT(30), <1>1, <2>3, LookupType DEF IInv
    <3>2. /\ RemoveFirst(recency, Lookup(app.addr)) \in Seq(Nodes)
          /\ ToFront(dirty, Lookup(app.addr)) \in Seq(Nodes)
      BY ZenonT(30), <2>1, <3>1, RemoveType, ToFrontType
    <3>3. Store(Lookup(app.addr), app.data)
      BY <2>3 DEF WriteAgain
    <3>4. block' \in [Nodes -> Block]
      BY ZenonT(30), <1>1, <2>1, <3>1, <3>3 DEF Store, Block
    <3> QED
      BY ZenonT(30), <2>1, <3>2, <3>3, <3>4 DEF Store
  <2> QED
    BY <2>2, <2>3
<1>3. written' \in [Addrs -> Values] /\ dropped' \subseteq Addrs
  BY <1>1 DEF IInv, CacheTypeOK, App, WriteAgain, WriteReturns
<1>4. CacheTypeOK'
  BY ZenonT(30), <1>2, <1>3, IdleType DEF IInv, CacheTypeOK, App, WriteAgain, AppIdle, semaphores
<1> QED
  BY <1>2, <1>4 DEF IInv, Carrying, FreeBound, WriteAgain, AppIdle, semaphores

-----------------------------------------------------------------------------
\* Flushing keeps the types of blocks and servers.
LEMMA CleanType ==
  ASSUME CacheTypeOK, NEW n \in Nodes, Clean(n)
  PROVE  block' \in [Nodes -> Block] /\ server' \in [Addrs -> Values]
BY ZenonT(30) DEF CacheTypeOK, App, Clean, Block

\* The flusher moves a block between the two lists.
LEMMA FlushInv ==
  ASSUME IInv, FlushBlock
  PROVE  IInv'
<1>1. Last(dirty) \in Nodes /\ Front(dirty) \in Seq(Nodes)
  BY Zenon, LastType DEF IInv, CacheTypeOK, App, FlushBlock
<1>2. Cons(Last(dirty), recency) \in Seq(Nodes)
  BY <1>1, ConsType DEF IInv, CacheTypeOK, App
<1>3. block' \in [Nodes -> Block] /\ server' \in [Addrs -> Values]
  BY <1>1, CleanType DEF IInv, FlushBlock
<1> QED
  BY <1>1, <1>2, <1>3 DEF IInv, CacheTypeOK, App, Carrying, FreeBound, FlushBlock,
     semaphores, threads, history

\* An eviction takes a block off the lists, then frees it.
LEMMA EvictInv ==
  ASSUME IInv, NEW a \in Addrs, EvictBlock(a)
  PROVE  IInv'
<1>1. Lookup(a) \in Nodes
  BY LookupType DEF IInv, EvictBlock
<1>2. /\ hashTable' \in Seq(Nodes) /\ recency' \in Seq(Nodes) /\ dirty' \in Seq(Nodes)
  BY RemoveType DEF IInv, CacheTypeOK, App, EvictBlock, RemoveFromHashmap
<1>3. block' \in [Nodes -> Block] /\ server' \in [Addrs -> Values]
  BY ZenonT(30), <1>1, CleanType DEF IInv, EvictBlock
<1> QED
  BY <1>1, <1>2, <1>3 DEF IInv, CacheTypeOK, App, Carrying, FreeBound, EvictBlock,
     semaphores, history

\* Freeing an evicted block only helps.
LEMMA FreeInv ==
  ASSUME IInv, FreeEvicted
  PROVE  IInv'
<1>1. Cons(evictor, free) \in Seq(Nodes) /\ Len(Cons(evictor, free)) = Len(free) + 1
  BY ConsType DEF IInv, CacheTypeOK, App, FreeEvicted
<1>2. CacheTypeOK' /\ Carrying'
  BY <1>1 DEF IInv, CacheTypeOK, App, Carrying, FreeEvicted, semaphores, history
<1>3. FreeBound'
  BY SMTT(30), <1>1, CacheAssumption DEF IInv, CacheTypeOK, App, FreeBound, FreeEvicted, semaphores
<1> QED
  BY <1>2, <1>3 DEF IInv

\* The harvester, up to the block it takes.
LEMMA HarvestInv ==
  ASSUME IInv, HarvesterWakes \/ HarvesterChecks \/ HarvestNothing
  PROVE  IInv'
<1>1. harvester' \in [pc : {"waiting", "checking", "harvesting", "freeing", "crashed"},
                      node : Nodes \union {Null}]
      /\ harvester'.pc # "freeing"
  BY DEF IInv, CacheTypeOK, App, HarvesterWakes, HarvesterChecks, HarvestOrWait, HarvestNothing
<1>2. harvesterSemaphore' \in Nat /\ freeBlockSemaphore' = freeBlockSemaphore
  BY DEF IInv, CacheTypeOK, App, HarvesterWakes, HarvesterChecks, HarvestNothing, semaphores
<1>3. UNCHANGED <<block, lists, app, evictor, server, history>>
  BY DEF HarvesterWakes, HarvesterChecks, HarvestNothing
<1> QED
  BY Zenon, <1>1, <1>2, <1>3 DEF IInv, CacheTypeOK, App, Carrying, FreeBound, lists, history

\* The harvester takes a block off its list.
LEMMA HarvestBlockInv ==
  ASSUME IInv, HarvestBlock
  PROVE  IInv'
<1> DEFINE n == IF recency # <<>> THEN Last(recency) ELSE Last(dirty)
<1>1. n \in Nodes
  BY LastType DEF IInv, CacheTypeOK, App, HarvestBlock
<1> HIDE DEF n
<1>2. /\ Clean(n) /\ harvester' = [pc |-> "freeing", node |-> n]
      /\ hashTable' = RemoveFirst(hashTable, n)
      /\ recency' = RemoveFirst(recency, n) /\ dirty' = RemoveFirst(dirty, n)
      /\ UNCHANGED <<free, semaphores, app, evictor, history>>
  BY DEF HarvestBlock, RemoveFromHashmap, n
<1>3. hashTable' \in Seq(Nodes) /\ recency' \in Seq(Nodes) /\ dirty' \in Seq(Nodes)
  BY Zenon, <1>2, RemoveType DEF IInv, CacheTypeOK, App
<1>4. block' \in [Nodes -> Block] /\ server' \in [Addrs -> Values]
  BY Zenon, <1>1, <1>2, CleanType DEF IInv
<1>5. CacheTypeOK'
  BY ZenonT(30), <1>1, <1>2, <1>3, <1>4 DEF IInv, CacheTypeOK, App, semaphores, history
<1> QED
  BY ZenonT(30), <1>1, <1>2, <1>5, IdleType DEF IInv, Carrying, FreeBound, semaphores

\* The harvester frees the block it took.
LEMMA FreeHarvestedInv ==
  ASSUME IInv, FreeHarvested
  PROVE  IInv'
<1>1. harvester.node \in Nodes
  BY DEF IInv, CacheTypeOK, App, Carrying, FreeHarvested
<1>2. /\ Cons(harvester.node, free) \in Seq(Nodes)
      /\ Len(Cons(harvester.node, free)) = Len(free) + 1
  BY ZenonT(30), <1>1, ConsType DEF IInv, CacheTypeOK, App
<1>3. CacheTypeOK' /\ Carrying'
  BY <1>2 DEF IInv, CacheTypeOK, App, Carrying, FreeHarvested, HarvestOrWait, semaphores, history
<1>4. FreeBound'
  BY <1>2, CacheAssumption DEF IInv, CacheTypeOK, App, FreeBound, FreeHarvested, semaphores
<1> QED
  BY <1>3, <1>4 DEF IInv

\* Every step of the cache keeps the invariant.
LEMMA StepInv ==
  ASSUME IInv, [CacheNext]_cacheVars
  PROVE  IInv'
<1>1. CASE UNCHANGED cacheVars
  BY <1>1 DEF IInv, CacheTypeOK, App, Carrying, FreeBound, cacheVars, lists,
     semaphores, threads, history
<1>2. CASE CacheNext
  <2>1. ASSUME NEW a \in Addrs, ReadHit(a) \/ EvictBlock(a) PROVE IInv'
    BY ZenonT(30), <2>1, HitInv, EvictInv, IdleType
  <2>2. ASSUME NEW a \in Addrs, NEW v \in Values, WriteHit(a, v) PROVE IInv'
    BY <2>2, HitInv
  <2>3. \A w \in BOOLEAN : \A a \in Addrs, v \in Values : Miss(a, w, v) => IInv'
    BY MissInv
  <2>4. ASSUME NEW a \in Addrs, NEW v \in Values, Miss(a, TRUE, v) PROVE IInv'
    BY ZenonT(30), <2>3, <2>4
  <2>5. ASSUME NEW a \in Addrs, Miss(a, FALSE, 0) PROVE IInv'
    BY ZenonT(30), <2>3, <2>5, IdleType
  <2>6. CASE Proceed
    BY ZenonT(30), <2>6, FetchInv, AwaitInv, TakeInv, AddInv, AgainInv DEF Proceed
  <2>7. CASE FreeEvicted \/ FlushBlock
    BY ZenonT(30), <2>7, FreeInv, FlushInv
  <2>8. CASE Harvest
    BY ZenonT(30), <2>8, HarvestInv, HarvestBlockInv, FreeHarvestedInv DEF Harvest
  <2> QED
    BY ZenonT(30), <1>2, <2>1, <2>2, <2>4, <2>5, <2>6, <2>7, <2>8 DEF CacheNext
<1> QED
  BY ZenonT(30), <1>1, <1>2

\* Every variable of the cache keeps its type.
THEOREM TypeCorrect == CacheSafety => []CacheTypeOK
<1>1. IInv => CacheTypeOK
  BY ZenonT(30) DEF IInv
<1> QED
  BY InitInv, StepInv, <1>1, PTL DEF CacheSafety

(***************************************************************************)
(* getFreeListEntry always finds the second entry it dereferences, in a    *)
(* cache of any size and under any interleaving of its threads.            *)
(***************************************************************************)
THEOREM FreeListNeverDrained == CacheSafety => []FreeListSuffices
<1>1. IInv => FreeListSuffices
  BY TwoFree
<1> QED
  BY InitInv, StepInv, <1>1, PTL DEF CacheSafety
=============================================================================
