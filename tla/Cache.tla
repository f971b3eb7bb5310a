------------------------------- MODULE Cache -------------------------------
(***************************************************************************)
(* The block cache of one client, holding blocks of one open file.  Four   *)
(* kinds of threads work on it: the application thread (readFile and       *)
(* writeFile, a block at a time), threads that evict blocks (a revocation, *)
(* which also evicts blocks next to the revoked range), the harvester and  *)
(* the flusher.  An action is one critical section of cacheLock or of      *)
(* freeListLock, or one blocking call.  flush and getBlockFromFileServer   *)
(* are synchronous RPCs to the file server that stores the block.          *)
(*                                                                         *)
(* Lists are sequences of nodes with the head first; BlockList has the     *)
(* pointers.  freeBlockCount always equals the length of the free list.    *)
(***************************************************************************)
EXTENDS SequencesExt

CONSTANTS
  BlockCount,  \* blocks in the cache, 2048 in the code
  LowMark,     \* the harvester is woken at this many free blocks, 2000
  HighMark,    \* and works until this many are free, 2020
  Addrs,       \* the block addresses the application uses
  Values       \* the contents a block can have

ASSUME CacheAssumption ==
  /\ BlockCount \in Nat \ {0} /\ LowMark \in Nat /\ HighMark \in Nat
  /\ Addrs # {} /\ 0 \in Values

VARIABLES
  block,               \* the cache block of each node
  free,                \* the free list
  recency,             \* the clean blocks, most recently used first
  dirty,               \* the dirty blocks, most recently used first
  hashTable,           \* the blocks lookup finds, newest first
  freeBlockSemaphore,
  harvesterSemaphore,
  app,                 \* the application thread
  evictor,             \* a thread in evictBlock
  harvester,           \* the harvester thread
  server,              \* the blocks at the file servers
  written,             \* what the application last wrote to each block
  dropped              \* blocks whose last write found no block to write to

lists == <<free, recency, dirty, hashTable>>
semaphores == <<freeBlockSemaphore, harvesterSemaphore>>
threads == <<app, evictor, harvester>>
history == <<written, dropped>>
cacheVars == <<block, lists, semaphores, threads, server, history>>

Nodes == 1..BlockCount

Block == [addr : Addrs, data : Values, clean : BOOLEAN]

\* No node: the null pointer.
Null == 0

SomeAddr == CHOOSE a \in Addrs : TRUE

AppIdle == [pc |-> "idle", write |-> FALSE, addr |-> SomeAddr,
            data |-> 0, fetched |-> 0, node |-> Null]

CacheInit ==
  /\ block = [n \in Nodes |-> [addr |-> SomeAddr, data |-> 0, clean |-> TRUE]]
  /\ free = [i \in 1..BlockCount |-> BlockCount + 1 - i]
  /\ recency = <<>> /\ dirty = <<>> /\ hashTable = <<>>
  /\ freeBlockSemaphore = BlockCount /\ harvesterSemaphore = 0
  /\ app = AppIdle
  /\ evictor = Null
  /\ harvester = [pc |-> "waiting", node |-> Null]
  /\ server = [a \in Addrs |-> 0]
  /\ written = [a \in Addrs |-> 0]
  /\ dropped = {}

\* The nodes lookup could return for an address; it returns the newest.
Found(a) == {i \in 1..Len(hashTable) : block[hashTable[i]].addr = a}

Lookup(a) == IF Found(a) = {} THEN Null ELSE hashTable[Min(Found(a))]

\* Move a node to the front of a list it is in, or put a new one there.
ToFront(list, n) == Cons(n, RemoveFirst(list, n))

\* addToHashmap and removeFromHashmap.
AddToHashmap(n) == Cons(n, hashTable)

RemoveFromHashmap(n) == RemoveFirst(hashTable, n)

-----------------------------------------------------------------------------
\* readBlock hits: the block moves to the front of the list it is in.
ReadHit(a) ==
  LET n == Lookup(a)
  IN /\ app.pc = "idle"
     /\ n # Null
     /\ IF block[n].clean
        THEN recency' = ToFront(recency, n) /\ UNCHANGED dirty
        ELSE dirty' = ToFront(dirty, n) /\ UNCHANGED recency
     /\ UNCHANGED <<block, free, hashTable, semaphores, threads, server, history>>

\* Cache::write for a block that is in the cache.
Store(n, v) ==
  /\ block' = [block EXCEPT ![n].data = v, ![n].clean = FALSE]
  /\ recency' = IF block[n].clean THEN RemoveFirst(recency, n) ELSE recency
  /\ dirty' = ToFront(dirty, n)
  /\ UNCHANGED <<free, hashTable>>

\* A write of v to address a is over; stored tells whether it found the block.
WriteReturns(a, v, stored) ==
  /\ written' = [written EXCEPT ![a] = v]
  /\ dropped' = IF stored THEN dropped \ {a} ELSE dropped \union {a}

WriteHit(a, v) ==
  /\ app.pc = "idle"
  /\ Lookup(a) # Null
  /\ Store(Lookup(a), v)
  /\ WriteReturns(a, v, TRUE)
  /\ UNCHANGED <<semaphores, threads, server>>

\* Mutant: every access brings the block in again.
MutAlwaysMiss(a, write, v) ==
  /\ app.pc = "idle"
  /\ app' = [AppIdle EXCEPT !.pc = "missed", !.addr = a, !.write = write, !.data = v]
  /\ UNCHANGED <<block, lists, semaphores, evictor, harvester, server, history>>

\* readBlock or Cache::write finds nothing.
Miss(a, write, v) ==
  /\ app.pc = "idle"
  /\ Lookup(a) = Null
  /\ app' = [AppIdle EXCEPT !.pc = "missed", !.addr = a, !.write = write, !.data = v]
  /\ UNCHANGED <<block, lists, semaphores, evictor, harvester, server, history>>

\* getBlockFromFileServer.
Fetch ==
  /\ app.pc = "missed"
  /\ app' = [app EXCEPT !.pc = "fetched", !.fetched = server[app.addr]]
  /\ UNCHANGED <<block, lists, semaphores, evictor, harvester, server, history>>

\* Mutant: the semaphore is decremented without waiting for it.
MutNoWait ==
  /\ app.pc = "fetched"
  /\ freeBlockSemaphore' = freeBlockSemaphore - 1
  /\ app' = [app EXCEPT !.pc = "admitted"]
  /\ UNCHANGED <<block, lists, harvesterSemaphore, evictor, harvester, server, history>>

\* Mutant: one wait for each block, and still no post.
MutWaitOnce ==
  /\ app.pc = "fetched"
  /\ app' = [app EXCEPT !.pc = "admitted"]
  /\ UNCHANGED <<block, lists, semaphores, evictor, harvester, server, history>>

\* addBlock, the first wait for a free block.
AwaitFreeBlock ==
  /\ app.pc = "fetched"
  /\ freeBlockSemaphore > 0
  /\ freeBlockSemaphore' = freeBlockSemaphore - 1
  /\ app' = [app EXCEPT !.pc = "admitted"]
  /\ UNCHANGED <<block, lists, harvesterSemaphore, evictor, harvester, server, history>>

\* getFreeListEntry: it waits for a free block again, then takes the head.
GetFreeListEntry ==
  /\ app.pc = "admitted"
  /\ freeBlockSemaphore > 0
  /\ freeBlockSemaphore' = freeBlockSemaphore - 1
  /\ free' = Tail(free)
  /\ harvesterSemaphore' =
       IF Len(free) - 1 <= LowMark THEN harvesterSemaphore + 1 ELSE harvesterSemaphore
  /\ app' = [app EXCEPT !.pc = "filling", !.node = Head(free)]
  /\ UNCHANGED <<block, recency, dirty, hashTable, evictor, harvester, server, history>>

\* addBlock fills the block and makes it visible.
AddBlock ==
  /\ app.pc = "filling"
  /\ block' = [block EXCEPT ![app.node] =
       [addr |-> app.addr, data |-> app.fetched, clean |-> TRUE]]
  /\ hashTable' = AddToHashmap(app.node)
  /\ recency' = Cons(app.node, recency)
  /\ app' = IF app.write THEN [app EXCEPT !.pc = "added", !.node = Null] ELSE AppIdle
  /\ UNCHANGED <<free, dirty, semaphores, evictor, harvester, server, history>>

\* writeFile writes again after a miss and does not look at the result.
WriteAgain ==
  /\ app.pc = "added"
  /\ \/ /\ Lookup(app.addr) # Null
        /\ Store(Lookup(app.addr), app.data)
     \/ /\ Lookup(app.addr) = Null
        /\ UNCHANGED <<block, lists>>
  /\ WriteReturns(app.addr, app.data, Lookup(app.addr) # Null)
  /\ app' = AppIdle
  /\ UNCHANGED <<semaphores, evictor, harvester, server>>

-----------------------------------------------------------------------------
\* Mutant: the block is marked clean and not flushed.
MutForget(n) ==
  /\ UNCHANGED server
  /\ block' = [block EXCEPT ![n].clean = TRUE]

\* flush and resetDirty for a dirty block, nothing for a clean one.
Clean(n) ==
  /\ server' = IF block[n].clean THEN server
               ELSE [server EXCEPT ![block[n].addr] = block[n].data]
  /\ block' = [block EXCEPT ![n].clean = TRUE]

\* evictBlock up to the release of cacheLock.
EvictBlock(a) ==
  LET n == Lookup(a)
  IN /\ evictor = Null
     /\ n # Null
     /\ hashTable' = RemoveFromHashmap(n)
     /\ recency' = RemoveFirst(recency, n)
     /\ dirty' = RemoveFirst(dirty, n)
     /\ Clean(n)
     /\ evictor' = n
     /\ UNCHANGED <<free, semaphores, app, harvester, history>>

\* addToFreeList at the end of evictBlock: nobody is told of the free block.
FreeEvicted ==
  /\ evictor # Null
  /\ free' = Cons(evictor, free)
  /\ evictor' = Null
  /\ UNCHANGED <<block, recency, dirty, hashTable, semaphores, app, harvester, server, history>>

\* Mutant: the flushed block is not put on the clean list.
MutLeakFlushed ==
  /\ dirty # <<>>
  /\ dirty' = Front(dirty)
  /\ Clean(Last(dirty))
  /\ UNCHANGED <<recency, free, hashTable, semaphores, threads, history>>

\* The flusher flushes the least recently used dirty block.
FlushBlock ==
  /\ dirty # <<>>
  /\ dirty' = Front(dirty)
  /\ recency' = Cons(Last(dirty), recency)
  /\ Clean(Last(dirty))
  /\ UNCHANGED <<free, hashTable, semaphores, threads, history>>

-----------------------------------------------------------------------------
\* The harvester is woken by getFreeListEntry.
HarvesterWakes ==
  /\ harvester.pc = "waiting"
  /\ harvesterSemaphore > 0
  /\ harvesterSemaphore' = harvesterSemaphore - 1
  /\ harvester' = [harvester EXCEPT !.pc = "checking"]
  /\ UNCHANGED <<block, lists, freeBlockSemaphore, app, evictor, server, history>>

\* Mutant: the harvester stops at the lower threshold.
MutStopEarly(count) ==
  harvester' = [pc |-> IF count < LowMark THEN "harvesting" ELSE "waiting", node |-> Null]

\* What the harvester does next when count blocks are free.
HarvestOrWait(count) ==
  harvester' = [pc |-> IF count < HighMark THEN "harvesting" ELSE "waiting", node |-> Null]

HarvesterChecks ==
  /\ harvester.pc = "checking"
  /\ HarvestOrWait(Len(free))
  /\ UNCHANGED <<block, lists, semaphores, app, evictor, server, history>>

\* Take the least recently used clean block, or else dirty block.
HarvestBlock ==
  LET n == IF recency # <<>> THEN Last(recency) ELSE Last(dirty)
  IN /\ harvester.pc = "harvesting"
     /\ recency # <<>> \/ dirty # <<>>
     /\ recency' = RemoveFirst(recency, n)
     /\ dirty' = RemoveFirst(dirty, n)
     /\ hashTable' = RemoveFromHashmap(n)
     /\ Clean(n)
     /\ harvester' = [pc |-> "freeing", node |-> n]
     /\ UNCHANGED <<free, semaphores, app, evictor, history>>

\* Both lists are empty: removeDirtyListLRU returns null, which is dereferenced.
HarvestNothing ==
  /\ harvester.pc = "harvesting"
  /\ recency = <<>> /\ dirty = <<>>
  /\ harvester' = [harvester EXCEPT !.pc = "crashed"]
  /\ UNCHANGED <<block, lists, semaphores, app, evictor, server, history>>

FreeHarvested ==
  /\ harvester.pc = "freeing"
  /\ free' = Cons(harvester.node, free)
  /\ HarvestOrWait(Len(free) + 1)
  /\ UNCHANGED <<block, recency, dirty, hashTable, semaphores, app, evictor, server, history>>

\* The steps of threads that run by themselves once they can.
Harvest ==
  HarvesterWakes \/ HarvesterChecks \/ HarvestBlock \/ HarvestNothing \/ FreeHarvested

Proceed == Fetch \/ AwaitFreeBlock \/ GetFreeListEntry \/ AddBlock \/ WriteAgain

CacheNext ==
  /\ harvester.pc # "crashed"
  /\ \/ \E a \in Addrs : ReadHit(a) \/ EvictBlock(a)
     \/ \E a \in Addrs, v \in Values : WriteHit(a, v)
     \/ \E a \in Addrs, v \in Values : Miss(a, TRUE, v)
     \/ \E a \in Addrs : Miss(a, FALSE, 0)
     \/ Proceed \/ FreeEvicted \/ FlushBlock \/ Harvest

CacheSafety == CacheInit /\ [][CacheNext]_cacheVars

\* Every thread that can take its next step takes it, unless the process died.
CacheFairness ==
  /\ WF_cacheVars(harvester.pc # "crashed" /\ Harvest)
  /\ WF_cacheVars(harvester.pc # "crashed" /\ Proceed)
  /\ WF_cacheVars(harvester.pc # "crashed" /\ FreeEvicted)

CacheSpec == CacheSafety /\ CacheFairness

-----------------------------------------------------------------------------
\* The states of the application thread.
App == [pc : {"idle", "missed", "fetched", "admitted", "filling", "added"},
        write : BOOLEAN, addr : Addrs, data : Values, fetched : Values,
        node : Nodes \union {Null}]

\* Every variable keeps its type.
CacheTypeOK ==
  /\ block \in [Nodes -> Block]
  /\ free \in Seq(Nodes) /\ recency \in Seq(Nodes)
  /\ dirty \in Seq(Nodes) /\ hashTable \in Seq(Nodes)
  /\ freeBlockSemaphore \in Nat /\ harvesterSemaphore \in Nat
  /\ app \in App
  /\ evictor \in Nodes \union {Null}
  /\ harvester \in [pc : {"waiting", "checking", "harvesting", "freeing", "crashed"},
                    node : Nodes \union {Null}]
  /\ server \in [Addrs -> Values]
  /\ written \in [Addrs -> Values]
  /\ dropped \subseteq Addrs

\* Where a node can be: on a list or in the hands of a thread.
Places(n) ==
  {i \in 1..Len(free) : free[i] = n} \X {"free"}
    \union {i \in 1..Len(recency) : recency[i] = n} \X {"recency"}
    \union {i \in 1..Len(dirty) : dirty[i] = n} \X {"dirty"}
    \union {m \in {app.node} : m = n} \X {"app"}
    \union {m \in {evictor} : m = n} \X {"evictor"}
    \union {m \in {harvester.node} : m = n} \X {"harvester"}

(***************************************************************************)
(* No block is ever leaked or handed out twice: whatever the interleaving  *)
(* of application, evictions, flusher and harvester, each of them is in    *)
(* one place, and lookup finds exactly the blocks of the two lists, clean  *)
(* ones on the recency list and dirty ones on the dirty list.              *)
(***************************************************************************)
BlocksAccounted ==
  /\ \A n \in Nodes : Cardinality(Places(n)) = 1
  /\ ToSet(hashTable) = ToSet(recency) \union ToSet(dirty)
  /\ \A n \in ToSet(recency) : block[n].clean
  /\ \A n \in ToSet(dirty) : ~block[n].clean

\* The cache never holds two copies of one block of the file.
OneCopyPerBlock == \A a \in Addrs : Cardinality(Found(a)) <= 1

\* What a read of the block returns: the cached contents or the server's.
Current(a) == IF Lookup(a) = Null THEN server[a] ELSE block[Lookup(a)].data

(***************************************************************************)
(* A read returns the last write, through any eviction, harvest, flush or  *)
(* refill of the block, unless that write itself was dropped; clean blocks *)
(* are as the server has them, and so is a block on its way in.            *)
(***************************************************************************)
ReadsLastWrite ==
  /\ \A a \in Addrs \ dropped : Current(a) = written[a]
  /\ \A n \in ToSet(recency) : block[n].data = server[block[n].addr]
  /\ app.pc \in {"fetched", "admitted", "filling"} => app.fetched = Current(app.addr)

(***************************************************************************)
(* getFreeListEntry dereferences the second entry of the free list: it is  *)
(* there each time the head is taken.                                      *)
(***************************************************************************)
FreeListSuffices ==
  app.pc = "admitted" /\ freeBlockSemaphore > 0 => Len(free) >= 2

(***************************************************************************)
(* Whenever few blocks are free the harvester frees blocks until enough    *)
(* are, unless the process dies first.                                     *)
(***************************************************************************)
FreeSpaceRestored ==
  Len(free) <= LowMark ~> (Len(free) >= HighMark \/ harvester.pc = "crashed")

(***************************************************************************)
(* After a miss the block is cached and the read or write returns, since   *)
(* the harvester keeps free blocks available.                              *)
(***************************************************************************)
MissesServed == app.pc = "fetched" ~> (app.pc = "idle" \/ harvester.pc = "crashed")
=============================================================================
