----------------------------- MODULE Coherence -----------------------------
(***************************************************************************)
(* One shared file: clients with byte-range tokens, their block caches and *)
(* the file servers together.  Tokens are held on bytes, blocks are cached *)
(* whole, so a client caches bytes it has no token for, and two clients    *)
(* write different bytes of a block that both have in their caches.        *)
(*                                                                         *)
(* The tokens are those that TokenManager and TokenProtocol keep, as       *)
(* rights on bytes; a grant reaches its client before later revocations.   *)
(* The cache (see Cache) may evict or flush a block at any time, each in   *)
(* one step; a block of the file is one piece of the servers' state (see   *)
(* FileServers).                                                           *)
(*                                                                         *)
(* Every write writes a new value.  A copy of a byte is then the last one  *)
(* written or it is out of date, and that is all that is kept of it.       *)
(***************************************************************************)
EXTENDS Naturals, FiniteSetsExt

CONSTANTS
  Clients,
  Size,       \* bytes of the file
  BlockSize,
  Ranges,     \* the ranges <<lo, hi>> of bytes that are read and written
  Nobody

ASSUME CoherenceAssumption ==
  /\ Size \in Nat /\ BlockSize \in Nat \ {0}
  /\ Ranges \subseteq {r \in (0..Size) \X (0..Size) : r[1] < r[2]}
  /\ Nobody \notin Clients

VARIABLES
  rights,    \* the token of each client on each byte: 0 none, 1 read, 2 write
  serving,   \* the client whose request holds the manager's file lock
  victims,   \* the clients that have yet to give up tokens for it
  evicting,  \* the blocks each client has yet to evict for it
  op,        \* the read or write of each client
  cache,     \* the cached blocks of each client
  server,    \* the bytes that are up to date at the servers
  spoiled    \* history: bytes written without a token, or whose write was dropped

coherenceVars == <<rights, serving, victims, evicting, op, cache, server, spoiled>>

Bytes == 0..(Size - 1)
BlockOf(b) == b \div BlockSize
Blocks == {BlockOf(b) : b \in Bytes}
BytesOf(k) == {b \in Bytes : BlockOf(b) = k}

(***************************************************************************)
(* A cached block: which of its bytes are up to date and which are dirty;  *)
(* and, as history, for which of them the client has had a token ever      *)
(* since the block came from the server.                                   *)
(***************************************************************************)
Absent == [held |-> FALSE, current |-> {}, dirty |-> {}, covered |-> {}]

(***************************************************************************)
(* A read or write of the bytes lo..hi-1, which is at byte next.  It asks  *)
(* for a token, is at work, has fetched a block, or has added that block   *)
(* and writes to it.  A granted token is locked, one found in the client's *)
(* vector is not.                                                          *)
(***************************************************************************)
NoOp == [pc |-> "idle", lo |-> 0, hi |-> 0, write |-> FALSE, locked |-> FALSE,
         whole |-> FALSE, next |-> 0, current |-> {}, covered |-> {}]

CoherenceInit ==
  /\ rights = [c \in Clients |-> [b \in Bytes |-> 0]]
  /\ serving = Nobody
  /\ victims = {}
  /\ evicting = [c \in Clients |-> {}]
  /\ op = [c \in Clients |-> NoOp]
  /\ cache = [c \in Clients |-> [k \in Blocks |-> Absent]]
  /\ server = Bytes
  /\ spoiled = {}

Wanted(c) == op[c].lo..(op[c].hi - 1)
Needed(write) == IF write THEN 2 ELSE 1

-----------------------------------------------------------------------------
\* acquirePermission: the token is in the vector, or the manager is asked.
Start(c, r, write) ==
  LET has == \A b \in r[1]..(r[2] - 1) : rights[c][b] >= Needed(write)
  IN /\ op[c].pc = "idle"
     /\ op' = [op EXCEPT ![c] = [NoOp EXCEPT !.pc = IF has THEN "work" ELSE "ask",
                                             !.lo = r[1], !.hi = r[2], !.write = write,
                                             !.next = r[1]]]
     /\ UNCHANGED <<rights, serving, victims, evicting, cache, server, spoiled>>

(***************************************************************************)
(* waitAndGetPermissionFor: revoke from everybody whose token conflicts.   *)
(* When nobody else has a token at all, the grant is for the whole file.   *)
(***************************************************************************)
Serve(c) ==
  /\ serving = Nobody
  /\ op[c].pc = "ask"
  /\ serving' = c
  /\ victims' = {d \in Clients \ {c} : \E b \in Wanted(c) :
                   rights[d][b] # 0 /\ (op[c].write \/ rights[d][b] = 2)}
  /\ op' = [op EXCEPT ![c].whole =
       \A d \in Clients \ {c} : \A b \in Bytes : rights[d][b] = 0]
  /\ UNCHANGED <<rights, evicting, cache, server, spoiled>>

\* Mutant: a revocation returns before it has evicted its blocks.
MutReturnFirst == victims = {}

\* The threads of all revocations are joined.
AllReturned == victims = {} /\ \A d \in Clients : evicting[d] = {}

\* All revocations have returned; addPermission records and locks the token.
Grant(c) ==
  LET granted == IF op[c].whole THEN Bytes ELSE Wanted(c)
      mode == Needed(op[c].write)
  IN /\ serving = c
     /\ AllReturned
     /\ serving' = Nobody
     /\ rights' = [rights EXCEPT ![c] =
          [b \in Bytes |-> IF b \in granted /\ @[b] < mode THEN mode ELSE @[b]]]
     /\ op' = [op EXCEPT ![c].pc = "work", ![c].locked = TRUE]
     /\ UNCHANGED <<victims, evicting, cache, server, spoiled>>

\* The blocks from the one of lo on, while their address is <= hi.
BlocksThrough(lo, hi) == {k \in Blocks : BlockOf(lo) <= k /\ k * BlockSize <= hi}

\* A block or an operation whose client no longer has tokens on the bytes B.
Uncovered(r, B) == [r EXCEPT !.covered = @ \ B]

(***************************************************************************)
(* revokePermission of the client, up to the evictions: wait until no      *)
(* locked token is in the way, then take the range out of the vector.      *)
(***************************************************************************)
Revoke(d) ==
  LET range == Wanted(serving)
  IN /\ d \in victims
     /\ ~(op[d].locked /\ Wanted(d) \intersect range # {})
     /\ victims' = victims \ {d}
     /\ rights' = [rights EXCEPT ![d] =
          [b \in Bytes |-> IF b \in range THEN 0 ELSE @[b]]]
     /\ evicting' = [evicting EXCEPT ![d] =
          BlocksThrough(op[serving].lo, op[serving].hi)]
     /\ cache' = [cache EXCEPT ![d] = [k \in Blocks |-> Uncovered(@[k], range)]]
     /\ op' = [op EXCEPT ![d] = Uncovered(@, range)]
     /\ UNCHANGED <<serving, server, spoiled>>

-----------------------------------------------------------------------------
\* Mutant: a flush writes the whole block.
MutFlushAll(c, K) ==
  LET blocks == {k \in K : cache[c][k].dirty # {}}
      flushed == UNION {BytesOf(k) : k \in blocks}
      good == UNION {cache[c][k].current : k \in blocks}
  IN (server \ flushed) \union good

\* The servers after client c has flushed the dirty bytes of the blocks K.
Flushed(c, K) ==
  LET flushed == UNION {cache[c][k].dirty : k \in K}
      good == UNION {cache[c][k].current : k \in K}
  IN (server \ flushed) \union (flushed \intersect good)

Without(c, K) == [cache EXCEPT ![c] = [k \in Blocks |-> IF k \in K THEN Absent ELSE @[k]]]

\* A revocation evicts its next block; after the last one it returns.
EvictRevoked(d) ==
  LET k == Min(evicting[d])
  IN /\ evicting[d] # {}
     /\ server' = Flushed(d, {k})
     /\ cache' = Without(d, {k})
     /\ evicting' = [evicting EXCEPT ![d] = @ \ {k}]
     /\ UNCHANGED <<rights, serving, victims, op, spoiled>>

\* The harvester makes room.
Harvest(c, k) ==
  /\ cache[c][k].held
  /\ server' = Flushed(c, {k})
  /\ cache' = Without(c, {k})
  /\ UNCHANGED <<rights, serving, victims, evicting, op, spoiled>>

\* The flusher.
Flush(c, k) ==
  /\ cache[c][k].dirty # {}
  /\ server' = Flushed(c, {k})
  /\ cache' = [cache EXCEPT ![c][k].dirty = {}]
  /\ UNCHANGED <<rights, serving, victims, evicting, op, spoiled>>

(***************************************************************************)
(* closeFile evicts the blocks of all its tokens, then gives them up.  The *)
(* next open has another descriptor and finds nothing in the cache.        *)
(***************************************************************************)
CloseFile(c) ==
  LET K == UNION {BlocksThrough(b, b + 1) : b \in {b \in Bytes : rights[c][b] # 0}}
  IN /\ op[c].pc = "idle"
     /\ serving = Nobody
     /\ server' = Flushed(c, K)
     /\ cache' = [cache EXCEPT ![c] = [k \in Blocks |-> Absent]]
     /\ rights' = [rights EXCEPT ![c] = [b \in Bytes |-> 0]]
     /\ UNCHANGED <<serving, victims, evicting, op, spoiled>>

-----------------------------------------------------------------------------
\* The part of the block at next that belongs to the operation.
Here(c) == BlockOf(op[c].next)
Part(c) == {b \in Wanted(c) : BlockOf(b) = Here(c)}

\* Mutant: one block too many is read or written.
MutOneBlockMore(c) ==
  LET next == (Here(c) + 1) * BlockSize
  IN IF next >= op[c].hi + BlockSize THEN NoOp
     ELSE [op[c] EXCEPT !.pc = "work", !.next = next, !.current = {}, !.covered = {}]

\* The operation after this block: the next one, or unlockPermission and return.
Advanced(c) ==
  LET next == (Here(c) + 1) * BlockSize
  IN IF next >= op[c].hi THEN NoOp
     ELSE [op[c] EXCEPT !.pc = "work", !.next = next, !.current = {}, !.covered = {}]

\* The cache has the block: the bytes are copied to the caller.
ReadHit(c) ==
  /\ op[c].pc = "work" /\ ~op[c].write
  /\ cache[c][Here(c)].held
  /\ op' = [op EXCEPT ![c] = Advanced(c)]
  /\ UNCHANGED <<rights, serving, victims, evicting, cache, server, spoiled>>

(***************************************************************************)
(* Cache::write finds the block.  All other copies of the bytes are now    *)
(* out of date.                                                            *)
(***************************************************************************)
WriteHit(c) ==
  LET B == Part(c)
      owned == {b \in B : rights[c][b] = 2}
  IN /\ op[c].pc \in {"work", "added"} /\ op[c].write
     /\ cache[c][Here(c)].held
     /\ cache' = [d \in Clients |-> [k \in Blocks |->
          IF d = c /\ k = Here(c)
          THEN [held |-> TRUE, current |-> cache[c][k].current \union B,
                dirty |-> cache[c][k].dirty \union B,
                covered |-> cache[c][k].covered \union owned]
          ELSE [cache[d][k] EXCEPT !.current = @ \ B]]]
     /\ op' = [d \in Clients |->
          IF d = c THEN Advanced(c) ELSE [op[d] EXCEPT !.current = @ \ B]]
     /\ server' = server \ B
     /\ spoiled' = spoiled \union (B \ owned)
     /\ UNCHANGED <<rights, serving, victims, evicting>>

\* A miss: getBlockFromFileServer.
Fetch(c) ==
  /\ op[c].pc = "work"
  /\ ~cache[c][Here(c)].held
  /\ op' = [op EXCEPT ![c].pc = "fetched",
       ![c].current = server \intersect BytesOf(Here(c)),
       ![c].covered = {b \in BytesOf(Here(c)) : rights[c][b] # 0}]
  /\ UNCHANGED <<rights, serving, victims, evicting, cache, server, spoiled>>

\* Cache::addBlock; a read returns what it fetched, a write writes again.
AddBlock(c) ==
  /\ op[c].pc = "fetched"
  /\ cache' = [cache EXCEPT ![c][Here(c)] =
       [held |-> TRUE, current |-> op[c].current, dirty |-> {}, covered |-> op[c].covered]]
  /\ op' = [op EXCEPT ![c] =
       IF op[c].write THEN [op[c] EXCEPT !.pc = "added", !.current = {}, !.covered = {}]
       ELSE Advanced(c)]
  /\ UNCHANGED <<rights, serving, victims, evicting, server, spoiled>>

\* The second Cache::write misses again: the block is gone and so is the write.
WriteDropped(c) ==
  /\ op[c].pc = "added"
  /\ ~cache[c][Here(c)].held
  /\ spoiled' = spoiled \union Part(c)
  /\ op' = [op EXCEPT ![c] = Advanced(c)]
  /\ UNCHANGED <<rights, serving, victims, evicting, cache, server>>

CoherenceNext ==
  \E c \in Clients :
    \/ Serve(c) \/ Grant(c) \/ Revoke(c) \/ EvictRevoked(c) \/ CloseFile(c)
    \/ ReadHit(c) \/ WriteHit(c) \/ Fetch(c) \/ AddBlock(c) \/ WriteDropped(c)
    \/ \E k \in Blocks : Harvest(c, k) \/ Flush(c, k)
    \/ \E r \in Ranges, write \in BOOLEAN : Start(c, r, write)

CoherenceSafety == CoherenceInit /\ [][CoherenceNext]_coherenceVars

-----------------------------------------------------------------------------
\* Every variable keeps its type; no operation goes past the end of the file.
CoherenceTypeOK ==
  /\ rights \in [Clients -> [Bytes -> 0..2]]
  /\ serving \in Clients \union {Nobody}
  /\ victims \subseteq Clients
  /\ evicting \in [Clients -> SUBSET Blocks]
  /\ op \in [Clients -> [pc : {"idle", "ask", "work", "fetched", "added"},
                         lo : Bytes \union {0}, hi : 0..Size, write : BOOLEAN,
                         locked : BOOLEAN, whole : BOOLEAN, next : Bytes \union {0},
                         current : SUBSET Bytes, covered : SUBSET Bytes]]
  /\ cache \in [Clients -> [Blocks -> [held : BOOLEAN, current : SUBSET Bytes,
                                       dirty : SUBSET Bytes, covered : SUBSET Bytes]]]
  /\ server \subseteq Bytes
  /\ spoiled \subseteq Bytes

(***************************************************************************)
(* No write is lost by false sharing: the last value of each byte is in    *)
(* some cache, dirty, or at the servers.  Clients flush old copies of each *)
(* other's bytes together with their own, through evictions, flushes and   *)
(* revocations of parts of a block, and never overwrite one.  Spoiled are  *)
(* writes under a token that was not locked and went away, and writes the  *)
(* cache dropped.                                                          *)
(***************************************************************************)
LastWriteKept ==
  \A b \in Bytes \ spoiled :
    \/ b \in server
    \/ \E c \in Clients :
         LET block == cache[c][BlockOf(b)]
         IN b \in block.dirty /\ b \in block.current

(***************************************************************************)
(* A copy that came from the servers under a token the client has had ever *)
(* since is up to date: whoever wrote the byte before flushed it before    *)
(* that token was granted, and nobody has written it since.                *)
(***************************************************************************)
CoveredCopiesCurrent ==
  \A c \in Clients, k \in Blocks :
    cache[c][k].covered \ spoiled \subseteq cache[c][k].current

(***************************************************************************)
(* The promise of sequential consistency, for reads served from the cache  *)
(* under a token that the read just got: it returns the last value         *)
(* written.                                                                *)
(***************************************************************************)
ReadsCurrent ==
  \A c \in Clients :
    (op[c].pc = "work" /\ ~op[c].write /\ op[c].locked /\ cache[c][Here(c)].held)
      => Part(c) \ spoiled \subseteq cache[c][Here(c)].current
=============================================================================
