-------------------------- MODULE Coherence_proofs --------------------------
(***************************************************************************)
(* LastWriteKept and CoveredCopiesCurrent for any number of clients, any   *)
(* file and block size and any ranges.                                     *)
(*                                                                         *)
(* The argument is about who may have a dirty copy of a byte.  A dirty     *)
(* byte is up to date, and no other client has a token on it; its own      *)
(* client has the write token, or lost it to the request being served and  *)
(* has still to evict the block.  So the servers are up to date on every   *)
(* byte that some client holds a token for and that is not dirty there,    *)
(* which is what a client fetches.                                         *)
(***************************************************************************)
EXTENDS Coherence, Extremes_proofs

OpRecord ==
  [pc : {"idle", "ask", "work", "fetched", "added"}, lo : Nat, hi : 0..Size,
   write : BOOLEAN, locked : BOOLEAN, whole : BOOLEAN, next : Nat,
   current : SUBSET Bytes, covered : SUBSET Bytes]

BlockRecord ==
  [held : BOOLEAN, current : SUBSET Bytes, dirty : SUBSET Bytes, covered : SUBSET Bytes]

TypesOK ==
  /\ rights \in [Clients -> [Bytes -> 0..2]]
  /\ serving \in Clients \union {Nobody}
  /\ victims \subseteq Clients
  /\ evicting \in [Clients -> SUBSET Blocks]
  /\ op \in [Clients -> OpRecord]
  /\ cache \in [Clients -> [Blocks -> BlockRecord]]
  /\ server \subseteq Bytes
  /\ spoiled \subseteq Bytes

\* Where the operation of client c is.
OpOK(c) ==
  /\ op[c].pc # "idle" => op[c].lo <= op[c].next /\ op[c].next < op[c].hi
  /\ op[c].pc # "fetched" => op[c].covered = {}
  /\ op[c].pc = "fetched" => ~cache[c][Here(c)].held /\ op[c].covered \subseteq BytesOf(Here(c))

\* A block that is not held has no dirty bytes.
BlockOK(c, k) ==
  /\ cache[c][k].dirty \subseteq BytesOf(k) /\ cache[c][k].covered \subseteq BytesOf(k)
  /\ ~cache[c][k].held => cache[c][k].dirty = {}

\* A writer of a byte is alone on it.
Exclusive ==
  \A c, d \in Clients, b \in Bytes : c # d /\ rights[c][b] = 2 => rights[d][b] = 0

(***************************************************************************)
(* While a request is served its client waits; those that were no victims, *)
(* or are no longer, have no token in conflict with it.                    *)
(***************************************************************************)
Conflict(s, d, b) ==
  rights[d][b] # 0 /\ (op[s].write \/ rights[d][b] = 2)

ServingOK ==
  /\ serving = Nobody => victims = {} /\ \A d \in Clients : evicting[d] = {}
  /\ serving \in Clients =>
       /\ op[serving].pc = "ask"
       /\ serving \notin victims
       /\ \A d \in Clients \ {serving} :
            /\ d \notin victims => \A b \in Wanted(serving) : ~Conflict(serving, d, b)
            /\ op[serving].whole => \A b \in Bytes : rights[d][b] = 0
  /\ \A d \in victims : evicting[d] = {}

\* The block of byte b in the cache of c.
Copy(c, b) == cache[c][BlockOf(b)]

\* Client c will evict the block of b for the request that took its token.
Leaving(c, b) == BlockOf(b) \in evicting[c] /\ b \in Wanted(serving)

DirtyOK ==
  \A c \in Clients, b \in Bytes \ spoiled : b \in Copy(c, b).dirty =>
    /\ b \in Copy(c, b).current
    /\ rights[c][b] = 2 \/ Leaving(c, b)
    /\ \A d \in Clients \ {c} : rights[d][b] = 0 /\ b \notin Copy(d, b).dirty

CoveredOK ==
  \A c \in Clients, b \in Bytes \ spoiled :
    /\ b \in Copy(c, b).covered => b \in Copy(c, b).current /\ rights[c][b] # 0
    /\ b \in op[c].covered => b \in op[c].current /\ rights[c][b] # 0

CInv ==
  /\ TypesOK
  /\ \A c \in Clients : OpOK(c)
  /\ \A c \in Clients, k \in Blocks : BlockOK(c, k)
  /\ Exclusive
  /\ ServingOK
  /\ DirtyOK
  /\ CoveredOK
  /\ LastWriteKept

-----------------------------------------------------------------------------
\* Bytes and their blocks.
LEMMA BlockFacts ==
  ASSUME NEW b \in Bytes
  PROVE  /\ b \in Nat /\ BlockOf(b) \in Nat /\ BlockOf(b) \in Blocks
         /\ BlockOf(b) * BlockSize <= b /\ b < (BlockOf(b) + 1) * BlockSize
         /\ b \in BytesOf(BlockOf(b))
<1>1. b \in Nat /\ BlockOf(b) \in Nat
      /\ BlockOf(b) * BlockSize <= b /\ b < (BlockOf(b) + 1) * BlockSize
  BY CoherenceAssumption DEF Bytes, BlockOf
<1> QED BY <1>1 DEF Blocks, BytesOf

\* Blocks are numbered.
LEMMA BlocksInNat == Blocks \subseteq Nat
  BY BlockFacts DEF Blocks

\* A revocation evicts every block it takes a byte of.
LEMMA BlocksThroughCovers ==
  ASSUME NEW lo \in Nat, NEW hi \in 0..Size, NEW b \in lo..(hi - 1)
  PROVE  b \in Bytes /\ BlockOf(b) \in BlocksThrough(lo, hi)
<1>1. b \in Bytes /\ lo \in Bytes
  BY CoherenceAssumption DEF Bytes
<1>2. BlockOf(lo) <= BlockOf(b)
  <2>1. BlockOf(lo) * BlockSize < (BlockOf(b) + 1) * BlockSize
    BY <1>1, BlockFacts, CoherenceAssumption DEF Bytes
  <2>2. \A m, n \in Nat : m * BlockSize < n * BlockSize => m < n
    BY CoherenceAssumption, SMT
  <2> QED BY <1>1, <2>1, <2>2, BlockFacts
<1>3. BlockOf(b) * BlockSize <= hi
  BY <1>1, BlockFacts, CoherenceAssumption DEF Bytes
<1> QED BY <1>1, <1>2, <1>3, BlockFacts DEF BlocksThrough

\* An operation in progress is at a byte of the file.
LEMMA HereFacts ==
  ASSUME CInv, NEW c \in Clients, op[c].pc # "idle"
  PROVE  /\ op[c].next \in Bytes /\ Here(c) \in Blocks
         /\ Wanted(c) \subseteq Bytes
         /\ \A b \in Part(c) : b \in Bytes /\ BlockOf(b) = Here(c)
<1>1. op[c].next \in Bytes /\ Wanted(c) \subseteq Bytes
  BY CoherenceAssumption DEF CInv, TypesOK, OpRecord, OpOK, Bytes, Wanted
<1> QED BY <1>1, BlockFacts DEF Here, Part

\* The invariant holds at the start: no tokens, empty caches, current servers.
LEMMA InitCInv == CoherenceInit => CInv
<1> SUFFICES ASSUME CoherenceInit PROVE CInv
  OBVIOUS
<1> USE DEF CoherenceInit
<1>1. TypesOK
  BY CoherenceAssumption DEF TypesOK, OpRecord, BlockRecord, NoOp, Absent
<1>2. \A c \in Clients : OpOK(c)
  BY CoherenceAssumption DEF OpOK, NoOp
<1>3. \A c \in Clients, k \in Blocks : BlockOK(c, k)
  BY DEF BlockOK, Absent
<1>4. Exclusive /\ ServingOK
  BY CoherenceAssumption DEF Exclusive, ServingOK
<1>5. DirtyOK /\ CoveredOK /\ LastWriteKept
  BY BlockFacts DEF DirtyOK, CoveredOK, LastWriteKept, Copy, Absent, NoOp
<1> QED BY <1>1, <1>2, <1>3, <1>4, <1>5 DEF CInv


\* The types of single values.
LEMMA Values ==
  ASSUME TypesOK
  PROVE  /\ \A c \in Clients, b \in Bytes : rights[c][b] \in 0..2
         /\ \A c \in Clients : op[c] \in OpRecord
         /\ \A c \in Clients, k \in Blocks : cache[c][k] \in BlockRecord
  BY DEF TypesOK

\* acquirePermission up to the request changes no token and no copy.
LEMMA StartPreserves ==
  ASSUME CInv, NEW c \in Clients, NEW r \in Ranges, NEW write \in BOOLEAN,
         Start(c, r, write)
  PROVE  CInv'
<1>1. r[1] \in Nat /\ r[2] \in 0..Size /\ r[1] < r[2]
  BY CoherenceAssumption
<1>2. PICK pc \in {"work", "ask"} :
        op' = [op EXCEPT ![c] = [NoOp EXCEPT !.pc = pc, !.lo = r[1], !.hi = r[2],
                                             !.write = write, !.next = r[1]]]
  <2> DEFINE has == \A b \in r[1]..(r[2] - 1) : rights[c][b] >= Needed(write)
  <2>1. op' = [op EXCEPT ![c] = [NoOp EXCEPT !.pc = IF has THEN "work" ELSE "ask",
                                             !.lo = r[1], !.hi = r[2], !.write = write,
                                             !.next = r[1]]]
    BY Zenon DEF Start
  <2> HIDE DEF has
  <2>2. PICK pc \in {"work", "ask"} : pc = IF has THEN "work" ELSE "ask"
    OBVIOUS
  <2> QED BY Zenon, <2>1, <2>2
<1>3. TypesOK'
  <2>1. NoOp \in OpRecord
    BY CoherenceAssumption DEF NoOp, OpRecord
  <2>2. [NoOp EXCEPT !.pc = pc, !.lo = r[1], !.hi = r[2], !.write = write, !.next = r[1]]
          \in OpRecord
    BY Zenon, <1>1, <2>1 DEF OpRecord
  <2>3. op' \in [Clients -> OpRecord]
    BY <1>2, <2>2 DEF CInv, TypesOK
  <2> QED BY <2>3 DEF CInv, TypesOK, Start
<1>4. op[c].pc = "idle" /\ \A d \in Clients : d # c => op'[d] = op[d]
  BY <1>2 DEF CInv, TypesOK, Start
<1>5. op'[c].pc = pc /\ op'[c].lo = r[1] /\ op'[c].hi = r[2] /\ op'[c].next = r[1]
      /\ op'[c].covered = {}
  BY <1>2 DEF CInv, TypesOK, NoOp
<1>6. \A d \in Clients : OpOK(d)'
  <2>1. OpOK(c)'
    BY <1>1, <1>5 DEF OpOK
  <2>2. \A d \in Clients : d # c => OpOK(d)'
    BY <1>4 DEF CInv, OpOK, Start, Here
  <2> QED BY <2>1, <2>2
<1>7. \A d \in Clients, k \in Blocks : BlockOK(d, k)'
  BY DEF CInv, BlockOK, Start
<1>8. Exclusive' /\ LastWriteKept'
  BY DEF CInv, Exclusive, LastWriteKept, Start
<1>9. serving' = serving /\ (serving \in Clients => op'[serving] = op[serving])
  BY <1>4 DEF CInv, ServingOK, Start
<1>10. ServingOK'
  BY <1>9 DEF CInv, TypesOK, ServingOK, Start, Wanted, Conflict
<1>11. DirtyOK'
  BY <1>9 DEF CInv, TypesOK, ServingOK, DirtyOK, Start, Copy, Leaving, Wanted
<1>12. CoveredOK'
  BY <1>4, <1>5 DEF CInv, CoveredOK, Start, Copy
<1> QED BY <1>3, <1>6, <1>7, <1>8, <1>10, <1>11, <1>12 DEF CInv

\* Every client whose token conflicts with the request becomes a victim.
LEMMA ServePreserves ==
  ASSUME CInv, NEW c \in Clients, Serve(c)
  PROVE  CInv'
<1>1. PICK whole \in BOOLEAN :
        /\ op' = [op EXCEPT ![c].whole = whole]
        /\ whole => \A d \in Clients \ {c} : \A b \in Bytes : rights[d][b] = 0
  <2> DEFINE w == \A d \in Clients \ {c} : \A b \in Bytes : rights[d][b] = 0
  <2>1. w \in BOOLEAN
    OBVIOUS
  <2>2. op' = [op EXCEPT ![c].whole = w]
    BY Zenon DEF Serve
  <2> HIDE DEF w
  <2>3. (op' = [op EXCEPT ![c].whole = w]) /\ (w => w)
    BY <2>2
  <2> QED BY Zenon, <2>1, <2>3 DEF w
<1>2. op[c].pc = "ask" /\ serving = Nobody /\ serving' = c
      /\ \A d \in Clients : evicting[d] = {}
  BY DEF CInv, ServingOK, Serve
<1>3. TypesOK'
  <2>1. op[c] \in OpRecord
    BY Values DEF CInv
  <2>2. [op[c] EXCEPT !.whole = whole] \in OpRecord
    BY Zenon, <2>1 DEF OpRecord
  <2>3. op' \in [Clients -> OpRecord]
    BY <1>1, <2>2 DEF CInv, TypesOK
  <2> QED BY <2>3 DEF CInv, TypesOK, Serve
<1>4. \A d \in Clients :
        /\ op'[d].pc = op[d].pc /\ op'[d].lo = op[d].lo /\ op'[d].hi = op[d].hi
        /\ op'[d].next = op[d].next /\ op'[d].covered = op[d].covered
        /\ op'[d].current = op[d].current /\ op'[d].write = op[d].write
        /\ d = c => op'[d].whole = whole
  BY ZenonT(30), <1>1 DEF CInv, TypesOK, OpRecord
<1>5. \A d \in Clients : OpOK(d)'
  BY <1>4 DEF CInv, OpOK, Serve, Here
<1>6. \A d \in Clients, k \in Blocks : BlockOK(d, k)'
  BY DEF CInv, BlockOK, Serve
<1>7. Exclusive' /\ LastWriteKept'
  BY DEF CInv, Exclusive, LastWriteKept, Serve
<1>8. ServingOK'
  <2>1. victims' = {d \in Clients \ {c} : \E b \in Wanted(c) : Conflict(c, d, b)}
    BY DEF Serve, Conflict
  <2>2. Wanted(c)' = Wanted(c) /\ \A d \in Clients, b \in Bytes : Conflict(c, d, b)' = Conflict(c, d, b)
    BY <1>4 DEF Wanted, Conflict, Serve
  <2>3. Wanted(c) \subseteq Bytes
    BY <1>2, HereFacts
  <2>4. /\ serving' # Nobody
        /\ op'[c].pc = "ask"
        /\ c \notin victims'
        /\ \A d \in victims' : evicting'[d] = {}
    BY <1>2, <1>4, <2>1, CoherenceAssumption DEF Serve
  <2>5. \A d \in Clients \ {c} :
          d \notin victims' => \A b \in Wanted(c)' : ~Conflict(c, d, b)'
    BY <2>1, <2>2, <2>3
  <2>6. op'[c].whole => \A d \in Clients \ {c} : \A b \in Bytes : rights'[d][b] = 0
    BY Zenon, <1>1, <1>4 DEF Serve
  <2> QED BY <1>2, <2>4, <2>5, <2>6 DEF ServingOK
<1>9. DirtyOK'
  BY <1>2 DEF CInv, DirtyOK, Serve, Copy, Leaving
<1>10. CoveredOK'
  BY <1>4 DEF CInv, CoveredOK, Serve, Copy
<1> QED BY <1>3, <1>5, <1>6, <1>7, <1>8, <1>9, <1>10 DEF CInv

\* When all victims have returned, no other client is in the way of the grant.
LEMMA GrantPreserves ==
  ASSUME CInv, NEW c \in Clients, Grant(c)
  PROVE  CInv'
<1> DEFINE granted == IF op[c].whole THEN Bytes ELSE Wanted(c)
           mode == Needed(op[c].write)
<1>1. serving = c /\ serving' = Nobody /\ victims = {} /\ \A d \in Clients : evicting[d] = {}
  BY DEF Grant, AllReturned
<1>2. mode \in 1..2 /\ op[c].pc = "ask"
  BY <1>1 DEF CInv, ServingOK, Needed
<1>3. \A d \in Clients, b \in Bytes :
        rights'[d][b] = IF d = c /\ b \in granted /\ rights[d][b] < mode THEN mode ELSE rights[d][b]
  BY DEF CInv, TypesOK, Grant
<1>4. \A d \in Clients \ {c}, b \in Bytes : b \in granted =>
        rights[d][b] # 2 /\ (mode = 2 => rights[d][b] = 0)
  BY <1>1 DEF CInv, TypesOK, ServingOK, Conflict, Needed
<1>5. TypesOK'
  <2>1. rights' \in [Clients -> [Bytes -> 0..2]]
    BY <1>2 DEF CInv, TypesOK, Grant
  <2>2. op' \in [Clients -> OpRecord]
    <3>1. op[c] \in OpRecord
      BY Values DEF CInv
    <3>2. [op[c] EXCEPT !.pc = "work", !.locked = TRUE] \in OpRecord
      BY Zenon, <3>1 DEF OpRecord
    <3> QED BY <3>2 DEF CInv, TypesOK, Grant
  <2> QED BY <2>1, <2>2 DEF CInv, TypesOK, Grant
<1>6. \A d \in Clients :
        /\ d # c => op'[d] = op[d]
        /\ op'[d].lo = op[d].lo /\ op'[d].hi = op[d].hi
        /\ op'[d].next = op[d].next /\ op'[d].covered = op[d].covered
        /\ op'[d].current = op[d].current
        /\ d = c => op'[d].pc = "work"
  BY DEF CInv, TypesOK, OpRecord, Grant
<1>7. \A d \in Clients : OpOK(d)'
  <2>1. OpOK(c)'
    BY <1>2, <1>6 DEF CInv, OpOK
  <2>2. \A d \in Clients : d # c => OpOK(d)'
    <3>1. \A d \in Clients : d # c => op'[d] = op[d]
      BY <1>6
    <3> QED BY Zenon, <3>1 DEF CInv, OpOK, Grant, Here
  <2> QED BY <2>1, <2>2
<1>8. \A d \in Clients, k \in Blocks : BlockOK(d, k)'
  BY DEF CInv, BlockOK, Grant
<1> HIDE DEF granted, mode
<1>9. Exclusive'
  <2> SUFFICES ASSUME NEW d \in Clients, NEW e \in Clients, NEW b \in Bytes, d # e,
                      rights'[d][b] = 2
               PROVE  rights'[e][b] = 0
    BY DEF Exclusive
  <2>1. rights[d][b] \in 0..2 /\ rights[e][b] \in 0..2
    BY Values DEF CInv
  <2>2. rights[d][b] = 2 => rights[e][b] = 0
    BY DEF CInv, Exclusive
  <2>3. rights[e][b] = 2 => rights[d][b] = 0
    BY DEF CInv, Exclusive
  <2>4. e = c /\ b \in granted => rights[d][b] # 2
    BY <1>4
  <2>5. d = c /\ b \in granted => (mode = 2 => rights[e][b] = 0)
    BY <1>4
  <2> QED BY <1>2, <1>3, <2>1, <2>2, <2>3, <2>4, <2>5
<1>10. LastWriteKept'
  BY DEF CInv, LastWriteKept, Grant
<1>11. ServingOK'
  BY <1>1, CoherenceAssumption DEF Grant, ServingOK
<1>12. DirtyOK'
  BY <1>1, <1>2, <1>3, <1>4 DEF CInv, TypesOK, DirtyOK, Grant, Copy, Leaving
<1>13. CoveredOK'
  <2>1. \A d \in Clients, b \in Bytes : rights[d][b] # 0 => rights'[d][b] # 0
    BY <1>2, <1>3
  <2>2. \A d \in Clients : op'[d].covered = op[d].covered /\ op'[d].current = op[d].current
    BY <1>6
  <2> QED BY Zenon, <2>1, <2>2 DEF CInv, CoveredOK, Grant, Copy
<1> QED BY <1>5, <1>7, <1>8, <1>9, <1>10, <1>11, <1>12, <1>13 DEF CInv

\* Taking bytes out of a record's covered bytes changes nothing else.
LEMMA BlockUncovered ==
  ASSUME NEW r \in BlockRecord, NEW S, NEW q, q = Uncovered(r, S)
  PROVE  /\ q.held = r.held /\ q.current = r.current /\ q.dirty = r.dirty
         /\ q.covered = r.covered \ S
         /\ q \in BlockRecord
<1>1. r.covered \ S \in SUBSET Bytes
  BY DEF BlockRecord
<1>2. PICK V \in SUBSET Bytes : V = r.covered \ S
  BY Zenon, <1>1
<1>3. q = [r EXCEPT !.covered = V]
  BY <1>2 DEF Uncovered
<1>4. q \in BlockRecord
  BY Zenon, <1>3 DEF BlockRecord
<1>5. q.held = r.held /\ q.current = r.current /\ q.dirty = r.dirty /\ q.covered = V
  BY <1>3 DEF BlockRecord
<1> QED BY <1>2, <1>4, <1>5

\* Losing tokens changes nothing in an operation but what it has covered.
LEMMA OpUncovered ==
  ASSUME NEW r \in OpRecord, NEW S, NEW q, q = Uncovered(r, S)
  PROVE  /\ q.pc = r.pc /\ q.lo = r.lo /\ q.hi = r.hi /\ q.next = r.next
         /\ q.write = r.write /\ q.current = r.current
         /\ q.covered = r.covered \ S
         /\ q \in OpRecord
<1>1. r.covered \ S \in SUBSET Bytes
  BY DEF OpRecord
<1>2. PICK V \in SUBSET Bytes : V = r.covered \ S
  BY Zenon, <1>1
<1>3. q = [r EXCEPT !.covered = V]
  BY <1>2 DEF Uncovered
<1>4. q \in OpRecord
  BY Zenon, <1>3 DEF OpRecord
<1>5. /\ q.pc = r.pc /\ q.lo = r.lo /\ q.hi = r.hi /\ q.next = r.next
      /\ q.write = r.write /\ q.current = r.current /\ q.covered = V
  BY ZenonT(30), <1>3 DEF OpRecord
<1> QED BY <1>2, <1>4, <1>5

\* A victim that loses its token has the blocks of the range still to evict.
LEMMA RevokePreserves ==
  ASSUME CInv, NEW d \in Clients, Revoke(d)
  PROVE  CInv'
<1>1. serving \in Clients /\ d \in victims /\ d # serving /\ op[serving].pc = "ask"
  BY CoherenceAssumption DEF CInv, TypesOK, ServingOK, Revoke
<1> DEFINE range == Wanted(serving)
<1>2. \A c \in Clients, b \in Bytes :
        rights'[c][b] = IF c = d /\ b \in range THEN 0 ELSE rights[c][b]
  BY DEF CInv, TypesOK, Revoke
<1>3. \A c \in Clients, k \in Blocks :
        cache'[c][k] = IF c = d THEN Uncovered(cache[c][k], range) ELSE cache[c][k]
  BY DEF CInv, TypesOK, Revoke
<1>4. \A c \in Clients :
        op'[c] = IF c = d THEN Uncovered(op[c], range) ELSE op[c]
  BY DEF CInv, TypesOK, Revoke
<1>5. /\ serving' = serving /\ victims' = victims \ {d} /\ op'[serving] = op[serving]
      /\ evicting' = [evicting EXCEPT ![d] = BlocksThrough(op[serving].lo, op[serving].hi)]
      /\ server' = server /\ spoiled' = spoiled
  BY <1>1, <1>4 DEF Revoke
<1>6. Wanted(serving)' = range
  BY Zenon, <1>5 DEF Wanted
<1> HIDE DEF range
<1>7. \A c \in Clients, k \in Blocks :
        /\ cache'[c][k].held = cache[c][k].held
        /\ cache'[c][k].current = cache[c][k].current
        /\ cache'[c][k].dirty = cache[c][k].dirty
        /\ cache'[c][k].covered \subseteq cache[c][k].covered
        /\ c = d => cache'[c][k].covered \intersect range = {}
        /\ cache'[c][k] \in BlockRecord
  <2> SUFFICES ASSUME NEW c \in Clients, NEW k \in Blocks
               PROVE  /\ cache'[c][k].held = cache[c][k].held
                      /\ cache'[c][k].current = cache[c][k].current
                      /\ cache'[c][k].dirty = cache[c][k].dirty
                      /\ cache'[c][k].covered \subseteq cache[c][k].covered
                      /\ c = d => cache'[c][k].covered \intersect range = {}
                      /\ cache'[c][k] \in BlockRecord
    OBVIOUS
  <2>1. cache[c][k] \in BlockRecord
    BY Values DEF CInv
  <2>2. CASE c = d
    <3>1. cache'[c][k] = Uncovered(cache[c][k], range)
      BY <1>3, <2>2
    <3> QED BY <3>1, <2>1, BlockUncovered
  <2>3. CASE c # d
    BY <1>3, <2>1, <2>3
  <2> QED BY <2>2, <2>3
<1>8. \A c \in Clients :
        /\ op'[c].pc = op[c].pc /\ op'[c].current = op[c].current
        /\ op'[c].lo = op[c].lo /\ op'[c].hi = op[c].hi /\ op'[c].next = op[c].next
        /\ op'[c].covered \subseteq op[c].covered
        /\ c = d => op'[c].covered \intersect range = {}
        /\ op'[c] \in OpRecord
  <2> SUFFICES ASSUME NEW c \in Clients
               PROVE  /\ op'[c].pc = op[c].pc /\ op'[c].current = op[c].current
                      /\ op'[c].lo = op[c].lo /\ op'[c].hi = op[c].hi
                      /\ op'[c].next = op[c].next
                      /\ op'[c].covered \subseteq op[c].covered
                      /\ c = d => op'[c].covered \intersect range = {}
                      /\ op'[c] \in OpRecord
    OBVIOUS
  <2>1. op[c] \in OpRecord
    BY Values DEF CInv
  <2>2. CASE c = d
    <3>1. op'[c] = Uncovered(op[c], range)
      BY <1>4, <2>2
    <3> QED BY <3>1, <2>1, OpUncovered
  <2>3. CASE c # d
    BY <1>4, <2>1, <2>3
  <2> QED BY <2>2, <2>3
<1>9. \A b \in range : b \in Bytes /\ BlockOf(b) \in evicting'[d]
  <2>1. op[serving] \in OpRecord /\ evicting \in [Clients -> SUBSET Blocks]
    BY <1>1, Values DEF CInv, TypesOK
  <2>2. op[serving].lo \in Nat /\ op[serving].hi \in 0..Size
    BY <2>1 DEF OpRecord
  <2> QED BY <2>1, <2>2, <1>5, BlocksThroughCovers DEF range, Wanted
<1>10. TypesOK'
  <2>1. rights' \in [Clients -> [Bytes -> 0..2]]
    BY SMTT(30) DEF CInv, TypesOK, Revoke
  <2>2. cache' \in [Clients -> [Blocks -> BlockRecord]]
    BY <1>7 DEF CInv, TypesOK, Revoke
  <2>3. evicting' \in [Clients -> SUBSET Blocks]
    BY Zenon, <1>5 DEF CInv, TypesOK, BlocksThrough
  <2>4. op' \in [Clients -> OpRecord]
    BY Zenon, <1>8 DEF CInv, TypesOK, Revoke
  <2> QED BY Zenon, <2>1, <2>2, <2>3, <2>4, <1>5 DEF CInv, TypesOK
<1>11. \A c \in Clients : OpOK(c)'
  <2> SUFFICES ASSUME NEW c \in Clients PROVE OpOK(c)'
    OBVIOUS
  <2>1. OpOK(c)
    BY DEF CInv
  <2>2. op[c].pc = "fetched" => Here(c) \in Blocks
    BY Zenon, HereFacts
  <2> QED BY <2>1, <2>2, <1>7, <1>8 DEF OpOK, Here
<1>12. \A c \in Clients, k \in Blocks : BlockOK(c, k)'
  BY <1>7 DEF CInv, BlockOK
<1>13. Exclusive'
  <2> SUFFICES ASSUME NEW c \in Clients, NEW e \in Clients, NEW b \in Bytes, c # e,
                      rights'[c][b] = 2
               PROVE  rights'[e][b] = 0
    BY DEF Exclusive
  <2>1. rights[c][b] = 2 => rights[e][b] = 0
    BY DEF CInv, Exclusive
  <2> QED BY SMTT(30), <1>2, <2>1
<1>14. LastWriteKept'
  BY SMTT(30), <1>5, <1>7, BlockFacts DEF CInv, LastWriteKept
<1>15. ServingOK'
  <2>1. \A e \in Clients, b \in Bytes : Conflict(serving, e, b)' =>
          Conflict(serving, e, b) /\ ~(e = d /\ b \in range)
    BY <1>2, <1>5 DEF Conflict
  <2>2. \A e \in Clients \ {serving} : e \notin victims' =>
          \A b \in Wanted(serving)' : ~Conflict(serving, e, b)'
    BY Zenon, <1>1, <1>5, <1>6, <1>9, <2>1 DEF CInv, ServingOK, range
  <2>3. op'[serving].whole => \A e \in Clients \ {serving} : \A b \in Bytes : rights'[e][b] = 0
    BY ZenonT(30), <1>1, <1>2, <1>5 DEF CInv, ServingOK
  <2>4. \A e \in victims' : evicting'[e] = {}
    BY Zenon, <1>5 DEF CInv, TypesOK, ServingOK
  <2> QED BY Zenon, <1>1, <1>5, <2>2, <2>3, <2>4, CoherenceAssumption DEF CInv, ServingOK
<1>16. DirtyOK'
  <2> SUFFICES ASSUME NEW c \in Clients, NEW b \in Bytes, b \notin spoiled,
                      b \in Copy(c, b)'.dirty
               PROVE  /\ b \in Copy(c, b)'.current
                      /\ rights'[c][b] = 2 \/ Leaving(c, b)'
                      /\ \A e \in Clients \ {c} : rights'[e][b] = 0 /\ b \notin Copy(e, b)'.dirty
    BY <1>5 DEF DirtyOK
  <2>1. \A e \in Clients : /\ Copy(e, b)'.dirty = Copy(e, b).dirty
                           /\ Copy(e, b)'.current = Copy(e, b).current
    BY Zenon, <1>7, BlockFacts DEF Copy
  <2>2. /\ b \in Copy(c, b).current
        /\ rights[c][b] = 2 \/ Leaving(c, b)
        /\ \A e \in Clients \ {c} : rights[e][b] = 0 /\ b \notin Copy(e, b).dirty
    BY Zenon, <2>1 DEF CInv, DirtyOK
  <2>3. Leaving(c, b) => Leaving(c, b)'
    BY Zenon, <1>1, <1>5, <1>6 DEF Leaving, CInv, TypesOK, ServingOK, range
  <2>4. c = d /\ b \in range => Leaving(c, b)'
    BY Zenon, <1>5, <1>6, <1>9 DEF Leaving
  <2> QED BY Zenon, <1>2, <2>1, <2>2, <2>3, <2>4
<1>17. CoveredOK'
  <2> SUFFICES ASSUME NEW c \in Clients, NEW b \in Bytes, b \notin spoiled
               PROVE  /\ b \in Copy(c, b)'.covered =>
                           b \in Copy(c, b)'.current /\ rights'[c][b] # 0
                      /\ b \in op'[c].covered => b \in op'[c].current /\ rights'[c][b] # 0
    BY <1>5 DEF CoveredOK
  <2>1. /\ b \in Copy(c, b).covered => b \in Copy(c, b).current /\ rights[c][b] # 0
        /\ b \in op[c].covered => b \in op[c].current /\ rights[c][b] # 0
    BY DEF CInv, CoveredOK
  <2>2. /\ Copy(c, b)'.covered \subseteq Copy(c, b).covered
        /\ Copy(c, b)'.current = Copy(c, b).current
        /\ c = d => Copy(c, b)'.covered \intersect range = {}
    BY <1>7, BlockFacts DEF Copy
  <2> QED BY ZenonT(30), <1>2, <1>8, <2>1, <2>2
<1> QED BY <1>10, <1>11, <1>12, <1>13, <1>14, <1>15, <1>16, <1>17 DEF CInv

-----------------------------------------------------------------------------
(***************************************************************************)
(* Evictions, harvests and flushes: client c writes the dirty bytes of the *)
(* blocks K back and keeps or drops the blocks.                            *)
(***************************************************************************)
Drops(c, K) ==
  /\ server' = Flushed(c, K)
  /\ UNCHANGED <<rights, serving, victims, op, spoiled>>
  /\ evicting' \in [Clients -> SUBSET Blocks]
  /\ \A d \in Clients : /\ evicting'[d] \subseteq evicting[d]
                        /\ evicting[d] \subseteq evicting'[d] \union (IF d = c THEN K ELSE {})
  /\ cache' \in [Clients -> [Blocks -> BlockRecord]]
  /\ \A d \in Clients, k \in Blocks : d # c \/ k \notin K => cache'[d][k] = cache[d][k]
  /\ \A k \in K : \/ cache'[c][k] = Absent
                  \/ cache'[c][k] = [cache[c][k] EXCEPT !.dirty = {}]

\* What a client writes back is the last value of the byte.
LEMMA FlushedFacts ==
  ASSUME CInv, NEW c \in Clients, NEW K \in SUBSET Blocks
  PROVE  /\ Flushed(c, K) \subseteq Bytes
         /\ \A b \in Bytes \ spoiled :
              \/ b \in server
              \/ b \in Copy(c, b).dirty /\ BlockOf(b) \in K
              => b \in Flushed(c, K)
<1>1. Flushed(c, K) \subseteq Bytes
  BY DEF CInv, TypesOK, BlockRecord, Flushed
<1>2. ASSUME NEW b \in Bytes \ spoiled, NEW k \in K, b \in cache[c][k].dirty
      PROVE  b \in cache[c][k].current
  <2>1. BlockOf(b) = k
    BY <1>2 DEF CInv, BlockOK, BytesOf
  <2> QED BY <1>2, <2>1 DEF CInv, DirtyOK, Copy
<1> QED BY <1>1, <1>2 DEF Flushed, Copy

\* Flushing and cleaning or dropping any blocks of a client loses no write.
LEMMA DropsPreserves ==
  ASSUME CInv, NEW c \in Clients, NEW K \in SUBSET Blocks, Drops(c, K)
  PROVE  CInv'
<1>1. \A k \in K : /\ cache'[c][k].dirty = {}
                   /\ cache'[c][k].held => cache[c][k].held
                   /\ cache'[c][k].covered \subseteq cache[c][k].covered
                   /\ cache'[c][k].covered # {} => cache'[c][k].current = cache[c][k].current
  <2> SUFFICES ASSUME NEW k \in K
               PROVE  /\ cache'[c][k].dirty = {}
                      /\ cache'[c][k].held => cache[c][k].held
                      /\ cache'[c][k].covered \subseteq cache[c][k].covered
                      /\ cache'[c][k].covered # {} => cache'[c][k].current = cache[c][k].current
    OBVIOUS
  <2>1. CASE cache'[c][k] = Absent
    BY <2>1 DEF Absent
  <2>2. CASE cache'[c][k] = [cache[c][k] EXCEPT !.dirty = {}]
    <3>1. cache[c][k] \in BlockRecord
      BY Values DEF CInv
    <3> QED BY <2>2, <3>1 DEF BlockRecord
  <2> QED BY Zenon, <2>1, <2>2 DEF Drops
<1>2. \A d \in Clients, k \in Blocks : d # c \/ k \notin K => cache'[d][k] = cache[d][k]
  BY Zenon DEF Drops
<1>3. \A d \in Clients, k \in Blocks :
        /\ cache'[d][k].held => cache[d][k].held
        /\ cache'[d][k].covered \subseteq cache[d][k].covered
        /\ cache'[d][k].covered # {} => cache'[d][k].current = cache[d][k].current
        /\ cache'[d][k].dirty # {} => cache'[d][k] = cache[d][k] /\ (d # c \/ k \notin K)
        /\ cache'[d][k].dirty # cache[d][k].dirty => d = c /\ k \in K
  BY <1>1, <1>2
<1>4. TypesOK'
  BY ZenonT(30), FlushedFacts DEF CInv, TypesOK, Drops
<1>5. \A d \in Clients : OpOK(d)'
  <2> SUFFICES ASSUME NEW d \in Clients PROVE OpOK(d)'
    OBVIOUS
  <2>1. op' = op
    BY DEF Drops
  <2>2. op[d].pc = "fetched" => Here(d) \in Blocks
    BY Zenon, HereFacts
  <2>3. op[d].pc = "fetched" => ~cache'[d][Here(d)].held
    BY Zenon, <1>3, <2>2 DEF CInv, OpOK
  <2> QED BY <2>1, <2>3 DEF CInv, OpOK, Here
<1>6. \A d \in Clients, k \in Blocks : BlockOK(d, k)'
  BY <1>3 DEF CInv, BlockOK
<1>7. Exclusive'
  BY ZenonT(30) DEF CInv, Exclusive, Drops
<1>8. ServingOK'
  <2>1. \A d \in Clients : evicting[d] = {} => evicting'[d] = {}
    BY DEF Drops
  <2>2. /\ serving' = serving /\ victims' = victims /\ op' = op /\ rights' = rights
        /\ Wanted(serving)' = Wanted(serving)
        /\ \A d \in Clients, b \in Bytes : Conflict(serving, d, b)' = Conflict(serving, d, b)
    BY Zenon DEF Drops, Wanted, Conflict
  <2>3. serving \in Clients => Wanted(serving) \subseteq Bytes
    BY HereFacts DEF CInv, ServingOK
  <2>4. victims \subseteq Clients
    BY Zenon DEF CInv, TypesOK
  <2> QED BY <2>1, <2>2, <2>3, <2>4 DEF CInv, ServingOK
<1>9. DirtyOK'
  <2> SUFFICES ASSUME NEW d \in Clients, NEW b \in Bytes, b \notin spoiled,
                      b \in Copy(d, b)'.dirty
               PROVE  /\ b \in Copy(d, b)'.current
                      /\ rights'[d][b] = 2 \/ Leaving(d, b)'
                      /\ \A e \in Clients \ {d} : rights'[e][b] = 0 /\ b \notin Copy(e, b)'.dirty
    BY DEF DirtyOK, Drops
  <2>1. Copy(d, b)' = Copy(d, b) /\ (d # c \/ BlockOf(b) \notin K)
    BY Zenon, <1>3, BlockFacts DEF Copy
  <2>2. /\ b \in Copy(d, b).current
        /\ rights[d][b] = 2 \/ Leaving(d, b)
        /\ \A e \in Clients \ {d} : rights[e][b] = 0 /\ b \notin Copy(e, b).dirty
    BY <2>1 DEF CInv, DirtyOK
  <2>3. Leaving(d, b) => Leaving(d, b)'
    BY Zenon, <2>1 DEF Leaving, Drops, Wanted
  <2>4. \A e \in Clients : b \in Copy(e, b)'.dirty => b \in Copy(e, b).dirty
    BY <1>3, BlockFacts DEF Copy
  <2>5. rights' = rights
    BY Zenon DEF Drops
  <2> QED BY Zenon, <2>1, <2>2, <2>3, <2>4, <2>5
<1>10. CoveredOK'
  <2> SUFFICES ASSUME NEW d \in Clients, NEW b \in Bytes, b \notin spoiled
               PROVE  /\ b \in Copy(d, b)'.covered =>
                           b \in Copy(d, b)'.current /\ rights'[d][b] # 0
                      /\ b \in op'[d].covered => b \in op'[d].current /\ rights'[d][b] # 0
    BY Zenon DEF CoveredOK, Drops
  <2>1. b \in Copy(d, b)'.covered =>
          b \in Copy(d, b).covered /\ Copy(d, b)'.current = Copy(d, b).current
    BY <1>3, BlockFacts DEF Copy
  <2>2. op' = op /\ rights' = rights
    BY DEF Drops
  <2> QED BY <2>1, <2>2 DEF CInv, CoveredOK
<1>11. LastWriteKept'
  <2> SUFFICES ASSUME NEW b \in Bytes, b \notin spoiled, b \notin server'
               PROVE  \E d \in Clients : b \in Copy(d, b)'.dirty /\ b \in Copy(d, b)'.current
    BY DEF LastWriteKept, Copy, Drops
  <2>1. b \notin server /\ ~(b \in Copy(c, b).dirty /\ BlockOf(b) \in K)
    BY Zenon, FlushedFacts DEF Drops
  <2>2. PICK d \in Clients : b \in Copy(d, b).dirty /\ b \in Copy(d, b).current
    BY <2>1 DEF CInv, LastWriteKept, Copy
  <2>3. Copy(d, b)' = Copy(d, b)
    BY <1>2, <2>1, <2>2, BlockFacts DEF Copy
  <2> QED BY <2>2, <2>3
<1> QED BY Zenon, <1>4, <1>5, <1>6, <1>7, <1>8, <1>9, <1>10, <1>11 DEF CInv

\* Dropped blocks are absent, the others unchanged.
LEMMA WithoutDrops ==
  ASSUME CInv, NEW c \in Clients, NEW K \in SUBSET Blocks, cache' = Without(c, K)
  PROVE  /\ cache' \in [Clients -> [Blocks -> BlockRecord]]
         /\ \A d \in Clients, k \in Blocks : d # c \/ k \notin K => cache'[d][k] = cache[d][k]
         /\ \A k \in K : cache'[c][k] = Absent
<1>1. Absent \in BlockRecord
  BY DEF Absent, BlockRecord
<1> QED BY <1>1 DEF CInv, TypesOK, Without

\* The harvester flushes what it drops.
LEMMA HarvestPreserves ==
  ASSUME CInv, NEW c \in Clients, NEW k \in Blocks, Harvest(c, k)
  PROVE  CInv'
<1>1. Drops(c, {k})
  <2>1. cache' = Without(c, {k})
    BY DEF Harvest
  <2>2. evicting' \in [Clients -> SUBSET Blocks]
    BY DEF Harvest, CInv, TypesOK
  <2>3. {k} \in SUBSET Blocks
    OBVIOUS
  <2>4. /\ cache' \in [Clients -> [Blocks -> BlockRecord]]
        /\ \A e \in Clients, i \in Blocks : e # c \/ i \notin {k} => cache'[e][i] = cache[e][i]
        /\ \A i \in {k} : cache'[c][i] = Absent
    BY Zenon, <2>1, <2>3, WithoutDrops
  <2>5. server' = Flushed(c, {k}) /\ UNCHANGED <<rights, serving, victims, op, spoiled>>
    BY Zenon DEF Harvest
  <2> QED BY Zenon, <2>2, <2>4, <2>5 DEF Drops, Harvest
<1> QED BY <1>1, DropsPreserves

\* A revocation flushes each block before it is done with it.
LEMMA EvictRevokedPreserves ==
  ASSUME CInv, NEW d \in Clients, EvictRevoked(d)
  PROVE  CInv'
<1>1. PICK k \in Blocks : k = Min(evicting[d])
  <2>1. evicting[d] \subseteq Blocks /\ evicting[d] # {}
    BY DEF CInv, TypesOK, EvictRevoked
  <2>2. evicting[d] \in SUBSET Nat
    BY Zenon, <2>1, BlocksInNat
  <2> QED BY <2>1, <2>2, NatSetMin
<1>2. Drops(d, {k})
  <2>1. cache' = Without(d, {k})
    BY <1>1 DEF EvictRevoked
  <2>2. /\ evicting' \in [Clients -> SUBSET Blocks]
        /\ \A e \in Clients : /\ evicting'[e] \subseteq evicting[e]
                              /\ evicting[e] \subseteq evicting'[e] \union (IF e = d THEN {k} ELSE {})
    BY <1>1 DEF EvictRevoked, CInv, TypesOK
  <2>3. {k} \in SUBSET Blocks
    OBVIOUS
  <2>4. /\ cache' \in [Clients -> [Blocks -> BlockRecord]]
        /\ \A e \in Clients, i \in Blocks : e # d \/ i \notin {k} => cache'[e][i] = cache[e][i]
        /\ \A i \in {k} : cache'[d][i] = Absent
    BY Zenon, <2>1, <2>3, WithoutDrops
  <2>5. server' = Flushed(d, {k}) /\ UNCHANGED <<rights, serving, victims, op, spoiled>>
    BY <1>1, Zenon DEF EvictRevoked
  <2> QED BY <2>2, <2>4, <2>5 DEF Drops
<1> QED BY <1>2, DropsPreserves

\* The flusher leaves the block in the cache, clean.
LEMMA FlushPreserves ==
  ASSUME CInv, NEW c \in Clients, NEW k \in Blocks, Flush(c, k)
  PROVE  CInv'
<1>1. Drops(c, {k})
  <2>1. cache[c][k] \in BlockRecord
    BY Values DEF CInv
  <2>2. PICK q : q = [cache[c][k] EXCEPT !.dirty = {}]
    BY Zenon
  <2>3. q \in BlockRecord
    BY Zenon, <2>1, <2>2 DEF BlockRecord
  <2>4. cache' = [cache EXCEPT ![c] = [cache[c] EXCEPT ![k] = q]]
    BY <2>2 DEF Flush
  <2>5. /\ cache' \in [Clients -> [Blocks -> BlockRecord]]
        /\ \A d \in Clients, i \in Blocks : d # c \/ i \notin {k} => cache'[d][i] = cache[d][i]
        /\ cache'[c][k] = q
    BY <2>3, <2>4 DEF CInv, TypesOK
  <2>6. evicting' \in [Clients -> SUBSET Blocks]
    BY DEF Flush, CInv, TypesOK
  <2> QED BY Zenon, <2>2, <2>5, <2>6 DEF Drops, Flush
<1> QED BY <1>1, DropsPreserves

-----------------------------------------------------------------------------
\* An operation that goes on to its next block is at a byte of its range.
LEMMA AdvancedFacts ==
  ASSUME CInv, NEW c \in Clients, op[c].pc # "idle", NEW q, q = Advanced(c)
  PROVE  /\ q \in OpRecord /\ q.covered = {} /\ q.pc \in {"idle", "work"}
         /\ q.pc # "idle" => q.lo <= q.next /\ q.next < q.hi
<1>1. op[c] \in OpRecord
  BY Zenon, Values DEF CInv
<1>2. op[c].lo \in Nat /\ op[c].hi \in Nat /\ op[c].next \in Nat /\ op[c].lo <= op[c].next
  BY SMTT(30), <1>1 DEF OpRecord, CInv, OpOK
<1>3. Here(c) \in Nat /\ op[c].next < (Here(c) + 1) * BlockSize
  BY HereFacts, BlockFacts DEF Here
<1>4. PICK next \in Nat : next = (Here(c) + 1) * BlockSize
  BY SMTT(30), <1>3, CoherenceAssumption
<1>5. CASE next >= op[c].hi
  <2>1. q = NoOp
    BY Zenon, <1>4, <1>5 DEF Advanced
  <2> QED BY <2>1, CoherenceAssumption DEF NoOp, OpRecord
<1>6. CASE ~(next >= op[c].hi)
  <2>1. q = [op[c] EXCEPT !.pc = "work", !.next = next, !.current = {}, !.covered = {}]
    BY <1>4, <1>6 DEF Advanced
  <2>2. q \in OpRecord
    BY Zenon, <1>1, <2>1 DEF OpRecord
  <2>3. /\ q.pc = "work" /\ q.next = next /\ q.covered = {}
        /\ q.lo = op[c].lo /\ q.hi = op[c].hi
    BY <1>1, <2>1 DEF OpRecord
  <2> QED BY <1>2, <1>3, <1>4, <1>6, <2>2, <2>3
<1> QED BY Zenon, <1>5, <1>6

\* A step that leaves the tokens and the service alone, and the request that
\* is being served as it was, leaves the service consistent.
LEMMA ServingKept ==
  ASSUME ServingOK, UNCHANGED <<rights, serving, victims, evicting>>,
         serving \in Clients =>
           /\ op'[serving].pc = op[serving].pc
           /\ op'[serving].whole = op[serving].whole
           /\ Wanted(serving)' = Wanted(serving)
           /\ Wanted(serving) \subseteq Bytes
           /\ \A d \in Clients, b \in Bytes : Conflict(serving, d, b)' = Conflict(serving, d, b)
  PROVE  ServingOK'
<1>1. ASSUME serving \in Clients
      PROVE  /\ op'[serving].pc = "ask" /\ serving' \notin victims'
             /\ \A d \in Clients \ {serving} :
                  /\ d \notin victims' => \A b \in Wanted(serving)' : ~Conflict(serving, d, b)'
                  /\ op'[serving].whole => \A b \in Bytes : rights'[d][b] = 0
  <2>1. op'[serving].pc = "ask" /\ serving' \notin victims'
    BY Zenon, <1>1 DEF ServingOK
  <2>2. ASSUME NEW d \in Clients \ {serving}, d \notin victims', NEW b \in Wanted(serving)'
        PROVE  ~Conflict(serving, d, b)'
    <3>1. b \in Wanted(serving) /\ b \in Bytes /\ ~Conflict(serving, d, b)
      BY Zenon, <1>1, <2>2 DEF ServingOK
    <3> QED BY Zenon, <1>1, <3>1
  <2>3. ASSUME NEW d \in Clients \ {serving}, op'[serving].whole, NEW b \in Bytes
        PROVE  rights'[d][b] = 0
    BY Zenon, <1>1, <2>3 DEF ServingOK
  <2> QED BY Zenon, <2>1, <2>2, <2>3
<1>2. serving = Nobody => victims' = {} /\ \A d \in Clients : evicting'[d] = {}
  BY Zenon DEF ServingOK
<1>3. \A d \in victims' : evicting'[d] = {}
  BY Zenon DEF ServingOK
<1> QED BY Zenon, <1>1, <1>2, <1>3 DEF ServingOK

\* A client that is not being served goes on, and perhaps a byte is spoiled.
LEMMA MovePreserves ==
  ASSUME CInv, NEW c \in Clients, NEW q \in OpRecord, q.covered = {},
         q.pc \in {"idle", "work"}, q.pc # "idle" => q.lo <= q.next /\ q.next < q.hi,
         op[c].pc # "ask", op' = [op EXCEPT ![c] = q],
         UNCHANGED <<rights, serving, victims, evicting, cache, server>>,
         spoiled \subseteq spoiled', spoiled' \subseteq Bytes
  PROVE  CInv'
<1>1. op'[c] = q /\ \A d \in Clients : d # c => op'[d] = op[d]
  BY Zenon DEF CInv, TypesOK
<1>2. serving # c /\ (serving \in Clients => op'[serving] = op[serving])
  BY ZenonT(30), <1>1 DEF CInv, ServingOK
<1>3. TypesOK'
  BY DEF CInv, TypesOK
<1>4. \A d \in Clients : OpOK(d)'
  <2>1. OpOK(c)'
    BY ZenonT(30), <1>1 DEF OpOK
  <2>2. \A d \in Clients : d # c => OpOK(d)'
    BY <1>1 DEF CInv, OpOK, Here
  <2> QED BY Zenon, <2>1, <2>2
<1>5. \A d \in Clients, k \in Blocks : BlockOK(d, k)'
  BY Zenon DEF CInv, BlockOK
<1>6. Exclusive'
  BY Zenon DEF CInv, Exclusive
<1>7. ServingOK'
  <2>1. serving \in Clients =>
          /\ Wanted(serving)' = Wanted(serving)
          /\ \A d \in Clients, b \in Bytes : Conflict(serving, d, b)' = Conflict(serving, d, b)
    BY Zenon, <1>2 DEF Wanted, Conflict
  <2>2. serving \in Clients => Wanted(serving) \subseteq Bytes
    BY Zenon, HereFacts DEF CInv, ServingOK
  <2>3. ServingOK
    BY Zenon DEF CInv
  <2> QED BY Zenon, <1>2, <2>1, <2>2, <2>3, ServingKept
<1>8. DirtyOK'
  <2>1. \A d \in Clients, b \in Bytes : Leaving(d, b) => Leaving(d, b)'
    <3>1. \A d \in Clients : serving \notin Clients => evicting[d] = {}
      BY Zenon DEF CInv, TypesOK, ServingOK
    <3> QED BY Zenon, <1>2, <3>1 DEF Leaving, Wanted
  <2> QED BY <2>1 DEF CInv, DirtyOK, Copy
<1>9. CoveredOK'
  <2>1. \A d \in Clients : op'[d].covered = {} \/ op'[d] = op[d]
    BY ZenonT(30), <1>1
  <2> QED BY <2>1 DEF CInv, CoveredOK, Copy
<1>10. LastWriteKept'
  BY DEF CInv, LastWriteKept
<1> QED BY ZenonT(30), <1>3, <1>4, <1>5, <1>6, <1>7, <1>8, <1>9, <1>10 DEF CInv

\* A read that hits changes no copy.
LEMMA ReadHitPreserves ==
  ASSUME CInv, NEW c \in Clients, ReadHit(c)
  PROVE  CInv'
<1>1. PICK q : q = Advanced(c)
  BY Zenon
<1>2. /\ q \in OpRecord /\ q.covered = {} /\ q.pc \in {"idle", "work"}
      /\ q.pc # "idle" => q.lo <= q.next /\ q.next < q.hi
  BY <1>1, AdvancedFacts DEF ReadHit
<1>3. spoiled \subseteq spoiled' /\ spoiled' \subseteq Bytes
  BY DEF ReadHit, CInv, TypesOK
<1>4. op[c].pc # "ask" /\ op' = [op EXCEPT ![c] = q]
      /\ UNCHANGED <<rights, serving, victims, evicting, cache, server>>
  BY Zenon, <1>1 DEF ReadHit
<1> QED BY Zenon, <1>2, <1>3, <1>4, MovePreserves

\* A dropped write only spoils its bytes.
LEMMA WriteDroppedPreserves ==
  ASSUME CInv, NEW c \in Clients, WriteDropped(c)
  PROVE  CInv'
<1>1. PICK q : q = Advanced(c)
  OBVIOUS
<1>2. /\ q \in OpRecord /\ q.covered = {} /\ q.pc \in {"idle", "work"}
      /\ q.pc # "idle" => q.lo <= q.next /\ q.next < q.hi
  BY ZenonT(30), <1>1, AdvancedFacts DEF WriteDropped
<1>3. spoiled \subseteq spoiled' /\ spoiled' \subseteq Bytes
  BY HereFacts DEF WriteDropped, CInv, TypesOK
<1>4. op[c].pc # "ask" /\ op' = [op EXCEPT ![c] = q]
      /\ UNCHANGED <<rights, serving, victims, evicting, cache, server>>
  BY <1>1 DEF WriteDropped
<1> QED BY Zenon, <1>2, <1>3, <1>4, MovePreserves

\* closeFile evicts every block that has a dirty byte, since tokens cover those.
LEMMA CloseFilePreserves ==
  ASSUME CInv, NEW c \in Clients, CloseFile(c)
  PROVE  CInv'
<1>1. PICK K : K = UNION {BlocksThrough(b, b + 1) : b \in {b \in Bytes : rights[c][b] # 0}}
  BY Zenon
<1>2. K \in SUBSET Blocks
  BY <1>1 DEF BlocksThrough
<1>3. /\ op[c].pc = "idle" /\ serving = Nobody /\ server' = Flushed(c, K)
      /\ cache' = [cache EXCEPT ![c] = [k \in Blocks |-> Absent]]
      /\ rights' = [rights EXCEPT ![c] = [b \in Bytes |-> 0]]
      /\ UNCHANGED <<serving, victims, evicting, op, spoiled>>
  BY <1>1 DEF CloseFile
<1>4. \A b \in Bytes : rights[c][b] # 0 => BlockOf(b) \in K
  <2> SUFFICES ASSUME NEW b \in Bytes, rights[c][b] # 0 PROVE BlockOf(b) \in K
    OBVIOUS
  <2>1. BlockOf(b) \in BlocksThrough(b, b + 1)
    BY BlockFacts, CoherenceAssumption DEF BlocksThrough
  <2> QED BY <1>1, <2>1
<1>5. \A d \in Clients, k \in Blocks :
        cache'[d][k] = IF d = c THEN Absent ELSE cache[d][k]
  BY <1>3 DEF CInv, TypesOK
<1>6. \A d \in Clients, b \in Bytes :
        rights'[d][b] = IF d = c THEN 0 ELSE rights[d][b]
  BY <1>3 DEF CInv, TypesOK
<1>7. \A d \in Clients, b \in Bytes : Copy(d, b)' = IF d = c THEN Absent ELSE Copy(d, b)
  BY Zenon, <1>5, BlockFacts DEF Copy
<1>7a. Absent.dirty = {} /\ Absent.covered = {}
  BY DEF Absent
<1>8. TypesOK'
  <2>1. Absent \in BlockRecord
    BY DEF Absent, BlockRecord
  <2>2. cache' \in [Clients -> [Blocks -> BlockRecord]]
    BY <1>3, <2>1 DEF CInv, TypesOK
  <2>3. rights' \in [Clients -> [Bytes -> 0..2]]
    <3>1. rights \in [Clients -> [Bytes -> 0..2]]
      BY Zenon DEF CInv, TypesOK
    <3>2. [b \in Bytes |-> 0] \in [Bytes -> 0..2]
      BY SMT
    <3> QED BY Zenon, <1>3, <3>1, <3>2
  <2> QED BY ZenonT(30), <1>2, <1>3, <2>2, <2>3, FlushedFacts DEF CInv, TypesOK
<1>9. \A d \in Clients : OpOK(d)'
  BY Zenon, <1>3, <1>5 DEF CInv, TypesOK, OpOK, Here
<1>10. \A d \in Clients, k \in Blocks : BlockOK(d, k)'
  BY <1>5 DEF CInv, BlockOK, Absent
<1>11. Exclusive'
  <2> SUFFICES ASSUME NEW x \in Clients, NEW y \in Clients, NEW b \in Bytes,
                      x # y, rights'[x][b] = 2
               PROVE  rights'[y][b] = 0
    BY Zenon DEF Exclusive
  <2>1. x # c
    BY <1>6
  <2>2. rights[x][b] = 2
    BY Zenon, <1>6, <2>1
  <2>3. rights[y][b] = 0
    BY Zenon, <2>2 DEF CInv, Exclusive
  <2> QED BY Zenon, <1>6, <2>3
<1>12. ServingOK'
  BY Zenon, <1>3, CoherenceAssumption DEF CInv, ServingOK
<1>13. DirtyOK'
  <2>1. \A d \in Clients, b \in Bytes : ~Leaving(d, b)
    BY <1>3 DEF CInv, ServingOK, Leaving
  <2>2. \A b \in Bytes : b \notin Copy(c, b)'.dirty
    BY Zenon, <1>7, <1>7a
  <2> SUFFICES ASSUME NEW d \in Clients, NEW b \in Bytes, b \notin spoiled,
                      b \in Copy(d, b)'.dirty
               PROVE  /\ b \in Copy(d, b)'.current /\ rights'[d][b] = 2
                      /\ \A x \in Clients \ {d} : rights'[x][b] = 0 /\ b \notin Copy(x, b)'.dirty
    BY Zenon, <1>3 DEF DirtyOK
  <2>3. d # c
    BY Zenon, <2>2
  <2>4. Copy(d, b)' = Copy(d, b) /\ rights'[d][b] = rights[d][b]
    BY Zenon, <1>6, <1>7, <2>3
  <2>5. /\ b \in Copy(d, b).current /\ rights[d][b] = 2
        /\ \A x \in Clients \ {d} : rights[x][b] = 0 /\ b \notin Copy(x, b).dirty
    BY Zenon, <2>1, <2>4 DEF CInv, DirtyOK
  <2>6. ASSUME NEW x \in Clients \ {d} PROVE rights'[x][b] = 0 /\ b \notin Copy(x, b)'.dirty
    <3>1. CASE x = c
      BY Zenon, <1>6, <2>2, <3>1
    <3>2. CASE x # c
      BY ZenonT(30), <1>6, <1>7, <2>5, <3>2
    <3> QED BY Zenon, <3>1, <3>2
  <2> QED BY ZenonT(30), <2>4, <2>5, <2>6
<1>14. CoveredOK'
  <2>1. \A b \in Bytes : b \notin Copy(c, b)'.covered
    BY Zenon, <1>7, <1>7a
  <2>2. op[c].covered = {}
    BY <1>3 DEF CInv, OpOK
  <2> SUFFICES ASSUME NEW d \in Clients, NEW b \in Bytes, b \notin spoiled
               PROVE  /\ b \in Copy(d, b)'.covered =>
                           b \in Copy(d, b)'.current /\ rights'[d][b] # 0
                      /\ b \in op[d].covered => b \in op[d].current /\ rights'[d][b] # 0
    BY Zenon, <1>3 DEF CoveredOK
  <2>3. CASE d = c
    BY Zenon, <2>1, <2>2, <2>3
  <2>4. CASE d # c
    <3>1. Copy(d, b)' = Copy(d, b) /\ rights'[d][b] = rights[d][b]
      BY Zenon, <1>6, <1>7, <2>4
    <3>2. /\ b \in Copy(d, b).covered => b \in Copy(d, b).current /\ rights[d][b] # 0
          /\ b \in op[d].covered => b \in op[d].current /\ rights[d][b] # 0
      BY Zenon DEF CInv, CoveredOK
    <3> QED BY Zenon, <3>1, <3>2
  <2> QED BY Zenon, <2>3, <2>4
<1>15. LastWriteKept'
  <2> SUFFICES ASSUME NEW b \in Bytes, b \notin spoiled, b \notin server'
               PROVE  \E d \in Clients : b \in Copy(d, b)'.dirty /\ b \in Copy(d, b)'.current
    BY <1>3 DEF LastWriteKept, Copy
  <2>1. b \notin server /\ ~(b \in Copy(c, b).dirty /\ BlockOf(b) \in K)
    BY Zenon, <1>2, <1>3, FlushedFacts
  <2>2. PICK d \in Clients : b \in Copy(d, b).dirty /\ b \in Copy(d, b).current
    BY Zenon, <2>1 DEF CInv, LastWriteKept, Copy
  <2>3. rights[d][b] = 2
    BY Zenon, <1>3, <2>2 DEF CInv, DirtyOK, ServingOK, Leaving
  <2>4. d # c
    BY <1>4, <2>1, <2>2, <2>3
  <2> QED BY Zenon, <1>7, <2>2, <2>4
<1> QED BY <1>8, <1>9, <1>10, <1>11, <1>12, <1>13, <1>14, <1>15 DEF CInv

-----------------------------------------------------------------------------
\* A client fetches the last value of every byte it has a token for.
LEMMA FetchPreserves ==
  ASSUME CInv, NEW c \in Clients, Fetch(c)
  PROVE  CInv'
<1>1. op[c].pc = "work" /\ Here(c) \in Blocks /\ ~cache[c][Here(c)].held
      /\ UNCHANGED <<rights, serving, victims, evicting, cache, server, spoiled>>
  BY HereFacts DEF Fetch
<1>2. PICK C \in SUBSET Bytes : C = server \intersect BytesOf(Here(c))
  BY Zenon DEF BytesOf
<1>3. PICK V \in SUBSET Bytes : V = {b \in BytesOf(Here(c)) : rights[c][b] # 0}
  BY Zenon DEF BytesOf
<1>4. PICK q : q = [op[c] EXCEPT !.pc = "fetched", !.current = C, !.covered = V]
  OBVIOUS
<1>5. op[c] \in OpRecord
  BY Values DEF CInv
<1>6. q \in OpRecord
  BY Zenon, <1>4, <1>5 DEF OpRecord
<1>7. /\ q.pc = "fetched" /\ q.current = C /\ q.covered = V
      /\ q.lo = op[c].lo /\ q.hi = op[c].hi /\ q.next = op[c].next
  BY <1>4, <1>5 DEF OpRecord
<1>8. op' = [op EXCEPT ![c] = q]
  BY Zenon, <1>2, <1>3, <1>4 DEF Fetch
<1>9. op'[c] = q /\ \A d \in Clients : d # c => op'[d] = op[d]
  BY Zenon, <1>8 DEF CInv, TypesOK
<1>10. serving # c /\ (serving \in Clients => op'[serving] = op[serving])
  BY Zenon, <1>1, <1>9 DEF CInv, ServingOK
<1>11. TypesOK'
  BY <1>1, <1>6, <1>8 DEF CInv, TypesOK
<1>12. \A d \in Clients : OpOK(d)'
  <2>1. OpOK(c)'
    BY Zenon, <1>1, <1>3, <1>7, <1>9 DEF CInv, OpOK, Here
  <2>2. \A d \in Clients : d # c => OpOK(d)'
    BY Zenon, <1>1, <1>9 DEF CInv, OpOK, Here
  <2> QED BY Zenon, <2>1, <2>2
<1>13. (\A d \in Clients, k \in Blocks : BlockOK(d, k)') /\ Exclusive' /\ LastWriteKept'
  <2>1. \A d \in Clients, k \in Blocks : BlockOK(d, k)'
    BY Zenon, <1>1 DEF CInv, BlockOK
  <2>2. Exclusive'
    BY Zenon, <1>1 DEF CInv, Exclusive
  <2>3. LastWriteKept'
    BY ZenonT(30), <1>1 DEF CInv, LastWriteKept
  <2> QED BY Zenon, <2>1, <2>2, <2>3
<1>14. ServingOK'
  <2>1. serving \in Clients =>
          /\ Wanted(serving)' = Wanted(serving)
          /\ \A d \in Clients, b \in Bytes : Conflict(serving, d, b)' = Conflict(serving, d, b)
    BY Zenon, <1>1, <1>10 DEF Wanted, Conflict
  <2>2. serving \in Clients => Wanted(serving) \subseteq Bytes
    BY Zenon, HereFacts DEF CInv, ServingOK
  <2>3. ServingOK
    BY Zenon DEF CInv
  <2> QED BY Zenon, <1>1, <1>10, <2>1, <2>2, <2>3, ServingKept
<1>15. DirtyOK'
  <2>1. \A d \in Clients, b \in Bytes : Leaving(d, b) => Leaving(d, b)'
    <3>1. \A d \in Clients : serving \notin Clients => evicting[d] = {}
      BY Zenon DEF CInv, TypesOK, ServingOK
    <3> QED BY <1>1, <1>10, <3>1 DEF Leaving, Wanted
  <2> QED BY ZenonT(30), <1>1, <2>1 DEF CInv, DirtyOK, Copy
<1>16. CoveredOK'
  <2>1. ASSUME NEW b \in V, b \notin spoiled PROVE b \in C
    <3>1. b \in Bytes /\ BlockOf(b) = Here(c) /\ rights[c][b] # 0
      BY Zenon, <1>3 DEF BytesOf
    <3>2. Copy(c, b).dirty = {}
      BY Zenon, <1>1, <3>1 DEF CInv, BlockOK, Copy
    <3>3. \A d \in Clients : b \notin Copy(d, b).dirty
      BY Zenon, <2>1, <3>1, <3>2 DEF CInv, DirtyOK
    <3>4. b \in server
      BY Zenon, <2>1, <3>1, <3>3 DEF CInv, LastWriteKept, Copy
    <3> QED BY <1>2, <3>1, <3>4 DEF BytesOf
  <2>2. \A b \in V : rights[c][b] # 0
    BY <1>3
  <2> QED BY Zenon, <1>1, <1>7, <1>9, <2>1, <2>2 DEF CInv, CoveredOK, Copy
<1> QED BY <1>11, <1>12, <1>13, <1>14, <1>15, <1>16 DEF CInv

\* A fetched block enters the cache with what is still covered of it.
LEMMA AddBlockPreserves ==
  ASSUME CInv, NEW c \in Clients, AddBlock(c)
  PROVE  CInv'
<1>1. op[c].pc = "fetched" /\ Here(c) \in Blocks /\ ~cache[c][Here(c)].held
      /\ op[c].covered \subseteq BytesOf(Here(c))
      /\ UNCHANGED <<rights, serving, victims, evicting, server, spoiled>>
  BY HereFacts DEF AddBlock, CInv, OpOK
<1>2. op[c] \in OpRecord
  BY Values DEF CInv
<1>3. PICK k \in Blocks : k = Here(c)
  BY <1>1
<1>4. PICK n : n = [held |-> TRUE, current |-> op[c].current, dirty |-> {},
                    covered |-> op[c].covered]
  BY Zenon
<1>5. n \in BlockRecord /\ n.held /\ n.dirty = {} /\ n.current = op[c].current
      /\ n.covered = op[c].covered
  BY <1>2, <1>4 DEF OpRecord, BlockRecord
<1>6. PICK q : q = IF op[c].write THEN [op[c] EXCEPT !.pc = "added", !.current = {}, !.covered = {}]
                   ELSE Advanced(c)
  BY Zenon
<1>7. /\ q \in OpRecord /\ q.covered = {} /\ q.pc # "fetched"
      /\ q.pc # "idle" => q.lo <= q.next /\ q.next < q.hi
  <2>1. CASE op[c].write
    <3>1. q = [op[c] EXCEPT !.pc = "added", !.current = {}, !.covered = {}]
      BY <1>6, <2>1
    <3>2. q \in OpRecord
      BY Zenon, <1>2, <3>1 DEF OpRecord
    <3>3. /\ q.pc = "added" /\ q.covered = {}
          /\ q.lo = op[c].lo /\ q.hi = op[c].hi /\ q.next = op[c].next
      BY ZenonT(30), <1>2, <3>1 DEF OpRecord
    <3> QED BY <1>1, <3>2, <3>3 DEF CInv, OpOK
  <2>2. CASE ~op[c].write
    <3>1. q = Advanced(c)
      BY <1>6, <2>2
    <3> QED BY <1>1, <3>1, AdvancedFacts
  <2> QED BY ZenonT(30), <2>1, <2>2
<1>8. op' = [op EXCEPT ![c] = q] /\ cache' = [cache EXCEPT ![c] = [cache[c] EXCEPT ![k] = n]]
  BY Zenon, <1>3, <1>4, <1>6 DEF AddBlock
<1>9. op'[c] = q /\ \A d \in Clients : d # c => op'[d] = op[d]
  BY <1>8 DEF CInv, TypesOK
<1>10. \A d \in Clients, i \in Blocks :
         cache'[d][i] = IF d = c /\ i = k THEN n ELSE cache[d][i]
  BY Zenon, <1>8 DEF CInv, TypesOK
<1>11. serving # c /\ (serving \in Clients => op'[serving] = op[serving])
  BY ZenonT(30), <1>1, <1>9 DEF CInv, ServingOK
<1>12. cache[c][k].dirty = {}
  BY <1>1, <1>3 DEF CInv, BlockOK
<1>13. \A d \in Clients, b \in Bytes :
         /\ Copy(d, b)'.dirty = Copy(d, b).dirty
         /\ Copy(d, b)' = IF d = c /\ BlockOf(b) = k THEN n ELSE Copy(d, b)
  BY ZenonT(30), <1>5, <1>10, <1>12, BlockFacts DEF Copy
<1>14. TypesOK'
  <2>1. cache' \in [Clients -> [Blocks -> BlockRecord]]
    BY <1>5, <1>8 DEF CInv, TypesOK
  <2> QED BY Zenon, <1>1, <1>7, <1>8, <2>1 DEF CInv, TypesOK
<1>15. \A d \in Clients : OpOK(d)'
  <2>1. OpOK(c)'
    BY ZenonT(30), <1>7, <1>9 DEF OpOK
  <2>2. \A d \in Clients : d # c => OpOK(d)'
    <3> SUFFICES ASSUME NEW d \in Clients, d # c PROVE OpOK(d)'
      OBVIOUS
    <3>1. op[d].pc = "fetched" => Here(d) \in Blocks
      BY Zenon, HereFacts
    <3> QED BY <1>9, <1>10, <3>1 DEF CInv, OpOK, Here
  <2> QED BY Zenon, <2>1, <2>2
<1>16. \A d \in Clients, i \in Blocks : BlockOK(d, i)'
  BY ZenonT(30), <1>1, <1>3, <1>5, <1>10 DEF CInv, BlockOK
<1>17. Exclusive'
  BY Zenon, <1>1 DEF CInv, Exclusive
<1>18. ServingOK'
  <2>1. serving \in Clients =>
          /\ Wanted(serving)' = Wanted(serving)
          /\ \A d \in Clients, b \in Bytes : Conflict(serving, d, b)' = Conflict(serving, d, b)
    BY Zenon, <1>1, <1>11 DEF Wanted, Conflict
  <2>2. serving \in Clients => Wanted(serving) \subseteq Bytes
    BY Zenon, HereFacts DEF CInv, ServingOK
  <2>3. ServingOK
    BY Zenon DEF CInv
  <2> QED BY Zenon, <1>1, <1>11, <2>1, <2>2, <2>3, ServingKept
<1>19. DirtyOK'
  <2>1. \A d \in Clients, b \in Bytes : Leaving(d, b) => Leaving(d, b)'
    <3>1. \A d \in Clients : serving \notin Clients => evicting[d] = {}
      BY DEF CInv, TypesOK, ServingOK
    <3> QED BY Zenon, <1>1, <1>11, <3>1 DEF Leaving, Wanted
  <2>2. \A d \in Clients, b \in Bytes : b \in Copy(d, b).dirty => Copy(d, b)' = Copy(d, b)
    BY Zenon, <1>3, <1>12, <1>13 DEF Copy
  <2>3. \A d \in Clients, b \in Bytes : b \in Copy(d, b)'.dirty => b \in Copy(d, b).dirty
    BY Zenon, <1>13
  <2> SUFFICES ASSUME NEW d \in Clients, NEW b \in Bytes, b \notin spoiled,
                      b \in Copy(d, b)'.dirty
               PROVE  /\ b \in Copy(d, b)'.current
                      /\ rights'[d][b] = 2 \/ Leaving(d, b)'
                      /\ \A x \in Clients \ {d} : rights'[x][b] = 0 /\ b \notin Copy(x, b)'.dirty
    BY Zenon, <1>1 DEF DirtyOK
  <2>4. b \in Copy(d, b).dirty /\ Copy(d, b)' = Copy(d, b)
    BY Zenon, <2>2, <2>3
  <2>5. /\ b \in Copy(d, b).current
        /\ rights[d][b] = 2 \/ Leaving(d, b)
        /\ \A x \in Clients \ {d} : rights[x][b] = 0 /\ b \notin Copy(x, b).dirty
    BY Zenon, <2>4 DEF CInv, DirtyOK
  <2> QED BY Zenon, <1>1, <2>1, <2>3, <2>4, <2>5
<1>20. CoveredOK'
  <2> SUFFICES ASSUME NEW d \in Clients, NEW b \in Bytes, b \notin spoiled
               PROVE  /\ b \in Copy(d, b)'.covered =>
                           b \in Copy(d, b)'.current /\ rights'[d][b] # 0
                      /\ b \in op'[d].covered => b \in op'[d].current /\ rights'[d][b] # 0
    BY Zenon, <1>1 DEF CoveredOK
  <2>1. /\ b \in Copy(d, b).covered => b \in Copy(d, b).current /\ rights[d][b] # 0
        /\ b \in op[d].covered => b \in op[d].current /\ rights[d][b] # 0
    BY Zenon DEF CInv, CoveredOK
  <2> QED BY Zenon, <1>1, <1>5, <1>7, <1>9, <1>13, <2>1
<1>21. LastWriteKept'
  <2>1. \A d \in Clients, b \in Bytes : b \in Copy(d, b).dirty => Copy(d, b)' = Copy(d, b)
    BY <1>12, <1>3, <1>13 DEF Copy
  <2> QED BY ZenonT(30), <1>1, <2>1 DEF CInv, LastWriteKept, Copy
<1> QED BY Zenon, <1>14, <1>15, <1>16, <1>17, <1>18, <1>19, <1>20, <1>21 DEF CInv

(***************************************************************************)
(* A write: a byte with a write token has no other token and no other      *)
(* dirty copy; a byte without one is spoiled.                              *)
(***************************************************************************)
LEMMA WriteHitPreserves ==
  ASSUME CInv, NEW c \in Clients, WriteHit(c)
  PROVE  CInv'
<1>1. PICK B \in SUBSET Bytes : B = Part(c)
  BY HereFacts DEF WriteHit
<1>2. PICK owned \in SUBSET Bytes : owned = {b \in B : rights[c][b] = 2}
  BY ZenonT(30)
<1>3. PICK h \in Blocks : h = Here(c)
  BY HereFacts DEF WriteHit
<1>4. /\ op[c].pc \in {"work", "added"} /\ cache[c][h].held
      /\ server' = server \ B /\ spoiled' = spoiled \union (B \ owned)
      /\ UNCHANGED <<rights, serving, victims, evicting>>
  BY <1>1, <1>2, <1>3 DEF WriteHit
<1>5. PICK q : q = Advanced(c)
  BY Zenon
<1>6. /\ q \in OpRecord /\ q.covered = {} /\ q.pc \in {"idle", "work"}
      /\ q.pc # "idle" => q.lo <= q.next /\ q.next < q.hi
  BY ZenonT(30), <1>4, <1>5, AdvancedFacts
<1>7. \A b \in B : BlockOf(b) = h
  BY <1>1, <1>3, <1>4, HereFacts
<1>8. PICK n : n = [held |-> TRUE, current |-> cache[c][h].current \union B,
                    dirty |-> cache[c][h].dirty \union B,
                    covered |-> cache[c][h].covered \union owned]
  BY Zenon
<1>9. cache' = [d \in Clients |-> [k \in Blocks |->
        IF d = c /\ k = h THEN n ELSE [cache[d][k] EXCEPT !.current = @ \ B]]]
  BY Zenon, <1>1, <1>2, <1>3, <1>8 DEF WriteHit
<1>10. op' = [d \in Clients |-> IF d = c THEN q ELSE [op[d] EXCEPT !.current = @ \ B]]
  BY Zenon, <1>1, <1>5 DEF WriteHit
<1>11. /\ n.held /\ n.current = cache[c][h].current \union B
       /\ n.dirty = cache[c][h].dirty \union B
       /\ n.covered = cache[c][h].covered \union owned
       /\ n \in BlockRecord
  <2>1. cache[c][h] \in BlockRecord
    BY Values DEF CInv
  <2> QED BY Zenon, <1>8, <2>1 DEF BlockRecord
<1>12. cache'[c][h] = n
  BY <1>9
<1>13. \A d \in Clients, k \in Blocks : ~(d = c /\ k = h) =>
         /\ cache'[d][k].held = cache[d][k].held /\ cache'[d][k].dirty = cache[d][k].dirty
         /\ cache'[d][k].covered = cache[d][k].covered
         /\ cache'[d][k].current = cache[d][k].current \ B
         /\ cache'[d][k] \in BlockRecord
  <2> SUFFICES ASSUME NEW d \in Clients, NEW k \in Blocks, ~(d = c /\ k = h)
               PROVE  /\ cache'[d][k].held = cache[d][k].held
                      /\ cache'[d][k].dirty = cache[d][k].dirty
                      /\ cache'[d][k].covered = cache[d][k].covered
                      /\ cache'[d][k].current = cache[d][k].current \ B
                      /\ cache'[d][k] \in BlockRecord
    BY ZenonT(30)
  <2>1. cache[d][k] \in BlockRecord
    BY Values DEF CInv
  <2>2. PICK C \in SUBSET Bytes : C = cache[d][k].current \ B
    BY Zenon, <2>1 DEF BlockRecord
  <2>3. cache'[d][k] = [cache[d][k] EXCEPT !.current = C]
    BY <1>9, <2>2
  <2>4. cache'[d][k] \in BlockRecord
    BY Zenon, <2>1, <2>3 DEF BlockRecord
  <2> QED BY ZenonT(30), <2>1, <2>2, <2>3, <2>4 DEF BlockRecord
<1>14. op'[c] = q
  BY <1>10
<1>15. \A d \in Clients : d # c =>
         /\ op'[d].pc = op[d].pc /\ op'[d].lo = op[d].lo /\ op'[d].hi = op[d].hi
         /\ op'[d].next = op[d].next /\ op'[d].covered = op[d].covered
         /\ op'[d].current = op[d].current \ B /\ op'[d].write = op[d].write
         /\ op'[d].whole = op[d].whole
         /\ op'[d] \in OpRecord
  <2> SUFFICES ASSUME NEW d \in Clients, d # c
               PROVE  /\ op'[d].pc = op[d].pc /\ op'[d].lo = op[d].lo /\ op'[d].hi = op[d].hi
                      /\ op'[d].next = op[d].next /\ op'[d].covered = op[d].covered
                      /\ op'[d].current = op[d].current \ B /\ op'[d].write = op[d].write
                      /\ op'[d].whole = op[d].whole
                      /\ op'[d] \in OpRecord
    BY ZenonT(30)
  <2>1. op[d] \in OpRecord
    BY Values DEF CInv
  <2>2. PICK C \in SUBSET Bytes : C = op[d].current \ B
    BY ZenonT(30), <2>1 DEF OpRecord
  <2>3. op'[d] = [op[d] EXCEPT !.current = C]
    BY <1>10, <2>2
  <2>4. op'[d] \in OpRecord
    BY Zenon, <2>1, <2>3 DEF OpRecord
  <2> QED BY ZenonT(30), <2>1, <2>2, <2>3, <2>4 DEF OpRecord
<1>16. serving # c
  BY <1>4 DEF CInv, ServingOK
<1>17. \A d \in Clients, b \in Bytes :
         /\ b \in Copy(d, b)'.dirty => b \in Copy(d, b).dirty \/ (d = c /\ b \in B)
         /\ b \in Copy(d, b)'.covered => b \in Copy(d, b).covered \/ (d = c /\ b \in owned)
         /\ b \in Copy(d, b).dirty => b \in Copy(d, b)'.dirty
         /\ b \notin B => (b \in Copy(d, b)'.current <=> b \in Copy(d, b).current)
  <2> SUFFICES ASSUME NEW d \in Clients, NEW b \in Bytes
               PROVE  /\ b \in Copy(d, b)'.dirty => b \in Copy(d, b).dirty \/ (d = c /\ b \in B)
                      /\ b \in Copy(d, b)'.covered =>
                           b \in Copy(d, b).covered \/ (d = c /\ b \in owned)
                      /\ b \in Copy(d, b).dirty => b \in Copy(d, b)'.dirty
                      /\ b \notin B => (b \in Copy(d, b)'.current <=> b \in Copy(d, b).current)
    BY Zenon
  <2>1. CASE d = c /\ BlockOf(b) = h
    BY Zenon, <1>11, <1>12, <2>1 DEF Copy
  <2>2. CASE ~(d = c /\ BlockOf(b) = h)
    BY ZenonT(30), <1>13, <2>2, BlockFacts DEF Copy
  <2> QED BY Zenon, <2>1, <2>2
<1>18. \A b \in B : b \in Copy(c, b)'.dirty /\ b \in Copy(c, b)'.current
  BY Zenon, <1>7, <1>11, <1>12 DEF Copy
<1>19. \A b \in owned : \A d \in Clients : d # c => rights[d][b] = 0
  BY Zenon, <1>2 DEF CInv, Exclusive
<1>20. \A b \in owned : \A d \in Clients : d # c /\ b \notin spoiled => b \notin Copy(d, b).dirty
  BY SMTT(30), <1>2 DEF CInv, DirtyOK
<1>21. TypesOK'
  <2>1. cache' \in [Clients -> [Blocks -> BlockRecord]]
    <3>1. \A d \in Clients, k \in Blocks : cache'[d][k] \in BlockRecord
      BY <1>11, <1>12, <1>13
    <3> QED BY Zenon, <1>9, <3>1
  <2>2. op' \in [Clients -> OpRecord]
    <3>1. \A d \in Clients : op'[d] \in OpRecord
      BY <1>6, <1>14, <1>15
    <3> QED BY Zenon, <1>10, <3>1
  <2> QED BY <1>4, <2>1, <2>2 DEF CInv, TypesOK
<1>22. \A d \in Clients : OpOK(d)'
  <2>1. OpOK(c)'
    BY ZenonT(30), <1>6, <1>14 DEF OpOK
  <2>2. \A d \in Clients : d # c => OpOK(d)'
    <3> SUFFICES ASSUME NEW d \in Clients, d # c PROVE OpOK(d)'
      BY Zenon
    <3>1. op[d].pc = "fetched" => Here(d) \in Blocks
      BY HereFacts
    <3>2. OpOK(d)
      BY DEF CInv
    <3> QED BY SMTT(30), <1>13, <1>15, <3>1, <3>2 DEF OpOK, Here
  <2> QED BY Zenon, <2>1, <2>2
<1>23. \A d \in Clients, k \in Blocks : BlockOK(d, k)'
  <2>1. B \subseteq BytesOf(h)
    BY Zenon, <1>7 DEF BytesOf
  <2>2. BlockOK(c, h)'
    BY Zenon, <1>2, <1>11, <1>12, <2>1 DEF CInv, BlockOK
  <2>3. \A d \in Clients, k \in Blocks : ~(d = c /\ k = h) => BlockOK(d, k)'
    <3> SUFFICES ASSUME NEW d \in Clients, NEW k \in Blocks, ~(d = c /\ k = h)
                 PROVE  BlockOK(d, k)'
      BY Zenon
    <3>1. /\ cache'[d][k].held = cache[d][k].held /\ cache'[d][k].dirty = cache[d][k].dirty
          /\ cache'[d][k].covered = cache[d][k].covered
      BY Zenon, <1>13
    <3>2. BlockOK(d, k)
      BY Zenon DEF CInv
    <3> QED BY ZenonT(30), <3>1, <3>2 DEF BlockOK
  <2> QED BY <2>2, <2>3
<1>24. Exclusive'
  BY Zenon, <1>4 DEF CInv, Exclusive
<1>25. serving \in Clients => Wanted(serving)' = Wanted(serving)
  BY Zenon, <1>4, <1>15, <1>16 DEF Wanted
<1>26. ServingOK'
  <2>1. serving \in Clients =>
          \A d \in Clients, b \in Bytes : Conflict(serving, d, b)' = Conflict(serving, d, b)
    BY <1>4, <1>15, <1>16 DEF Conflict
  <2>2. serving \in Clients => Wanted(serving) \subseteq Bytes
    BY Zenon, HereFacts DEF CInv, ServingOK
  <2>3. serving \in Clients => /\ op'[serving].pc = op[serving].pc
                               /\ op'[serving].whole = op[serving].whole
    BY Zenon, <1>15, <1>16
  <2>4. ServingOK
    BY Zenon DEF CInv
  <2> QED BY Zenon, <1>4, <1>25, <2>1, <2>2, <2>3, <2>4, ServingKept
<1>27. DirtyOK'
  <2> SUFFICES ASSUME NEW d \in Clients, NEW b \in Bytes, b \notin spoiled', b \in Copy(d, b)'.dirty
               PROVE  /\ b \in Copy(d, b)'.current
                      /\ rights'[d][b] = 2 \/ Leaving(d, b)'
                      /\ \A e \in Clients \ {d} : rights'[e][b] = 0 /\ b \notin Copy(e, b)'.dirty
    BY Zenon DEF DirtyOK
  <2>1. b \notin spoiled /\ (b \in B => b \in owned)
    BY Zenon, <1>4
  <2>2. CASE b \in B
    <3>1. d = c
      BY Zenon, <1>17, <1>20, <2>1, <2>2
    <3>2. rights'[c][b] = 2
      BY ZenonT(30), <1>2, <1>4, <2>1, <2>2
    <3>3. \A e \in Clients \ {c} : rights'[e][b] = 0 /\ b \notin Copy(e, b)'.dirty
      BY Zenon, <1>4, <1>17, <1>19, <1>20, <2>1, <2>2
    <3> QED BY Zenon, <1>18, <2>2, <3>1, <3>2, <3>3
  <2>3. CASE b \notin B
    <3>1. b \in Copy(d, b).dirty
      BY Zenon, <1>17, <2>3
    <3>2. /\ b \in Copy(d, b).current
          /\ rights[d][b] = 2 \/ Leaving(d, b)
          /\ \A e \in Clients \ {d} : rights[e][b] = 0 /\ b \notin Copy(e, b).dirty
      BY ZenonT(30), <2>1, <3>1 DEF CInv, DirtyOK
    <3>3. Leaving(d, b) => Leaving(d, b)'
      <4>1. serving \notin Clients => evicting[d] = {}
        BY ZenonT(30) DEF CInv, TypesOK, ServingOK
      <4> QED BY Zenon, <1>4, <1>25, <4>1 DEF Leaving
    <3> QED BY ZenonT(30), <1>4, <1>17, <2>3, <3>2, <3>3
  <2> QED BY Zenon, <2>2, <2>3
<1>28. CoveredOK'
  <2> SUFFICES ASSUME NEW d \in Clients, NEW b \in Bytes, b \notin spoiled'
               PROVE  /\ b \in Copy(d, b)'.covered =>
                           b \in Copy(d, b)'.current /\ rights'[d][b] # 0
                      /\ b \in op'[d].covered => b \in op'[d].current /\ rights'[d][b] # 0
    BY DEF CoveredOK
  <2>1. b \notin spoiled /\ (b \in B => b \in owned) /\ rights' = rights
    BY Zenon, <1>4
  <2>2. /\ b \in Copy(d, b).covered => b \in Copy(d, b).current /\ rights[d][b] # 0
        /\ b \in op[d].covered => b \in op[d].current /\ rights[d][b] # 0
    BY Zenon, <2>1 DEF CInv, CoveredOK
  <2>3. b \in Copy(d, b)'.covered => b \in Copy(d, b)'.current /\ rights'[d][b] # 0
    <3>1. CASE b \in B
      <4>1. rights[c][b] = 2
        BY Zenon, <1>2, <2>1, <3>1
      <4> QED BY SMTT(30), <1>17, <1>18, <1>19, <2>1, <2>2, <3>1, <4>1
    <3>2. CASE b \notin B
      BY Zenon, <1>2, <1>17, <2>1, <2>2, <3>2
    <3> QED BY Zenon, <3>1, <3>2
  <2>4. b \in op'[d].covered => b \in op'[d].current /\ rights'[d][b] # 0
    BY Zenon, <1>6, <1>14, <1>15, <1>19, <2>1, <2>2
  <2> QED BY Zenon, <2>3, <2>4
<1>29. LastWriteKept'
  <2> SUFFICES ASSUME NEW b \in Bytes, b \notin spoiled', b \notin server'
               PROVE  \E d \in Clients : b \in Copy(d, b)'.dirty /\ b \in Copy(d, b)'.current
    BY Zenon DEF LastWriteKept, Copy
  <2>1. CASE b \in B
    BY Zenon, <1>18, <2>1
  <2>2. CASE b \notin B
    <3>1. PICK d \in Clients : b \in Copy(d, b).dirty /\ b \in Copy(d, b).current
      BY <1>4, <2>2 DEF CInv, LastWriteKept, Copy
    <3> QED BY ZenonT(30), <1>17, <2>2, <3>1
  <2> QED BY Zenon, <2>1, <2>2
<1> QED BY ZenonT(30), <1>21, <1>22, <1>23, <1>24, <1>26, <1>27, <1>28, <1>29 DEF CInv

-----------------------------------------------------------------------------
\* Steps of others.
LEMMA StutterCInv ==
  ASSUME CInv, UNCHANGED coherenceVars
  PROVE  CInv'
<1> USE DEF coherenceVars
<1>1. TypesOK' /\ Exclusive' /\ LastWriteKept'
  BY ZenonT(30) DEF CInv, TypesOK, Exclusive, LastWriteKept
<1>2. (\A c \in Clients : OpOK(c)') /\ \A c \in Clients, k \in Blocks : BlockOK(c, k)'
  BY Zenon DEF CInv, OpOK, BlockOK, Here
<1>3. ServingOK'
  BY SMTT(30) DEF CInv, ServingOK, Wanted, Conflict
<1>4. DirtyOK' /\ CoveredOK'
  BY ZenonT(30) DEF CInv, DirtyOK, CoveredOK, Copy, Leaving, Wanted
<1> QED BY SMTT(30), <1>1, <1>2, <1>3, <1>4 DEF CInv

\* Every step keeps the invariant.
LEMMA NextCInv == CInv /\ [CoherenceNext]_coherenceVars => CInv'
<1> SUFFICES ASSUME CInv, [CoherenceNext]_coherenceVars PROVE CInv'
  OBVIOUS
<1>1. CASE UNCHANGED coherenceVars
  BY <1>1, StutterCInv
<1>2. CASE CoherenceNext
  <2> PICK c \in Clients :
        \/ Serve(c) \/ Grant(c) \/ Revoke(c) \/ EvictRevoked(c) \/ CloseFile(c)
        \/ ReadHit(c) \/ WriteHit(c) \/ Fetch(c) \/ AddBlock(c) \/ WriteDropped(c)
        \/ \E k \in Blocks : Harvest(c, k) \/ Flush(c, k)
        \/ \E r \in Ranges, write \in BOOLEAN : Start(c, r, write)
    BY Zenon, <1>2 DEF CoherenceNext
  <2>1. CASE Serve(c) \/ Grant(c) \/ Revoke(c) \/ EvictRevoked(c) \/ CloseFile(c)
    BY Zenon, <2>1, ServePreserves, GrantPreserves, RevokePreserves, EvictRevokedPreserves,
       CloseFilePreserves
  <2>2. CASE ReadHit(c) \/ WriteHit(c) \/ Fetch(c) \/ AddBlock(c) \/ WriteDropped(c)
    BY ZenonT(30), <2>2, ReadHitPreserves, WriteHitPreserves, FetchPreserves, AddBlockPreserves,
       WriteDroppedPreserves
  <2>3. CASE \E k \in Blocks : Harvest(c, k) \/ Flush(c, k)
    BY <2>3, HarvestPreserves, FlushPreserves
  <2>4. CASE \E r \in Ranges, write \in BOOLEAN : Start(c, r, write)
    BY <2>4, StartPreserves
  <2> QED BY SMTT(30), <2>1, <2>2, <2>3, <2>4
<1> QED BY <1>1, <1>2

(***************************************************************************)
(* However reads and writes, revocations, evictions, flushes and closes    *)
(* interleave, the last write of a byte is at the servers or in the cache  *)
(* that will write it back.                                                *)
(***************************************************************************)
THEOREM WritesKept == CoherenceSafety => []LastWriteKept
<1>1. CInv => LastWriteKept
  BY ZenonT(30) DEF CInv
<1> QED BY <1>1, InitCInv, NextCInv, PTL DEF CoherenceSafety

(***************************************************************************)
(* What a client cached under a token that it still has is up to date: the *)
(* token protocol and the evictions of revokePermission keep caches        *)
(* coherent wherever a token covers the cached bytes.                      *)
(***************************************************************************)
THEOREM CopiesCurrent == CoherenceSafety => []CoveredCopiesCurrent
<1>1. CInv => CoveredCopiesCurrent
  <2> SUFFICES ASSUME CInv, NEW c \in Clients, NEW k \in Blocks,
                      NEW b \in cache[c][k].covered, b \notin spoiled
               PROVE  b \in cache[c][k].current
    BY DEF CoveredCopiesCurrent
  <2>1. b \in Bytes /\ BlockOf(b) = k
    BY DEF CInv, BlockOK, BytesOf
  <2> QED BY <2>1 DEF CInv, CoveredOK, Copy
<1> QED BY <1>1, InitCInv, NextCInv, PTL DEF CoherenceSafety
=============================================================================
