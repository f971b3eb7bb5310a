---------------------------- MODULE Permissions ----------------------------
(***************************************************************************)
(* Permission vectors: the byte-range tokens one node holds on one file.   *)
(*                                                                         *)
(* A token is a half-open range [start, end) of bytes with a mode, read or *)
(* write.  The metadata manager keeps one vector per client that opened    *)
(* the file (MMFile::clientPermissions) and each client keeps its own      *)
(* (ClientFile::permissions); both are edited by the same three functions  *)
(* of File, translated here as operators on sequences: hasPermission,      *)
(* addPermission and revokePermission.  Vector indices start at 1.         *)
(***************************************************************************)
EXTENDS Sequences, FiniteSetsExt

(***************************************************************************)
(* The semaphores in a permission's waitingSemaphores: "live" is the       *)
(* semaphore of the revocation in progress, "stale" the (already dead)     *)
(* semaphore of an earlier one, which is never removed from the vector.    *)
(***************************************************************************)
Semaphores == {"live", "stale"}

Permission ==
  [start : Nat, end : Nat, write : BOOLEAN,
   locked : BOOLEAN, waiters : SUBSET Semaphores]

\* The constructor: a fresh permission is unlocked and nobody waits for it.
NewPermission(start, end, write) ==
  [start |-> start, end |-> end, write |-> write,
   locked |-> FALSE, waiters |-> {}]

\* Mutant: the lock flag is never set.
MutNoLock(lockNew, permit) == permit

\* Permission::lock, for the thread that gets the lock.
LockIf(lockNew, permit) ==
  [permit EXCEPT !.locked = permit.locked \/ lockNew]

IsShared(permit, s, e) == e > permit.start /\ s < permit.end

IsInclusiveShared(permit, s, e) == e >= permit.start /\ s <= permit.end

\* The bytes of a permission, and what a vector allows on one byte.
Covers(permit, b) == permit.start <= b /\ b < permit.end

Allows(perms, b, write) ==
  \E i \in 1..Len(perms) : Covers(perms[i], b) /\ (write => perms[i].write)

\* The mode of the token on a byte: 0 none, 1 read, 2 write.
Mode(perms, b) ==
  IF Allows(perms, b, TRUE) THEN 2 ELSE IF Allows(perms, b, FALSE) THEN 1 ELSE 0

\* No entry is empty, and each one ends before the next one starts.
Ordered(perms) ==
  /\ \A i \in 1..Len(perms) : perms[i].start < perms[i].end
  /\ \A i \in 1..(Len(perms) - 1) : perms[i].end <= perms[i + 1].start

-----------------------------------------------------------------------------
\* Mutant: gaps between the entries go unnoticed.
MutIgnoreGaps(perms, start, end, write) ==
  LET before == {i \in 1..Len(perms) : perms[i].start <= start}
      after == {i \in 1..Len(perms) : perms[i].end >= end}
  IN \E i \in before, j \in after :
       i <= j /\ (write => \A k \in i..j : perms[k].write)

(***************************************************************************)
(* File::hasPermission.  s is the entry before the first one that starts   *)
(* after start, e the first one from s on that reaches end (the last entry *)
(* when there is none); the entries s..e must be one gapless chain.        *)
(***************************************************************************)
HasPermission(perms, start, end, write) ==
  LET n == Len(perms)
      later == {i \in 1..n : perms[i].start > start}
      s == IF later = {} THEN n ELSE Min(later) - 1
      reaching == {i \in s..n : perms[i].end >= end}
      e == IF reaching = {} THEN n ELSE Min(reaching)
  IN /\ n # 0
     /\ s # 0
     /\ perms[s].start <= start
     /\ perms[e].end >= end
     /\ write => \A i \in s..e : perms[i].write
     /\ \A i \in s..(e - 1) : perms[i].end = perms[i + 1].start

-----------------------------------------------------------------------------
\* The vector with entries s..e replaced by the sequence mid.
Splice(perms, s, e, mid) ==
  SubSeq(perms, 1, s - 1) \o mid \o SubSeq(perms, e + 1, Len(perms))

\* The first entry that overlaps or touches the range, 0 when there is none.
FirstTouching(perms, start, end) ==
  LET touching == {i \in 1..Len(perms) : IsInclusiveShared(perms[i], start, end)}
  IN IF touching = {} THEN 0 ELSE Min(touching)

(***************************************************************************)
(* The end of the run of touching entries as the loop computes it: the     *)
(* entry before the first one that does not touch, but s itself when the   *)
(* run reaches the end of the vector.                                      *)
(***************************************************************************)
RunEnd(perms, s, start, end) ==
  LET apart == {i \in (s + 1)..Len(perms) : ~IsInclusiveShared(perms[i], start, end)}
  IN IF apart = {} THEN s ELSE Min(apart) - 1

\* Mutant: the new token starts one byte early.
MutStartEarly(perms, start, end, write, lockNew) ==
  Append(perms, NewPermission(start - 1, end, write))

\* No entry touches the range: insert behind the last entry that ends before it.
AddApart(perms, start, end, write, lockNew) ==
  LET before == {i \in 1..Len(perms) : perms[i].end < start}
      at == IF before = {} THEN 0 ELSE Max(before)
  IN Splice(perms, at + 1, at,
            <<LockIf(lockNew, NewPermission(start, end, write))>>)

\* Mutant: a write token also absorbs read tokens at the ends of the run.
MutAbsorbReads(perms, s, e, start, end, lockNew) ==
  Splice(perms, s, e,
         <<LockIf(lockNew, NewPermission(Min({perms[s].start, start}),
                                         Max({perms[e].end, end}), TRUE))>>)

\* Mutant: what a write token cuts off a read token is lost.
MutNoRemainders(perms, s, e, start, end, lockNew) ==
  LET newStart == IF perms[s].write THEN Min({perms[s].start, start}) ELSE start
      newEnd   == IF perms[e].write THEN Max({perms[e].end, end}) ELSE end
  IN Splice(perms, s, e, <<LockIf(lockNew, NewPermission(newStart, newEnd, TRUE))>>)

(***************************************************************************)
(* A write token replaces the run s..e.  It absorbs write tokens at both   *)
(* ends of the run and leaves read remainders; the end of the right-hand   *)
(* remainder is taken from entry s, as in the code.                        *)
(***************************************************************************)
AddWrite(perms, s, e, start, end, lockNew) ==
  LET first == perms[s]
      last  == perms[e]
      newStart == IF first.write THEN Min({first.start, start}) ELSE start
      newEnd   == IF last.write THEN Max({last.end, end}) ELSE end
      sPermit == IF ~first.write /\ first.start < start
                 THEN <<NewPermission(first.start, start, FALSE)>> ELSE <<>>
      ePermit == IF ~last.write /\ last.end > end
                 THEN <<NewPermission(end, first.end, FALSE)>> ELSE <<>>
      permit  == LockIf(lockNew, NewPermission(newStart, newEnd, TRUE))
  IN Splice(perms, s, e, sPermit \o <<permit>> \o ePermit)

\* Mutant: only the kept write tokens, no read tokens around them.
MutDropGaps(W, newStart, newEnd, lockNew) ==
  [i \in 1..Len(W) |-> LockIf(lockNew, W[i])]

\* The elements of a finite set of integers in ascending order.
Ascending(S) ==
  CHOOSE f \in [1..Cardinality(S) -> S] :
    \A i, j \in 1..Cardinality(S) : i < j => f[i] < f[j]

\* The write tokens among entries s..e, in vector order.
WritePermits(perms, s, e) ==
  LET indices == Ascending({i \in s..e : perms[i].write})
  IN [k \in 1..Cardinality({i \in s..e : perms[i].write}) |-> perms[indices[k]]]

(***************************************************************************)
(* Read tokens laid around the write tokens W, which are kept: W[1], the   *)
(* gap up to W[2], W[2], ..., W[k] and, unless newEnd lies within W[k],    *)
(* the rest up to newEnd; in front of W[1] what is left from newStart.     *)
(* Every permission in the result is locked, the kept write tokens too.    *)
(***************************************************************************)
Interleaved(W, newStart, newEnd, lockNew) ==
  LET k == Len(W)
      inside == W[k].start <= newEnd /\ newEnd <= W[k].end
      lead == IF newStart < W[1].start
              THEN <<LockIf(lockNew, NewPermission(newStart, W[1].start, FALSE))>>
              ELSE <<>>
      gapEnd(j) == IF j = k THEN newEnd ELSE W[j + 1].start
  IN lead \o [i \in 1..(IF inside THEN 2 * k - 1 ELSE 2 * k) |->
                LockIf(lockNew,
                       IF i % 2 = 1 THEN W[(i + 1) \div 2]
                       ELSE NewPermission(W[i \div 2].end, gapEnd(i \div 2), FALSE))]

\* A read token replaces the read tokens of the run s..e and keeps its writes.
AddRead(perms, s, e, start, end, lockNew) ==
  LET first == perms[s]
      last  == perms[e]
      newStart == IF ~first.write /\ first.start < start THEN first.start ELSE start
      newEnd   == IF ~last.write /\ last.end > end THEN last.end ELSE end
      W == WritePermits(perms, s, e)
  IN Splice(perms, s, e,
            IF W = <<>>
            THEN <<LockIf(lockNew, NewPermission(newStart, newEnd, FALSE))>>
            ELSE Interleaved(W, newStart, newEnd, lockNew))

\* File::addPermission.
AddPermission(perms, start, end, write, lockNew) ==
  LET s == FirstTouching(perms, start, end)
      e == RunEnd(perms, s, start, end)
  IN IF s = 0 THEN AddApart(perms, start, end, write, lockNew)
     ELSE IF write THEN AddWrite(perms, s, e, start, end, lockNew)
     ELSE AddRead(perms, s, e, start, end, lockNew)

-----------------------------------------------------------------------------
\* Mutant: only the first overlapping entry is cut.
MutRevokeFirst(perms, start, end) ==
  LET shared == {i \in 1..Len(perms) : IsShared(perms[i], start, end)}
      permit == perms[Min(shared)]
      before == IF permit.start < start
                THEN <<NewPermission(permit.start, start, permit.write)>> ELSE <<>>
      after  == IF end < permit.end
                THEN <<NewPermission(end, permit.end, permit.write)>> ELSE <<>>
  IN IF shared = {} THEN perms ELSE Splice(perms, Min(shared), Min(shared), before \o after)

\* Mutant: entries that overlap are erased whole.
MutRevokeWhole(perms, start, end) ==
  LET shared == {i \in 1..Len(perms) : IsShared(perms[i], start, end)}
  IN IF shared = {} THEN perms ELSE Splice(perms, Min(shared), Max(shared), <<>>)

(***************************************************************************)
(* The editing part of File::revokePermission.  A single overlapping entry *)
(* is replaced by fresh remainders; of several, the first and the last are *)
(* trimmed in place (they keep lock and waiters) and the others erased.    *)
(***************************************************************************)
RevokePermission(perms, start, end) ==
  LET shared == {i \in 1..Len(perms) : IsShared(perms[i], start, end)}
      s == Min(shared)
      e == Max(shared)
      left  == IF s = e THEN NewPermission(perms[s].start, start, perms[s].write)
               ELSE [perms[s] EXCEPT !.end = start]
      right == IF s = e THEN NewPermission(end, perms[e].end, perms[e].write)
               ELSE [perms[e] EXCEPT !.start = end]
      before == IF perms[s].start < start THEN <<left>> ELSE <<>>
      after  == IF end < perms[e].end THEN <<right>> ELSE <<>>
  IN IF shared = {} THEN perms ELSE Splice(perms, s, e, before \o after)
=============================================================================
