-------------------------- MODULE PermissionVector --------------------------
(***************************************************************************)
(* One permission vector under an arbitrary history of grants and          *)
(* revocations, next to the reference it stands for: the mode of the token *)
(* held on every byte.  An acquisition follows acquirePermission: nothing  *)
(* happens when hasPermission already answers yes; otherwise the manager   *)
(* grants the requested range, or the whole file, and addPermission        *)
(* records it.                                                             *)
(***************************************************************************)
EXTENDS Permissions

CONSTANTS
  MaxOffset,  \* the end of the whole-file token, INT_MAX in the code
  MinLength,  \* the shortest request: 0 allows reads and writes of no byte
  MaxEntries  \* bound on the length of the vectors explored

ASSUME MaxOffsetAssumption == MaxOffset \in Nat /\ MinLength \in Nat

VARIABLES
  perms,  \* the vector
  ref     \* ref[b]: 0 no token, 1 read token, 2 write token on byte b

vars == <<perms, ref>>

Bytes == 0..(MaxOffset - 1)

\* The requests [start, end) that a read or write of the file can make.
Ranges == {r \in (0..MaxOffset) \X (0..MaxOffset) : r[1] + MinLength <= r[2]}

Init == /\ perms = <<>>
        /\ ref = [b \in Bytes |-> 0]

\* A byte in the granted range gets at least the granted mode.
Granted(start, end, write) ==
  [b \in Bytes |-> IF start <= b /\ b < end
                   THEN Max({ref[b], IF write THEN 2 ELSE 1}) ELSE ref[b]]

Grant(start, end, write) ==
  /\ Len(perms) < MaxEntries
  /\ perms' = AddPermission(perms, start, end, write, FALSE)
  /\ ref' = Granted(start, end, write)

AcquireRange(r, write) ==
  /\ ~HasPermission(perms, r[1], r[2], write)
  /\ Grant(r[1], r[2], write)

AcquireWholeFile(r, write) ==
  /\ ~HasPermission(perms, r[1], r[2], write)
  /\ Grant(0, MaxOffset, write)

Revoke(r) ==
  /\ perms' = RevokePermission(perms, r[1], r[2])
  /\ ref' = [b \in Bytes |-> IF r[1] <= b /\ b < r[2] THEN 0 ELSE ref[b]]

Next ==
  \E r \in Ranges :
    \/ \E write \in BOOLEAN : AcquireRange(r, write)
    \/ \E write \in BOOLEAN : AcquireWholeFile(r, write)
    \/ Revoke(r)

Spec == Init /\ [][Next]_vars

-----------------------------------------------------------------------------
\* The vector holds well-formed permissions, the reference modes.
TypeOK == /\ perms \in Seq(Permission)
          /\ ref \in [Bytes -> 0..2]

(***************************************************************************)
(* No history of addPermission and revokePermission calls leaves a byte in *)
(* the vector with a stronger token than was granted and not yet revoked.  *)
(***************************************************************************)
VectorSound == \A b \in Bytes : Mode(perms, b) <= ref[b]

(***************************************************************************)
(* hasPermission answers yes only when every byte of the range is really   *)
(* covered, for writing if it was asked for writing.                       *)
(***************************************************************************)
HasPermissionSound ==
  \A r \in Ranges : \A write \in BOOLEAN :
    HasPermission(perms, r[1], r[2], write)
      => \A b \in r[1]..(r[2] - 1) : Allows(perms, b, write)

(***************************************************************************)
(* After addPermission the vector covers every byte of the grant in its    *)
(* mode, whatever tokens it merged, split or kept on the way.              *)
(***************************************************************************)
GrantCovers ==
  \A r \in Ranges : \A write \in BOOLEAN :
    LET new == AddPermission(perms, r[1], r[2], write, FALSE)
    IN \A b \in r[1]..(r[2] - 1) : Allows(new, b, write)

(***************************************************************************)
(* revokePermission leaves no entry that overlaps the revoked range.       *)
(***************************************************************************)
RevokeClears ==
  \A r \in Ranges :
    LET new == RevokePermission(perms, r[1], r[2])
    IN \A i \in 1..Len(new) : ~IsShared(new[i], r[1], r[2])

(***************************************************************************)
(* addPermission keeps every token it merges, splits or steps over, as     *)
(* long as the vector is in order before and after it.                     *)
(***************************************************************************)
GrantKeepsTokens ==
  \A r \in Ranges : \A write \in BOOLEAN :
    LET new == AddPermission(perms, r[1], r[2], write, FALSE)
    IN Ordered(perms) /\ Ordered(new) => \A b \in Bytes : Mode(new, b) >= Mode(perms, b)

(***************************************************************************)
(* revokePermission takes nothing outside the revoked range from a vector  *)
(* that is in order, and leaves it in order.                               *)
(***************************************************************************)
RevokeKeepsRest ==
  Ordered(perms) =>
    \A r \in Ranges :
      LET new == RevokePermission(perms, r[1], r[2])
      IN /\ Ordered(new)
         /\ \A b \in Bytes : ~(r[1] <= b /\ b < r[2]) => Mode(new, b) = Mode(perms, b)
=============================================================================
