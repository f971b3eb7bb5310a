---------------------- MODULE PermissionVector_proofs ----------------------
(***************************************************************************)
(* The soundness of a permission vector under every history of grants and  *)
(* revocations, for every file size: the invariants of PermissionVector    *)
(* that hold, proved from the theorems about the three vector operations.  *)
(***************************************************************************)
EXTENDS PermissionVector, Permissions_proofs

\* VectorSound, one implication per mode.
Bounded(permits, r) ==
  \A b \in Bytes : /\ Allows(permits, b, TRUE) => r[b] = 2
                   /\ Allows(permits, b, FALSE) => r[b] >= 1

\* The offsets of the file are natural numbers.
LEMMA BytesAreNaturals == Bytes \subseteq Nat /\ MaxOffset \in Nat
BY MaxOffsetAssumption DEF Bytes

\* So are the ends of a request.
LEMMA RangesAreNaturals ==
  ASSUME NEW r \in Ranges
  PROVE  r[1] \in Nat /\ r[2] \in Nat
BY MaxOffsetAssumption DEF Ranges

\* A write token also allows reading.
LEMMA WriteAllowsRead ==
  ASSUME NEW permits, NEW b, Allows(permits, b, TRUE)
  PROVE  Allows(permits, b, FALSE)
BY DEF Allows

\* Soundness in terms of what the vector allows instead of modes.
LEMMA SoundIsBounded ==
  ASSUME TypeOK
  PROVE  VectorSound <=> Bounded(perms, ref)
<1>1. ASSUME NEW b \in Bytes
      PROVE  Mode(perms, b) <= ref[b] <=>
               /\ Allows(perms, b, TRUE) => ref[b] = 2
               /\ Allows(perms, b, FALSE) => ref[b] >= 1
  <2>1. ref[b] \in 0..2
    BY DEF TypeOK
  <2>2. CASE Allows(perms, b, TRUE)
    <3>1. Mode(perms, b) = 2 /\ Allows(perms, b, FALSE)
      BY Zenon, <2>2, WriteAllowsRead DEF Mode
    <3> QED BY <2>1, <2>2, <3>1
  <2>3. CASE ~Allows(perms, b, TRUE) /\ Allows(perms, b, FALSE)
    <3>1. Mode(perms, b) = 1
      BY <2>3 DEF Mode
    <3> QED BY Zenon, <2>1, <2>3, <3>1
  <2>4. CASE ~Allows(perms, b, TRUE) /\ ~Allows(perms, b, FALSE)
    <3>1. Mode(perms, b) = 0
      BY <2>4 DEF Mode
    <3>2. Mode(perms, b) <= ref[b]
      BY <2>1, <3>1
    <3> QED BY Zenon, <2>4, <3>2
  <2> QED BY Zenon, <2>2, <2>3, <2>4
<1> QED BY Zenon, <1>1 DEF VectorSound, Bounded

\* The reference after a grant.
LEMMA GrantedReference ==
  ASSUME TypeOK, NEW start \in Nat, NEW end \in Nat, NEW write \in BOOLEAN
  PROVE  LET new == Granted(start, end, write)
         IN /\ new \in [Bytes -> 0..2]
            /\ \A b \in Bytes :
                 /\ ref[b] <= new[b]
                 /\ start <= b /\ b < end => new[b] >= 1 /\ (write => new[b] = 2)
<1> DEFINE new == Granted(start, end, write)
<1>1. ASSUME NEW b \in Bytes
      PROVE  /\ new[b] \in 0..2 /\ ref[b] <= new[b]
             /\ start <= b /\ b < end => new[b] >= 1 /\ (write => new[b] = 2)
  <2> DEFINE g == IF write THEN 2 ELSE 1
  <2>1. ref[b] \in Nat /\ ref[b] \in 0..2 /\ b \in Nat
    BY BytesAreNaturals DEF TypeOK
  <2>2. g \in Nat /\ g \in 1..2 /\ (write => g = 2)
    OBVIOUS
  <2>3. new[b] = IF start <= b /\ b < end THEN Max({ref[b], g}) ELSE ref[b]
    BY DEF Granted
  <2> HIDE DEF g, new
  <2>4. /\ Max({ref[b], g}) \in {ref[b], g}
        /\ ref[b] <= Max({ref[b], g}) /\ g <= Max({ref[b], g})
    BY <2>1, <2>2, PairMax
  <2>5. CASE start <= b /\ b < end
    <3>1. new[b] = Max({ref[b], g})
      BY <2>3, <2>5
    <3>2. new[b] \in 0..2 /\ ref[b] <= new[b] /\ g <= new[b]
      BY <2>1, <2>2, <2>4, <3>1
    <3> QED BY <2>2, <3>2
  <2>6. CASE ~(start <= b /\ b < end)
    BY <2>1, <2>3, <2>6
  <2> QED BY <2>5, <2>6
<1>2. new = [b \in Bytes |-> new[b]]
  BY DEF Granted
<1> QED BY <1>1, <1>2

\* A grant keeps the vector sound.
LEMMA GrantPreserves ==
  ASSUME TypeOK, Bounded(perms, ref),
         NEW start \in Nat, NEW end \in Nat, NEW write \in BOOLEAN,
         Grant(start, end, write)
  PROVE  TypeOK' /\ Bounded(perms', ref')
<1>1. /\ perms' \in Seq(Permission)
      /\ AddedTo(perms', perms, start, end, write)
  BY Zenon, AddProperties DEF Grant, TypeOK
<1>2. /\ ref' \in [Bytes -> 0..2]
      /\ \A b \in Bytes :
           /\ ref[b] <= ref'[b]
           /\ start <= b /\ b < end => ref'[b] >= 1 /\ (write => ref'[b] = 2)
  BY GrantedReference DEF Grant
<1>3. ASSUME NEW b \in Bytes, NEW w \in BOOLEAN, Allows(perms', b, w)
      PROVE  Explained(perms, b, w, start, end, write)
  BY <1>1, <1>3, BytesAreNaturals DEF AddedTo
<1>4. ASSUME NEW b \in Bytes
      PROVE  /\ Allows(perms', b, TRUE) => ref'[b] = 2
             /\ Allows(perms', b, FALSE) => ref'[b] >= 1
  <2>1. ref[b] \in 0..2 /\ ref'[b] \in 0..2 /\ ref[b] <= ref'[b]
    BY <1>2 DEF TypeOK
  <2>2. ASSUME Allows(perms', b, TRUE) PROVE ref'[b] = 2
    <3>1. Explained(perms, b, TRUE, start, end, write)
      BY Zenon, <1>3, <2>2
    <3>2. CASE Allows(perms, b, TRUE)
      <4>1. ref[b] = 2
        BY Zenon, <3>2 DEF Bounded
      <4> QED BY <2>1, <4>1
    <3>3. CASE start <= b /\ b < end /\ write
      BY <1>2, <3>3
    <3> QED BY Zenon, <3>1, <3>2, <3>3 DEF Explained
  <2>3. ASSUME Allows(perms', b, FALSE) PROVE ref'[b] >= 1
    <3>1. Explained(perms, b, FALSE, start, end, write)
      BY Zenon, <1>3, <2>3
    <3>2. CASE Allows(perms, b, FALSE)
      <4>1. ref[b] >= 1
        BY Zenon, <3>2 DEF Bounded
      <4> QED BY <2>1, <4>1
    <3>3. CASE start <= b /\ b < end
      BY <1>2, <3>3
    <3> QED BY Zenon, <3>1, <3>2, <3>3 DEF Explained
  <2> QED BY Zenon, <2>2, <2>3
<1> QED BY Zenon, <1>1, <1>2, <1>4 DEF TypeOK, Bounded

\* A revocation keeps the vector sound.
LEMMA RevokePreserves ==
  ASSUME TypeOK, Bounded(perms, ref), NEW r \in Ranges, Revoke(r)
  PROVE  TypeOK' /\ Bounded(perms', ref')
<1>0. r[1] \in Nat /\ r[2] \in Nat
  BY RangesAreNaturals
<1>1. perms' \in Seq(Permission) /\ RevokedFrom(perms', perms, r[1], r[2])
  BY Zenon, <1>0, RevokeAllows DEF Revoke, TypeOK
<1>2. /\ ref' \in [Bytes -> 0..2]
      /\ \A b \in Bytes : ~(r[1] <= b /\ b < r[2]) => ref'[b] = ref[b]
  BY DEF Revoke, TypeOK
<1>3. ASSUME NEW b \in Bytes, NEW w \in BOOLEAN, Allows(perms', b, w)
      PROVE  Allows(perms, b, w) /\ ref'[b] = ref[b]
  BY <1>1, <1>2, <1>3, BytesAreNaturals DEF RevokedFrom
<1>4. ASSUME NEW b \in Bytes
      PROVE  /\ Allows(perms', b, TRUE) => ref'[b] = 2
             /\ Allows(perms', b, FALSE) => ref'[b] >= 1
  <2>1. ASSUME Allows(perms', b, TRUE) PROVE ref'[b] = 2
    <3>1. Allows(perms, b, TRUE) /\ ref'[b] = ref[b]
      BY Zenon, <1>3, <2>1
    <3> QED BY Zenon, <3>1 DEF Bounded
  <2>2. ASSUME Allows(perms', b, FALSE) PROVE ref'[b] >= 1
    <3>1. Allows(perms, b, FALSE) /\ ref'[b] = ref[b]
      BY Zenon, <1>3, <2>2
    <3> QED BY Zenon, <3>1 DEF Bounded
  <2> QED BY Zenon, <2>1, <2>2
<1> QED BY Zenon, <1>1, <1>2, <1>4 DEF TypeOK, Bounded

\* The inductive invariant.
IInv == TypeOK /\ Bounded(perms, ref)

\* The invariant holds in every reachable state.
LEMMA Inductive == Spec => []IInv
<1>1. Init => IInv
  <2> SUFFICES ASSUME Init PROVE IInv
    OBVIOUS
  <2>1. perms \in Seq(Permission) /\ Len(perms) = 0
    BY DEF Init
  <2>2. ref \in [Bytes -> 0..2]
    BY DEF Init
  <2>3. \A b, w : ~Allows(perms, b, w)
    BY <2>1 DEF Allows
  <2> QED BY Zenon, <2>1, <2>2, <2>3 DEF IInv, TypeOK, Bounded
<1>2. IInv /\ [Next]_vars => IInv'
  <2> SUFFICES ASSUME IInv, [Next]_vars PROVE IInv'
    OBVIOUS
  <2>1. CASE UNCHANGED vars
    BY Zenon, <2>1 DEF IInv, TypeOK, Bounded, vars
  <2>2. ASSUME NEW r \in Ranges, NEW write \in BOOLEAN, AcquireRange(r, write)
        PROVE  IInv'
    BY <2>2, RangesAreNaturals, GrantPreserves DEF IInv, AcquireRange
  <2>3. ASSUME NEW r \in Ranges, NEW write \in BOOLEAN, AcquireWholeFile(r, write)
        PROVE  IInv'
    BY <2>3, BytesAreNaturals, GrantPreserves DEF IInv, AcquireWholeFile
  <2>4. ASSUME NEW r \in Ranges, Revoke(r)
        PROVE  IInv'
    BY <2>4, RevokePreserves DEF IInv
  <2> QED BY <2>1, <2>2, <2>3, <2>4 DEF Next
<1> QED BY <1>1, <1>2, PTL DEF Spec

\* Every reachable vector is a sequence of well-formed permissions.
THEOREM TypeCorrect == Spec => []TypeOK
<1>1. IInv => TypeOK
  BY DEF IInv
<1> QED BY <1>1, Inductive, PTL

(***************************************************************************)
(* For every file size and every history, the vector never allows more     *)
(* than was granted and not revoked.                                       *)
(***************************************************************************)
THEOREM VectorIsSound == Spec => []VectorSound
<1>1. IInv => VectorSound
  BY SoundIsBounded DEF IInv
<1> QED BY <1>1, Inductive, PTL

\* In every reachable vector a yes of hasPermission is justified.
THEOREM HasPermissionIsSound == Spec => []HasPermissionSound
<1>1. TypeOK => HasPermissionSound
  <2> SUFFICES ASSUME TypeOK, NEW r \in Ranges, NEW write \in BOOLEAN,
                      HasPermission(perms, r[1], r[2], write),
                      NEW b \in r[1]..(r[2] - 1)
               PROVE  Allows(perms, b, write)
    BY DEF HasPermissionSound
  <2>1. r[1] \in Nat /\ r[2] \in Nat
    BY RangesAreNaturals
  <2>2. AllowsRange(perms, r[1], r[2], write)
    BY <2>1, HasPermissionAllows DEF TypeOK
  <2>3. b \in Nat /\ r[1] <= b /\ b < r[2]
    BY <2>1
  <2> QED BY <2>2, <2>3 DEF AllowsRange
<1> QED BY <1>1, TypeCorrect, PTL

\* In every reachable state addPermission records all of a grant.
THEOREM GrantsCover == Spec => []GrantCovers
<1>1. TypeOK => GrantCovers
  <2> SUFFICES ASSUME TypeOK, NEW r \in Ranges, NEW write \in BOOLEAN,
                      NEW b \in r[1]..(r[2] - 1)
               PROVE  Allows(AddPermission(perms, r[1], r[2], write, FALSE), b, write)
    BY Zenon DEF GrantCovers
  <2> DEFINE new == AddPermission(perms, r[1], r[2], write, FALSE)
  <2>1. r[1] \in Nat /\ r[2] \in Nat /\ FALSE \in BOOLEAN
    BY RangesAreNaturals
  <2>2. AddedTo(new, perms, r[1], r[2], write)
    BY Zenon, <2>1, AddProperties DEF TypeOK
  <2>3. b \in Nat /\ r[1] <= b /\ b < r[2]
    BY <2>1
  <2> QED BY Zenon, <2>2, <2>3 DEF AddedTo, AllowsRange
<1> QED BY <1>1, TypeCorrect, PTL

\* In every reachable state revokePermission leaves nothing of the range.
THEOREM RevokesClear == Spec => []RevokeClears
<1>1. TypeOK => RevokeClears
  <2> SUFFICES ASSUME TypeOK, NEW r \in Ranges
               PROVE  LET new == RevokePermission(perms, r[1], r[2])
                      IN \A i \in 1..Len(new) : ~IsShared(new[i], r[1], r[2])
    BY DEF RevokeClears
  <2>1. r[1] \in Nat /\ r[2] \in Nat
    BY RangesAreNaturals
  <2> QED BY <2>1, RevokeProperties DEF TypeOK
<1> QED BY <1>1, TypeCorrect, PTL
=============================================================================
