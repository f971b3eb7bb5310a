---------------------------- MODULE TokenManager ----------------------------
(***************************************************************************)
(* The token manager of one file: MMFile with its table of permission      *)
(* vectors, and the GetPermission handlers that run on it, one thread per  *)
(* RPC.  waitAndGetPermissionFor edits the table in one go under the file  *)
(* lock, then keeps the lock until every revocation RPC it started has     *)
(* returned, and only then answers.                                        *)
(*                                                                         *)
(* A peer is a client process with one application thread, so it has at    *)
(* most one call in progress.                                              *)
(***************************************************************************)
EXTENDS Permissions

CONSTANTS
  Peers,      \* the clients, as context->peer() names them
  MaxOffset,  \* the end of the whole-file token, INT_MAX in the code
  MinLength,  \* the shortest request: 0 allows reads and writes of no byte
  MaxEntries  \* bound on the length of the vectors explored

ASSUME ManagerAssumption == MaxOffset \in Nat /\ MinLength \in Nat

VARIABLES
  opened,             \* the keys of MMFile::clientPermissions
  clientPermissions,  \* its vectors; <<>> for a peer that is not a key
  call,               \* the GetPermission call of each peer
  revoking            \* peers whose revocation RPC has not returned

managerVars == <<opened, clientPermissions, call, revoking>>

\* The requests [start, end) that a read or write of the file can make.
Ranges == {r \in (0..MaxOffset) \X (0..MaxOffset) : r[1] + MinLength <= r[2]}

(***************************************************************************)
(* A call is queued for the file lock, then revoking (its thread holds the *)
(* lock and joins its revocation threads), then replied (the answer is on  *)
(* its way).  start and end are the request and, once served, the grant.   *)
(***************************************************************************)
Phases == {"none", "queued", "revoking", "replied"}

Call == [phase : Phases, start : 0..MaxOffset, end : 0..MaxOffset, write : BOOLEAN]

NoCall == [phase |-> "none", start |-> 0, end |-> 0, write |-> FALSE]

\* Mutant: the lock does not exclude anybody.
MutNoMutex == TRUE

\* The file lock is held from the table update to the answer.
LockFree == \A p \in Peers : call[p].phase # "revoking"

ManagerInit ==
  /\ opened = {}
  /\ clientPermissions = [p \in Peers |-> <<>>]
  /\ call = [p \in Peers |-> NoCall]
  /\ revoking = {}

\* MMFile::open for a peer that has not opened the file.
OpenFile(p) ==
  /\ LockFree
  /\ p \notin opened
  /\ opened' = opened \union {p}
  /\ UNCHANGED <<clientPermissions, call, revoking>>

\* MMFile::close: the peer's vector goes with its key.
CloseFile(p) ==
  /\ LockFree
  /\ p \in opened
  /\ call[p] = NoCall
  /\ opened' = opened \ {p}
  /\ clientPermissions' = [clientPermissions EXCEPT ![p] = <<>>]
  /\ UNCHANGED <<call, revoking>>

\* Mutant: the end of the request is taken as its last byte.
MutInclusiveEnd(p, start, end, write) ==
  /\ p \in opened
  /\ call[p] = NoCall
  /\ Len(clientPermissions[p]) < MaxEntries
  /\ call' = [call EXCEPT ![p] = [phase |-> "queued", start |-> start,
                                  end |-> end + 1, write |-> write]]
  /\ UNCHANGED <<opened, clientPermissions, revoking>>

\* GetPermission up to the file lock: isOpenedBy said yes.
GetPermission(p, start, end, write) ==
  /\ p \in opened
  /\ call[p] = NoCall
  /\ Len(clientPermissions[p]) < MaxEntries
  /\ call' = [call EXCEPT ![p] = [phase |-> "queued", start |-> start,
                                  end |-> end, write |-> write]]
  /\ UNCHANGED <<opened, clientPermissions, revoking>>

Others(p) == opened \ {p}

\* Mutant: a write request does not revoke read tokens.
MutKeepReaders(p) ==
  {q \in Others(p) :
     \E i \in 1..Len(clientPermissions[q]) :
       LET permit == clientPermissions[q][i]
       IN permit.write /\ IsShared(permit, call[p].start, call[p].end)}

\* Mutant: the scan of the table stops at the first peer in conflict.
MutFirstConflict(p) ==
  LET all == {q \in Others(p) :
                \E i \in 1..Len(clientPermissions[q]) :
                  LET permit == clientPermissions[q][i]
                  IN /\ permit.write \/ call[p].write
                     /\ IsShared(permit, call[p].start, call[p].end)}
  IN IF all = {} THEN {} ELSE {CHOOSE q \in all : TRUE}

\* The peers that hold a token in conflict with the request of p.
Conflicting(p) ==
  {q \in Others(p) :
     \E i \in 1..Len(clientPermissions[q]) :
       LET permit == clientPermissions[q][i]
       IN (permit.write \/ call[p].write) /\ IsShared(permit, call[p].start, call[p].end)}

\* firstPermit: no other peer holds any token, so p gets the whole file.
FirstPermit(p) == \A q \in Others(p) : clientPermissions[q] = <<>>

(***************************************************************************)
(* waitAndGetPermissionFor up to the joins: revoke the range in the        *)
(* vectors of the conflicting peers and send them revocations, record the  *)
(* new token of p, keep the lock.                                          *)
(***************************************************************************)
Serve(p) ==
  LET c    == call[p]
      from == IF FirstPermit(p) THEN 0 ELSE c.start
      to   == IF FirstPermit(p) THEN MaxOffset ELSE c.end
  IN /\ LockFree
     /\ c.phase = "queued"
     /\ clientPermissions' =
          [q \in Peers |->
             IF q = p THEN AddPermission(clientPermissions[p], from, to, c.write, FALSE)
             ELSE IF q \in Conflicting(p)
             THEN RevokePermission(clientPermissions[q], c.start, c.end)
             ELSE clientPermissions[q]]
     /\ revoking' = Conflicting(p)
     /\ call' = [call EXCEPT ![p] = [c EXCEPT !.phase = "revoking",
                                              !.start = from, !.end = to]]
     /\ UNCHANGED opened

\* A revocation RPC returns; its thread ignores the status and ends.
RevokeReturns(q) ==
  /\ q \in revoking
  /\ revoking' = revoking \ {q}
  /\ UNCHANGED <<opened, clientPermissions, call>>

\* All threads are joined: release the lock and answer.
Reply(p) ==
  /\ call[p].phase = "revoking"
  /\ revoking = {}
  /\ call' = [call EXCEPT ![p].phase = "replied"]
  /\ UNCHANGED <<opened, clientPermissions, revoking>>

\* The answer reaches the client.
Receive(p) ==
  /\ call[p].phase = "replied"
  /\ call' = [call EXCEPT ![p] = NoCall]
  /\ UNCHANGED <<opened, clientPermissions, revoking>>

ManagerNext ==
  \/ \E p \in Peers :
       \/ OpenFile(p) \/ CloseFile(p) \/ Serve(p)
       \/ RevokeReturns(p) \/ Reply(p) \/ Receive(p)
  \/ \E p \in Peers, r \in Ranges, write \in BOOLEAN :
       GetPermission(p, r[1], r[2], write)

ManagerSafety == ManagerInit /\ [][ManagerNext]_managerVars

-----------------------------------------------------------------------------
\* Every variable keeps its type.
ManagerTypeOK ==
  /\ opened \subseteq Peers
  /\ clientPermissions \in [Peers -> Seq(Permission)]
  /\ call \in [Peers -> Call]
  /\ revoking \subseteq Peers

(***************************************************************************)
(* Tokens are exclusive: while one peer holds a write token on a byte no   *)
(* other peer holds any token on it, in the manager's table, whatever the  *)
(* order of requests, revocations and closes.                              *)
(***************************************************************************)
TokensExclusive ==
  \A p, q \in Peers : p # q =>
    \A b \in 0..MaxOffset :
      ~(Allows(clientPermissions[p], b, TRUE) /\ Allows(clientPermissions[q], b, FALSE))

(***************************************************************************)
(* One thread at a time is between the table update and its answer, and    *)
(* revocations are outstanding only while it holds the file lock.          *)
(***************************************************************************)
OneServedAtATime ==
  /\ \A p, q \in Peers :
       call[p].phase = "revoking" /\ call[q].phase = "revoking" => p = q
  /\ revoking # {} => \E p \in Peers : call[p].phase = "revoking" /\ p \notin revoking

(***************************************************************************)
(* While a thread joins its revocations the table still holds the token it *)
(* is about to hand out: nobody can take it away before the answer is sent.*)
(***************************************************************************)
GrantStands ==
  \A p \in Peers : call[p].phase = "revoking" =>
    \A b \in call[p].start..(call[p].end - 1) :
      Allows(clientPermissions[p], b, call[p].write)

(***************************************************************************)
(* The table of vectors implements the byte-wise lock table ByteTokens.    *)
(***************************************************************************)
Promise == INSTANCE ByteTokens WITH
  rights <- [p \in Peers |-> [b \in 0..(MaxOffset - 1) |-> Mode(clientPermissions[p], b)]]

ImplementsByteTokens == Promise!Spec
=============================================================================
