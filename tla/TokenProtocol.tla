--------------------------- MODULE TokenProtocol ---------------------------
(***************************************************************************)
(* The token manager of one file together with the clients that use it.    *)
(* In each client the application thread (pfs_read, pfs_write) acquires a  *)
(* token, works on the cache and unlocks it, while a thread of the gRPC    *)
(* server handles revocations.  Both work on ClientFile::permissions under *)
(* ClientFile::lock, each in several critical sections.                    *)
(***************************************************************************)
EXTENDS TokenManager

CONSTANTS
  Modes,           \* the accesses of the workload: TRUE writes, FALSE reads
  OrderedDelivery  \* does a revocation never overtake an earlier grant?

ASSUME ProtocolAssumption == Modes \subseteq BOOLEAN /\ OrderedDelivery \in BOOLEAN

VARIABLES
  permissions,  \* ClientFile::permissions of each client
  op,           \* the application thread of each client
  handler,      \* the thread that handles a revocation in each client
  tangled       \* history: peers whose vectors have been out of order

clientVars == <<permissions, op, handler>>
protocolVars == <<managerVars, clientVars, tangled>>

(***************************************************************************)
(* The application thread is idle, calling the manager, working under a    *)
(* token found by hasPermission (local) or just granted, or stuck: waiting *)
(* for a permission lock inside addPermission with the file lock held.     *)
(***************************************************************************)
Operation == [pc : {"idle", "calling", "local", "granted", "stuck"},
              start : 0..MaxOffset, end : 0..MaxOffset, write : BOOLEAN]

Idle == [pc |-> "idle", start |-> 0, end |-> 0, write |-> FALSE]

(***************************************************************************)
(* A revocation waits for count posts on its semaphore, then edits the     *)
(* vector, then evicts the cached blocks of the range and returns.         *)
(***************************************************************************)
Handler == [pc : {"none", "waiting", "evicting"}, start : 0..MaxOffset,
            end : 0..MaxOffset, count : Nat, posts : Nat]

NoHandler == [pc |-> "none", start |-> 0, end |-> 0, count |-> 0, posts |-> 0]

ProtocolInit ==
  /\ ManagerInit
  /\ permissions = [p \in Peers |-> <<>>]
  /\ op = [p \in Peers |-> Idle]
  /\ handler = [p \in Peers |-> NoHandler]
  /\ tangled = {}

\* ClientFile::lock is free: only a stuck thread keeps it between two steps.
FileLockFree(p) == op[p].pc # "stuck"

ClientOpen(p) ==
  /\ OpenFile(p)
  /\ UNCHANGED clientVars

\* closeFile: the CloseFile RPC, then the ClientFile is deleted.
ClientClose(p) ==
  /\ op[p] = Idle
  /\ CloseFile(p)
  /\ permissions' = [permissions EXCEPT ![p] = <<>>]
  /\ UNCHANGED <<op, handler>>

-----------------------------------------------------------------------------
\* Mutant: the operation runs one byte too far.
MutOneTooFar(p, pc, r, write) ==
  op' = [op EXCEPT ![p] = [pc |-> pc, start |-> r[1], end |-> r[2] + 1, write |-> write]]

\* What the application thread of p is doing.
Operate(p, pc, r, write) ==
  op' = [op EXCEPT ![p] = [pc |-> pc, start |-> r[1], end |-> r[2], write |-> write]]

\* acquirePermission, when hasPermission finds the token in the vector.
AcquireLocal(p, r, write) ==
  /\ p \in opened
  /\ op[p] = Idle
  /\ HasPermission(permissions[p], r[1], r[2], write)
  /\ Operate(p, "local", r, write)
  /\ UNCHANGED <<managerVars, permissions, handler>>

\* acquirePermission, up to the GetPermission RPC.
AcquireRemote(p, r, write) ==
  /\ op[p] = Idle
  /\ ~HasPermission(permissions[p], r[1], r[2], write)
  /\ Len(permissions[p]) < MaxEntries
  /\ GetPermission(p, r[1], r[2], write)
  /\ Operate(p, "calling", r, write)
  /\ UNCHANGED <<permissions, handler>>

(***************************************************************************)
(* addPermission locks the write tokens it keeps around a new read token.  *)
(* It blocks for good on one that is already locked: the only application  *)
(* thread left it locked.                                                  *)
(***************************************************************************)
Relocks(perms, start, end, write) ==
  LET s == FirstTouching(perms, start, end)
  IN /\ s # 0 /\ ~write
     /\ \E i \in s..RunEnd(perms, s, start, end) : perms[i].write /\ perms[i].locked

\* Mutant: the client records its request instead of the range in the answer.
MutAddRequest(p) ==
  /\ Receive(p)
  /\ op' = [op EXCEPT ![p].pc = "granted"]
  /\ permissions' = [permissions EXCEPT
       ![p] = AddPermission(permissions[p], op[p].start, op[p].end, op[p].write, TRUE)]
  /\ UNCHANGED handler

\* The answer arrives and addPermission records and locks the token.
AddGrant(p) ==
  /\ Receive(p)
  /\ LET c == call[p] IN
       \/ /\ Relocks(permissions[p], c.start, c.end, c.write)
          /\ op' = [op EXCEPT ![p].pc = "stuck"]
          /\ UNCHANGED permissions
       \/ /\ ~Relocks(permissions[p], c.start, c.end, c.write)
          /\ op' = [op EXCEPT ![p].pc = "granted"]
          /\ permissions' = [permissions EXCEPT
               ![p] = AddPermission(permissions[p], c.start, c.end, c.write, TRUE)]
  /\ UNCHANGED handler

\* Permission::unlock for the entries in shared.
Unlocked(perms, shared) ==
  [i \in 1..Len(perms) |->
     IF i \in shared THEN [perms[i] EXCEPT !.locked = FALSE] ELSE perms[i]]

(***************************************************************************)
(* unlockPermission at the end of a read or write: Permission::unlock for  *)
(* every entry that overlaps the range, which posts all the semaphores in  *)
(* the entry.  A post on the dead semaphore of an earlier revocation may   *)
(* hit the live one.                                                       *)
(***************************************************************************)
Unlock(p) ==
  LET perms == permissions[p]
      shared == {i \in 1..Len(perms) : IsShared(perms[i], op[p].start, op[p].end)}
      posting(sem) == Cardinality({i \in shared : sem \in perms[i].waiters})
  IN /\ op[p].pc \in {"local", "granted"}
     /\ op' = [op EXCEPT ![p] = Idle]
     /\ permissions' = [permissions EXCEPT ![p] = Unlocked(perms, shared)]
     /\ \E stray \in 0..posting("stale") :
          handler' = [handler EXCEPT ![p].posts =
            Min({handler[p].count, @ + posting("live") + stray})]
     /\ UNCHANGED managerVars

-----------------------------------------------------------------------------
\* The peer whose thread holds the manager's file lock.
Holder == CHOOSE p \in Peers : call[p].phase = "revoking"

(***************************************************************************)
(* File::revokePermission, first critical section: leave the semaphore in  *)
(* every locked entry that overlaps the range, and count them.             *)
(***************************************************************************)
BeginRevoke(q) ==
  LET start == call[Holder].start
      end == call[Holder].end
      perms == permissions[q]
      busy == {i \in 1..Len(perms) : IsShared(perms[i], start, end) /\ perms[i].locked}
  IN /\ q \in revoking
     /\ handler[q] = NoHandler
     /\ FileLockFree(q)
     /\ OrderedDelivery => call[q].phase # "replied"
     /\ permissions' = [permissions EXCEPT ![q] =
          [i \in 1..Len(perms) |->
             IF i \in busy THEN [perms[i] EXCEPT !.waiters = @ \union {"live"}]
             ELSE perms[i]]]
     /\ handler' = [handler EXCEPT ![q] =
          [pc |-> "waiting", start |-> start, end |-> end,
           count |-> Cardinality(busy), posts |-> 0]]
     /\ UNCHANGED <<managerVars, op>>

\* Mutant: the handler waits for one post too many.
MutWaitMore(h) == h.posts > h.count

\* The sem_wait calls of a revocation are over.
Woken(h) == h.posts >= h.count

\* Second critical section, after count posts: edit the vector.
EditVector(q) ==
  LET h == handler[q]
      new == RevokePermission(permissions[q], h.start, h.end)
  IN /\ h.pc = "waiting"
     /\ Woken(h)
     /\ FileLockFree(q)
     /\ permissions' = [permissions EXCEPT ![q] =
          [i \in 1..Len(new) |->
             IF "live" \in new[i].waiters THEN [new[i] EXCEPT !.waiters = {"stale"}]
             ELSE new[i]]]
     /\ handler' = [handler EXCEPT ![q].pc = "evicting"]
     /\ UNCHANGED <<managerVars, op>>

\* The blocks of the range are evicted and the RPC returns.
FinishRevoke(q) ==
  /\ handler[q].pc = "evicting"
  /\ RevokeReturns(q)
  /\ handler' = [handler EXCEPT ![q] = NoHandler]
  /\ UNCHANGED <<permissions, op>>

ServeCall(p) == Serve(p) /\ UNCHANGED clientVars

ReplyCall(p) == Reply(p) /\ UNCHANGED clientVars

ProtocolStep ==
  \/ \E p \in Peers :
       \/ ClientOpen(p) \/ ClientClose(p)
       \/ AddGrant(p) \/ Unlock(p)
       \/ BeginRevoke(p) \/ EditVector(p) \/ FinishRevoke(p)
       \/ ServeCall(p) \/ ReplyCall(p)
  \/ \E p \in Peers, r \in Ranges, write \in Modes :
       AcquireLocal(p, r, write) \/ AcquireRemote(p, r, write)

(***************************************************************************)
(* addPermission may leave overlapping, empty or unsorted entries, and no  *)
(* call puts them in order again.  A peer whose vector, its own or the     *)
(* manager's, has been out of order is tangled until it closes the file.   *)
(***************************************************************************)
Tangle ==
  tangled' = {p \in opened' : \/ p \in tangled
                              \/ ~Ordered(permissions'[p])
                              \/ ~Ordered(clientPermissions'[p])}

ProtocolNext == ProtocolStep /\ Tangle

ProtocolSafety == ProtocolInit /\ [][ProtocolNext]_protocolVars

(***************************************************************************)
(* Threads that can run do run.  Applications need not open, close, read   *)
(* or write, and the race for the manager's file lock may be unfair.       *)
(***************************************************************************)
ProtocolFairness ==
  /\ WF_protocolVars((\E p \in Peers : ServeCall(p)) /\ Tangle)
  /\ \A p \in Peers :
       /\ WF_protocolVars(ReplyCall(p) /\ Tangle) /\ WF_protocolVars(AddGrant(p) /\ Tangle)
       /\ WF_protocolVars(Unlock(p) /\ Tangle) /\ WF_protocolVars(BeginRevoke(p) /\ Tangle)
       /\ WF_protocolVars(EditVector(p) /\ Tangle) /\ WF_protocolVars(FinishRevoke(p) /\ Tangle)

ProtocolSpec == ProtocolSafety /\ ProtocolFairness

-----------------------------------------------------------------------------
\* The client side keeps its type.
ProtocolTypeOK ==
  /\ permissions \in [Peers -> Seq(Permission)]
  /\ op \in [Peers -> Operation]
  /\ handler \in [Peers -> Handler]
  /\ tangled \subseteq opened

(***************************************************************************)
(* A client believes to hold a write token on a byte only while no other   *)
(* client believes to hold any token on it, whatever grants, revocations   *)
(* and closes are under way, unless a vector got out of order.             *)
(***************************************************************************)
ClientsExclusive ==
  \A p, q \in Peers \ tangled : p # q =>
    \A b \in 0..MaxOffset :
      ~(Allows(permissions[p], b, TRUE) /\ Allows(permissions[q], b, FALSE))

\* The tokens in a vector, without the state of their locks.
Tokens(perms) == [i \in 1..Len(perms) |-> <<perms[i].start, perms[i].end, perms[i].write>>]

(***************************************************************************)
(* The two copies of a client's tokens, its own and the manager's, edited  *)
(* by different threads on different nodes, agree entry by entry whenever  *)
(* no grant or revocation for the client is under way.                     *)
(***************************************************************************)
VectorsAgree ==
  \A p \in Peers :
    /\ call[p].phase \in {"none", "queued"} /\ p \notin revoking
    /\ op[p].pc # "stuck"
    => Tokens(permissions[p]) = Tokens(clientPermissions[p])

\* The bytes of the operation in progress are covered by the vector.
Holds(p) ==
  \A b \in op[p].start..(op[p].end - 1) : Allows(permissions[p], b, op[p].write)

(***************************************************************************)
(* A granted token is locked: no revocation takes it out of a vector in    *)
(* order before the operation it was granted for unlocks it.               *)
(***************************************************************************)
GrantedTokensKept == \A p \in Peers \ tangled : op[p].pc = "granted" => Holds(p)

(***************************************************************************)
(* An application left a token locked after its operation, or waits for    *)
(* such a lock itself.                                                     *)
(***************************************************************************)
LockLeaked ==
  \E p \in Peers :
    \/ op[p].pc = "stuck"
    \/ /\ op[p].pc \in {"idle", "calling", "local"}
       /\ \E i \in 1..Len(permissions[p]) : permissions[p][i].locked

(***************************************************************************)
(* Whenever a request waits some request is answered, in whatever order    *)
(* grants and revocations arrive and however revocations wait for tokens   *)
(* in use, unless a lock leaks at some time.                               *)
(***************************************************************************)
AnsweredUnlessLeaked ==
  []~LockLeaked =>
    ((\E p \in Peers : call[p].phase = "queued")
       ~> (\E p \in Peers : call[p].phase = "replied"))
=============================================================================
