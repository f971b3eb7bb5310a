----------------------------- MODULE Namespace -----------------------------
(***************************************************************************)
(* The metadata manager's table of files, the state it keeps of each file  *)
(* outside the tokens, and the tables of open files of its clients.        *)
(*                                                                         *)
(* Each call of a client is served by a thread of its own.  A handler      *)
(* looks its file up under filesLock; it then either goes on under that    *)
(* lock to one under the file's own lock, or releases filesLock and goes   *)
(* on with a pointer to the file.  A GetPermission call keeps the file's   *)
(* lock while other clients give up their tokens.  The tokens themselves   *)
(* are in TokenManager and TokenProtocol, the strips in FileServers.       *)
(*                                                                         *)
(* A file is an identity: a name that is deleted and created again has     *)
(* another one, so that a pointer that outlives its file shows.            *)
(***************************************************************************)
EXTENDS Naturals, Sequences, SequencesExt

CONSTANTS
  Clients,
  Names,
  Uses,       \* the names each client works with
  Writes,     \* the names of the files that are written
  MaxFiles,   \* bound on the files created of each name
  MaxSize,    \* bound on the size of a file
  Nobody

ASSUME NamespaceAssumption ==
  /\ Uses \in [Clients -> SUBSET Names] /\ Writes \subseteq Names
  /\ MaxFiles \in [Names -> Nat] /\ MaxSize \in Nat
  /\ Nobody \notin Clients

VARIABLES
  files,       \* the manager's table: the file of each name, if any
  created,     \* how many files of each name were created
  size,        \* the size the manager has of each file
  openers,     \* the clients that have each file open
  filesLock,   \* who holds the lock of the table
  fileLock,    \* who holds the lock of each file, over several steps
  opened,      \* openedFiles of each client
  call,        \* the call of each client
  raced,       \* history: files for which two closes set the size at once
  miscounted   \* history: clients that closed a file past their second

namespaceVars == <<files, created, size, openers, filesLock, fileLock, opened, call,
                   raced, miscounted>>

\* A file is its name and a number among the files of that name.
Ids == UNION {{<<f, n>> : n \in 1..MaxFiles[f]} : f \in Names}
NoFile == <<>>
Sizes == 0..MaxSize

Larger(m, n) == IF m >= n THEN m ELSE n

\* A call: where its handler is, its file, and what a close sends.
NoCall == [pc |-> "none", id |-> NoFile, modified |-> FALSE, size |-> 0, at |-> 0]

At(pc, id) == [NoCall EXCEPT !.pc = pc, !.id = id]

NamespaceInit ==
  /\ files = [f \in Names |-> NoFile]
  /\ created = [f \in Names |-> 0]
  /\ size = [i \in Ids |-> 0]
  /\ openers = [i \in Ids |-> {}]
  /\ filesLock = Nobody
  /\ fileLock = [i \in Ids |-> Nobody]
  /\ opened = [c \in Clients |-> <<>>]
  /\ call = [c \in Clients |-> NoCall]
  /\ raced = {}
  /\ miscounted = {}

\* Client c is in no call.  Clients that lost count are not followed further.
Idle(c) == call[c].pc = "none" /\ c \notin miscounted

\* An idle client calls, and its handler gets filesLock.
Enters(c) == Idle(c) /\ filesLock = Nobody

\* The handler of c is at pc and gets, for a moment, the lock of its file.
Locks(c, pc) == call[c].pc = pc /\ fileLock[call[c].id] = Nobody

Goto(c, pc) == call' = [call EXCEPT ![c].pc = pc]
Return(c) == call' = [call EXCEPT ![c] = NoCall]

history == <<raced, miscounted>>

-----------------------------------------------------------------------------
\* CreateFile enters a file of size 0; the strips are made afterwards.
CreateFile(c, f) ==
  /\ Enters(c)
  /\ files[f] = NoFile /\ created[f] < MaxFiles[f]
  /\ created' = [created EXCEPT ![f] = @ + 1]
  /\ files' = [files EXCEPT ![f] = <<f, created'[f]>>]
  /\ UNCHANGED <<size, openers, filesLock, fileLock, opened, call, history>>

OpenFile(c, f) ==
  /\ Enters(c)
  /\ files[f] # NoFile
  /\ filesLock' = c
  /\ call' = [call EXCEPT ![c] = At("open", files[f])]
  /\ UNCHANGED <<files, created, size, openers, fileLock, opened, history>>

\* Mutant: the early return for a file opened twice keeps filesLock.
MutKeepFilesLock(c) ==
  LET id == call[c].id
  IN /\ Locks(c, "open")
     /\ IF c \in openers[id]
        THEN Return(c) /\ UNCHANGED <<openers, filesLock>>
        ELSE /\ openers' = [openers EXCEPT ![id] = @ \union {c}]
             /\ filesLock' = Nobody
             /\ Goto(c, "opened")
     /\ UNCHANGED <<files, created, size, fileLock, opened, history>>

\* MMFile::open: refused if the client has the file open already.
OpenUnderLock(c) ==
  LET id == call[c].id
  IN /\ Locks(c, "open")
     /\ filesLock' = Nobody
     /\ IF c \in openers[id]
        THEN Return(c) /\ UNCHANGED openers
        ELSE openers' = [openers EXCEPT ![id] = @ \union {c}] /\ Goto(c, "opened")
     /\ UNCHANGED <<files, created, size, fileLock, opened, history>>

\* The client enters file id, of size n, in its table.
EnterOpened(c, id, n) ==
  opened' = [opened EXCEPT ![c] =
    Append(@, [id |-> id, name |-> id[1], size |-> n, modified |-> FALSE])]

\* The reply is made from the file, without a lock.
OpenReply(c) ==
  /\ call[c].pc = "opened"
  /\ EnterOpened(c, call[c].id, size[call[c].id])
  /\ Return(c)
  /\ UNCHANGED <<files, created, size, openers, filesLock, fileLock, history>>

\* Mutant: the size counts one byte too many.
MutOneByteMore(c, k, n) ==
  /\ Idle(c)
  /\ opened' = [opened EXCEPT ![c][k].modified = TRUE, ![c][k].size = Larger(@, n + 1)]
  /\ UNCHANGED <<files, created, size, openers, filesLock, fileLock, call, history>>

\* writeFile, once it has its token: what the client notes of the file.
WriteFile(c, k, n) ==
  /\ Idle(c)
  /\ opened' = [opened EXCEPT ![c][k].modified = TRUE, ![c][k].size = Larger(@, n)]
  /\ UNCHANGED <<files, created, size, openers, filesLock, fileLock, call, history>>

(***************************************************************************)
(* closeFile of the k-th open file.  The client keeps the index it found   *)
(* in a Boolean: what it flushes, sends and later removes is the first or  *)
(* the second entry of its table, under the name of the k-th.              *)
(***************************************************************************)
CloseFile(c, k) ==
  LET at == IF k = 1 THEN 1 ELSE 2
      file == files[opened[c][k].name]
  IN /\ Enters(c)
     /\ file # NoFile
     /\ call' = [call EXCEPT ![c] =
          [pc |-> "close", id |-> file, modified |-> opened[c][at].modified,
           size |-> opened[c][at].size, at |-> at]]
     /\ miscounted' = IF at = k THEN miscounted ELSE miscounted \union {c}
     /\ UNCHANGED <<files, created, size, openers, filesLock, fileLock, opened, raced>>

\* Mutant: the size of the request replaces the file's.
MutShrink(c) == call' = [call EXCEPT ![c].pc = "resize"]

\* The manager takes the larger of two sizes, and holds no lock.
NewSize(c) ==
  call' = [call EXCEPT ![c].pc = "resize", ![c].size = Larger(@, size[call[c].id])]

ReadSize(c) ==
  LET id == call[c].id
  IN /\ call[c].pc = "close"
     /\ IF call[c].modified THEN NewSize(c) ELSE Goto(c, "leave")
     /\ raced' = IF call[c].modified /\ \E d \in Clients : call[d].pc = "resize" /\ call[d].id = id
                 THEN raced \union {id} ELSE raced
     /\ UNCHANGED <<files, created, size, openers, filesLock, fileLock, opened, miscounted>>

SetSize(c) ==
  /\ call[c].pc = "resize"
  /\ size' = [size EXCEPT ![call[c].id] = call[c].size]
  /\ Goto(c, "leave")
  /\ UNCHANGED <<files, created, openers, filesLock, fileLock, opened, history>>

\* The client erases its entry, if the manager's close succeeds.
EraseOpened(c, closed) ==
  opened' = IF closed THEN [opened EXCEPT ![c] = RemoveAt(@, call[c].at)] ELSE opened

\* Mutant: the manager does not erase the client's entry.
MutStayOpen(c) ==
  /\ Locks(c, "leave")
  /\ EraseOpened(c, c \in openers[call[c].id])
  /\ Return(c)
  /\ UNCHANGED <<files, created, size, openers, filesLock, fileLock, history>>

\* MMFile::close, and the client's return.
Leave(c) ==
  LET id == call[c].id
  IN /\ Locks(c, "leave")
     /\ openers' = [openers EXCEPT ![id] = @ \ {c}]
     /\ EraseOpened(c, c \in openers[id])
     /\ Return(c)
     /\ UNCHANGED <<files, created, size, filesLock, fileLock, history>>

DeleteFile(c, f) ==
  /\ Enters(c)
  /\ files[f] # NoFile
  /\ filesLock' = c
  /\ call' = [call EXCEPT ![c] = At("delete", files[f])]
  /\ UNCHANGED <<files, created, size, openers, fileLock, opened, history>>

\* Mutant: open files are deleted too.
MutNotOpen(id) == TRUE

\* Not MMFile::isOpen.
NotOpen(id) == openers[id] = {}

\* With the file go its size and what the history has of it.
DeleteUnderLock(c) ==
  LET id == call[c].id
      gone == IF NotOpen(id) THEN {id} ELSE {}
  IN /\ Locks(c, "delete")
     /\ filesLock' = Nobody
     /\ files' = [f \in Names |-> IF files[f] \in gone THEN NoFile ELSE files[f]]
     /\ size' = [i \in Ids |-> IF i \in gone THEN 0 ELSE size[i]]
     /\ raced' = raced \ gone
     /\ Return(c)
     /\ UNCHANGED <<created, openers, fileLock, opened, miscounted>>

-----------------------------------------------------------------------------
\* GetPermission, for the k-th open file of the client.
GetPermission(c, k) ==
  LET file == files[opened[c][k].name]
  IN /\ Enters(c)
     /\ file # NoFile
     /\ filesLock' = c
     /\ call' = [call EXCEPT ![c] = At("ask", file)]
     /\ UNCHANGED <<files, created, size, openers, fileLock, opened, history>>

\* isOpenedBy, with both locks.
AskUnderLock(c) ==
  /\ Locks(c, "ask")
  /\ filesLock' = Nobody
  /\ IF c \in openers[call[c].id] THEN Goto(c, "wait") ELSE Return(c)
  /\ UNCHANGED <<files, created, size, openers, fileLock, opened, history>>

\* waitAndGetPermissionFor keeps the lock while tokens are revoked.
Revoke(c) ==
  /\ Locks(c, "wait")
  /\ fileLock' = [fileLock EXCEPT ![call[c].id] = c]
  /\ Goto(c, "revoke")
  /\ UNCHANGED <<files, created, size, openers, filesLock, opened, history>>

Granted(c) ==
  /\ call[c].pc = "revoke"
  /\ fileLock' = [fileLock EXCEPT ![call[c].id] = Nobody]
  /\ Return(c)
  /\ UNCHANGED <<files, created, size, openers, filesLock, opened, history>>

\* GetFileDesc reads the file after it has released filesLock.
GetFileStat(c, k) ==
  LET file == files[opened[c][k].name]
  IN /\ Enters(c)
     /\ file # NoFile
     /\ call' = [call EXCEPT ![c] = At("stat", file)]
     /\ UNCHANGED <<files, created, size, openers, filesLock, fileLock, opened, history>>

StatReply(c) ==
  /\ call[c].pc = "stat"
  /\ Return(c)
  /\ UNCHANGED <<files, created, size, openers, filesLock, fileLock, opened, history>>

\* What a handler does next by itself.
Handle(c) ==
  \/ OpenUnderLock(c) \/ OpenReply(c) \/ ReadSize(c) \/ SetSize(c) \/ Leave(c)
  \/ DeleteUnderLock(c) \/ AskUnderLock(c) \/ Revoke(c) \/ Granted(c) \/ StatReply(c)

NamespaceNext ==
  \E c \in Clients :
    \/ Handle(c)
    \/ \E f \in Uses[c] : CreateFile(c, f) \/ OpenFile(c, f) \/ DeleteFile(c, f)
    \/ \E k \in DOMAIN opened[c] :
         \/ CloseFile(c, k) \/ GetPermission(c, k) \/ GetFileStat(c, k)
         \/ opened[c][k].name \in Writes /\ \E n \in Sizes : WriteFile(c, k, n)

(***************************************************************************)
(* Handlers that can go on do; which of those that wait for a lock gets it *)
(* is open.  That every revocation ends is AnsweredUnlessLeaked of         *)
(* TokenProtocol.                                                          *)
(***************************************************************************)
NamespaceSpec ==
  /\ NamespaceInit
  /\ [][NamespaceNext]_namespaceVars
  /\ \A c \in Clients : WF_namespaceVars(Handle(c))

-----------------------------------------------------------------------------
\* Every variable keeps its type.
NamespaceTypeOK ==
  /\ files \in [Names -> Ids \union {NoFile}]
  /\ created \in [Names -> Nat]
  /\ size \in [Ids -> Sizes]
  /\ openers \in [Ids -> SUBSET Clients]
  /\ filesLock \in Clients \union {Nobody}
  /\ fileLock \in [Ids -> Clients \union {Nobody}]
  /\ \A c \in Clients : \A k \in DOMAIN opened[c] :
       opened[c][k] \in [id : Ids, name : Names, size : Sizes, modified : BOOLEAN]
  /\ call \in [Clients -> [pc : {"none", "open", "opened", "close", "resize", "leave",
                                 "delete", "ask", "wait", "revoke", "stat"},
                           id : Ids \union {NoFile}, modified : BOOLEAN,
                           size : Sizes, at : 0..2]]
  /\ raced \subseteq Ids
  /\ miscounted \subseteq Clients

\* The files that exist.
Live == {files[f] : f \in Names} \ {NoFile}

(***************************************************************************)
(* A handler that released filesLock goes on with a pointer to its file:   *)
(* no DeleteFile frees that file under it, because the client it serves    *)
(* has the file open until the handler returns.  Clients that closed a     *)
(* file past their second have lost count of what they have open.          *)
(***************************************************************************)
NoDanglingFile ==
  \A c \in Clients \ miscounted :
    call[c].pc # "none" => call[c].id \in Live

(***************************************************************************)
(* A client and the manager agree on which files the client has open, and  *)
(* the client's entry means the file it opened and not a later one of the  *)
(* same name; the manager alone knows of an open it has yet to answer.     *)
(***************************************************************************)
TablesAgree ==
  \A c \in Clients \ miscounted :
    /\ \A k \in DOMAIN opened[c] : files[opened[c][k].name] = opened[c][k].id
    /\ \A i \in Ids :
         c \in openers[i] <=>
           \/ \E k \in DOMAIN opened[c] : opened[c][k].id = i
           \/ call[c].pc = "opened" /\ call[c].id = i

(***************************************************************************)
(* The manager's size of a file never shrinks, unless two closes read and  *)
(* set it at once: it stays at least what each writer closed it with.      *)
(***************************************************************************)
SizeGrows ==
  [][\A i \in Live' \ raced : size'[i] >= size[i]]_namespaceVars

(***************************************************************************)
(* filesLock is always released.  Its holder may be waiting for the lock   *)
(* of a file whose tokens are being revoked, with more such requests in    *)
(* line; no new ones get past filesLock, so the line ends.                 *)
(***************************************************************************)
FilesLockReleased == filesLock # Nobody ~> filesLock = Nobody
=============================================================================
