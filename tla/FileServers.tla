---------------------------- MODULE FileServers ----------------------------
(***************************************************************************)
(* The file servers, the metadata manager that creates strips at them, and *)
(* clients that read and write blocks of open files.  A server keeps a     *)
(* table of files under one lock; of a file it has those strips that were  *)
(* created at it, each in a file of its own.  Deleting a file tells the    *)
(* servers nothing: they keep table entries and strips.                    *)
(*                                                                         *)
(* A request for a file that is not in the table returns with the lock     *)
(* held: the server is hung and answers nobody any more.  A client whose   *)
(* request is refused dies of a failed assertion.                          *)
(***************************************************************************)
EXTENDS Placement

CONSTANTS
  Names,      \* file names
  Clients,
  Widths,     \* the stripe widths each file may be created with
  FileSize,   \* bound on the bytes of a file that clients use
  Values,     \* the values a byte can be written with
  Hole        \* a byte that was not written

ASSUME ServersAssumption ==
  /\ Names # {}
  /\ Widths \in [Names -> SUBSET (Nat \ {0})]
  /\ FileSize \in Nat /\ FileSize % BlockSize = 0
  /\ Hole \notin Values

VARIABLES
  recipe,    \* the manager's table: the width of each file, 0 for no file
  made,      \* files whose creation has returned
  creation,  \* the CreateFile call of each client
  handle,    \* the open file of each client, with the width it was told
  files,     \* the table of each server
  disk,      \* the strips: disk[s][f][i][offset]
  hung,      \* servers whose lock is held for good
  failed,    \* clients that died
  written,   \* history: what was last written to each byte of a file
             \* that is not spoiled
  spoiled    \* history: files opened or deleted while they were being
             \* created, or created again with another width

serverVars ==
  <<recipe, made, creation, handle, files, disk, hung, failed, written, spoiled>>

Bytes == 0..(FileSize - 1)
Addrs == {a \in Bytes : a % BlockSize = 0}
Empty == [b \in Bytes |-> Hole]

StripIds == UNION {0..(w - 1) : w \in UNION {Widths[f] : f \in Names}}

\* An FSFile; width 0 stands for a name the server has not heard of.
NoEntry == [width |-> 0, strips |-> {}]

\* CreateFile waits for the table of the next server, then for its strip.
NoCreation == [pc |-> "none", name |-> CHOOSE f \in Names : TRUE, width |-> 0, next |-> 0]

NoHandle == [open |-> FALSE, name |-> CHOOSE f \in Names : TRUE, width |-> 0]

ServersInit ==
  /\ recipe = [f \in Names |-> 0]
  /\ made = {}
  /\ creation = [c \in Clients |-> NoCreation]
  /\ handle = [c \in Clients |-> NoHandle]
  /\ files = [s \in Servers |-> [f \in Names |-> NoEntry]]
  /\ disk = [s \in Servers |-> [f \in Names |-> [i \in StripIds |-> Empty]]]
  /\ hung = {}
  /\ failed = {}
  /\ written = [f \in Names |-> Empty]
  /\ spoiled = {}

\* Client c is alive and in no call.
Free(c) == c \notin failed /\ creation[c] = NoCreation

-----------------------------------------------------------------------------
\* CreateFile at the manager up to the release of filesLock.
CreateFile(c, f, w) ==
  /\ Free(c)
  /\ recipe[f] = 0
  /\ recipe' = [recipe EXCEPT ![f] = w]
  /\ creation' = [creation EXCEPT ![c] = [pc |-> "table", name |-> f, width |-> w, next |-> 0]]
  /\ written' = [written EXCEPT ![f] = Empty]
  /\ spoiled' = IF \A s \in Servers : files[s][f] = NoEntry \/ files[s][f].width = w
                THEN spoiled ELSE spoiled \union {f}
  /\ UNCHANGED <<made, handle, files, disk, hung, failed>>

\* CreateFile at a server, under its lock: find the file or enter it.
EnterFile(c) ==
  LET r == creation[c]
      s == Home(r.next)
  IN /\ r.pc = "table"
     /\ s \notin hung
     /\ files' = IF files[s][r.name] # NoEntry THEN files
                 ELSE [files EXCEPT ![s][r.name] = [width |-> r.width, strips |-> {}]]
     /\ creation' = [creation EXCEPT ![c].pc = "strip"]
     /\ UNCHANGED <<recipe, made, handle, disk, hung, failed, written, spoiled>>

\* Mutant: one strip too many.
MutLastStrip(r) == r.next = r.width

\* The loop of the manager's CreateFile ends after this strip.
LastStrip(r) == r.next + 1 = r.width

\* Mutant: the contents of an old strip stay.
MutNoTruncate(c) ==
  LET r == creation[c]
      s == Home(r.next)
  IN /\ r.pc = "strip"
     /\ files' = [files EXCEPT ![s][r.name].strips = @ \union {r.next}]
     /\ creation' = [creation EXCEPT ![c] =
          IF LastStrip(r) THEN NoCreation ELSE [r EXCEPT !.pc = "table", !.next = @ + 1]]
     /\ made' = IF LastStrip(r) THEN made \union {r.name} ELSE made
     /\ UNCHANGED <<recipe, handle, disk, hung, failed, written, spoiled>>

(***************************************************************************)
(* addStrip, without the lock: enter the strip, and create or truncate its *)
(* file.  The manager goes on with the next strip, or returns.             *)
(***************************************************************************)
AddStrip(c) ==
  LET r == creation[c]
      s == Home(r.next)
  IN /\ r.pc = "strip"
     /\ files' = [files EXCEPT ![s][r.name].strips = @ \union {r.next}]
     /\ disk' = [disk EXCEPT ![s][r.name][r.next] = Empty]
     /\ creation' = [creation EXCEPT ![c] =
          IF LastStrip(r) THEN NoCreation ELSE [r EXCEPT !.pc = "table", !.next = @ + 1]]
     /\ made' = IF LastStrip(r) THEN made \union {r.name} ELSE made
     /\ UNCHANGED <<recipe, handle, hung, failed, written, spoiled>>

\* pfs_open: the manager tells the width.
OpenFile(c, f) ==
  /\ Free(c)
  /\ ~handle[c].open
  /\ recipe[f] # 0
  /\ handle' = [handle EXCEPT ![c] = [open |-> TRUE, name |-> f, width |-> recipe[f]]]
  /\ spoiled' = IF f \in made THEN spoiled ELSE spoiled \union {f}
  /\ UNCHANGED <<recipe, made, creation, files, disk, hung, failed, written>>

CloseFile(c) ==
  /\ Free(c)
  /\ handle[c].open
  /\ handle' = [handle EXCEPT ![c] = NoHandle]
  /\ UNCHANGED <<recipe, made, creation, files, disk, hung, failed, written, spoiled>>

\* DeleteFile: nobody has the file open; only the manager's entry goes.
DeleteFile(c, f) ==
  /\ Free(c)
  /\ recipe[f] # 0
  /\ \A d \in Clients : ~(handle[d].open /\ handle[d].name = f)
  /\ recipe' = [recipe EXCEPT ![f] = 0]
  /\ made' = made \ {f}
  /\ spoiled' = IF f \in made THEN spoiled ELSE spoiled \union {f}
  /\ UNCHANGED <<creation, handle, files, disk, hung, failed, written>>

-----------------------------------------------------------------------------
(***************************************************************************)
(* What a client with file f of width w finds when it asks for the block   *)
(* at addr: its server, the entry there and the strip as that entry's own  *)
(* width tells.                                                            *)
(***************************************************************************)
Entry(f, w, addr) == files[FileServerIndex(addr, w)][f]

Served(f, w, addr) ==
  LET file == Entry(f, w, addr)
  IN /\ file # NoEntry
     /\ Strip(addr, file.width) \in file.strips
     /\ WithinStripe(addr)

\* The byte at addr as ReadBlock returns it.
Stored(f, w, addr) ==
  LET width == Entry(f, w, addr).width
  IN disk[FileServerIndex(addr, w)][f][Strip(addr, width)][StripOffset(addr, width)]

\* A client can ask the server of this block, which answers.
Reaches(c, addr) ==
  /\ Free(c)
  /\ handle[c].open
  /\ FileServerIndex(addr, handle[c].width) \notin hung

\* ReadBlock, answered: the contents go to the client's cache.
ReadBlock(c, addr) ==
  /\ Reaches(c, addr)
  /\ Served(handle[c].name, handle[c].width, addr)
  /\ UNCHANGED serverVars

\* WriteBlock, answered: only the bytes flagged dirty are written.
WriteBlock(c, addr, dirty, v) ==
  LET f == handle[c].name
      w == handle[c].width
      width == Entry(f, w, addr).width
  IN /\ Reaches(c, addr)
     /\ Served(f, w, addr)
     /\ disk' = [disk EXCEPT ![FileServerIndex(addr, w)][f][Strip(addr, width)] =
          [o \in Bytes |-> IF o - StripOffset(addr, width) \in dirty THEN v ELSE @[o]]]
     /\ written' = [written EXCEPT ![f] =
          [b \in Bytes |-> IF b - addr \in dirty /\ f \notin spoiled THEN v ELSE @[b]]]
     /\ UNCHANGED <<recipe, made, creation, handle, files, hung, failed, spoiled>>

\* Either request, refused: the client's assertion fails.
Refused(c, addr) ==
  LET f == handle[c].name
      w == handle[c].width
  IN /\ Reaches(c, addr)
     /\ ~Served(f, w, addr)
     /\ hung' = IF Entry(f, w, addr) = NoEntry
                THEN hung \union {FileServerIndex(addr, w)} ELSE hung
     /\ failed' = failed \union {c}
     /\ UNCHANGED <<recipe, made, creation, handle, files, disk, written, spoiled>>

ServersNext ==
  \E c \in Clients :
    \/ EnterFile(c) \/ AddStrip(c) \/ CloseFile(c)
    \/ \E f \in Names : OpenFile(c, f) \/ DeleteFile(c, f)
    \/ \E f \in Names : \E w \in Widths[f] : CreateFile(c, f, w)
    \/ \E a \in Addrs : ReadBlock(c, a) \/ Refused(c, a)
    \/ \E a \in Addrs, v \in Values, dirty \in SUBSET (0..(BlockSize - 1)) \ {{}} :
         WriteBlock(c, a, dirty, v)

ServersSafety == ServersInit /\ [][ServersNext]_serverVars

-----------------------------------------------------------------------------
\* Every variable keeps its type.
ServersTypeOK ==
  /\ recipe \in [Names -> Nat]
  /\ made \subseteq Names
  /\ creation \in [Clients -> [pc : {"none", "table", "strip"}, name : Names,
                               width : Nat, next : Nat]]
  /\ handle \in [Clients -> [open : BOOLEAN, name : Names, width : Nat]]
  /\ files \in [Servers -> [Names -> [width : Nat, strips : SUBSET StripIds]]]
  /\ disk \in [Servers -> [Names -> [StripIds -> [Bytes -> Values \union {Hole}]]]]
  /\ hung \subseteq Servers
  /\ failed \subseteq Clients
  /\ written \in [Names -> [Bytes -> Values \union {Hole}]]
  /\ spoiled \subseteq Names

(***************************************************************************)
(* A request is refused only for a file that was opened or deleted before  *)
(* its creation returned or that was created again with another width: for *)
(* all others the server the client picks has the file and the strip,      *)
(* through deletions and creations.  So the assertions of flush and        *)
(* getBlockFromFileServer hold for them, and no server hangs.              *)
(***************************************************************************)
RefusedOnlyIfSpoiled ==
  /\ \A c \in failed : handle[c].name \in spoiled
  /\ hung # {} => failed # {}

(***************************************************************************)
(* The strips together are one file: a read of any byte of a file that is  *)
(* not spoiled returns what was last written to it, by anybody, since the  *)
(* file was created.  No two bytes share a place, no write touches other   *)
(* bytes of its block, and nothing shows of a deleted file of that name.   *)
(***************************************************************************)
ReadsReturnWrites ==
  \A f \in made \ spoiled : \A b \in Bytes : Stored(f, recipe[f], b) = written[f][b]
=============================================================================
