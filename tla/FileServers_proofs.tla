------------------------- MODULE FileServers_proofs -------------------------
(***************************************************************************)
(* RefusedOnlyIfSpoiled and ReadsReturnWrites for any number of servers,   *)
(* clients and files, any stripe and block size, and any stripe widths.    *)
(***************************************************************************)
EXTENDS FileServers, TLAPS

\* Quotient and remainder.
LEMMA DivMod ==
  ASSUME NEW x \in Nat, NEW n \in Nat \ {0}
  PROVE  /\ x \div n \in Nat /\ x % n \in 0..(n - 1)
         /\ x = (x \div n) * n + (x % n)
  BY SMT

\* The same, as witnesses to pick.
LEMMA Divided ==
  ASSUME NEW x \in Nat, NEW n \in Nat \ {0}
  PROVE  \E q \in Nat, r \in 0..(n - 1) : q = x \div n /\ r = x % n /\ x = q * n + r
  BY Zenon, DivMod

\* Quotient and remainder are unique.
LEMMA DivModUnique ==
  ASSUME NEW n \in Nat \ {0}, NEW p \in Nat, NEW q \in Nat,
         NEW r \in 0..(n - 1), NEW s \in 0..(n - 1), p * n + r = q * n + s
  PROVE  p = q /\ r = s
<1>1. (p - q) * n = s - r
  BY SMT
<1>2. p - q >= 1 => (p - q) * n >= n
  BY SMT
<1>3. p - q <= 0 - 1 => (p - q) * n <= 0 - n
  BY SMT
<1>4. p = q
  BY <1>1, <1>2, <1>3
<1> QED BY <1>4

\* A byte is in a stripe unit, at an offset in it.
LEMMA Striped ==
  ASSUME NEW a \in Nat
  PROVE  \E i \in Nat, m \in 0..(StripeSize - 1) :
           i = StripeIndex(a) /\ m = a % StripeSize /\ a = i * StripeSize + m
<1>1. StripeSize \in Nat \ {0}
  BY PlacementAssumption
<1>2. PICK i \in Nat, m \in 0..(StripeSize - 1) :
        i = a \div StripeSize /\ m = a % StripeSize /\ a = i * StripeSize + m
  BY Zenon, <1>1, Divided
<1> QED BY Zenon, <1>2 DEF StripeIndex

\* What a remainder of 0 means.
LEMMA Multiple ==
  ASSUME NEW x \in Nat, NEW n \in Nat \ {0}, x % n = 0
  PROVE  \E q \in Nat : x = q * n
<1>1. PICK q \in Nat, r \in 0..(n - 1) : q = x \div n /\ r = x % n /\ x = q * n + r
  BY Zenon, Divided
<1>2. x = q * n
  BY <1>1
<1> QED BY <1>2

\* A byte is at offset (row * StripeSize + place in its stripe unit).
LEMMA OffsetForm ==
  ASSUME NEW a \in Nat, NEW w \in Nat \ {0}
  PROVE  /\ StripeIndex(a) \in Nat
         /\ StripOffset(a, w) = (StripeIndex(a) \div w) * StripeSize + (a % StripeSize)
         /\ StripOffset(a, w) \in 0..a
<1>1. PICK S \in Nat \ {0} : S = StripeSize
  BY PlacementAssumption
<1>2. PICK i \in Nat, m \in 0..(S - 1) :
        i = StripeIndex(a) /\ m = a % S /\ a = i * S + m
  BY Zenon, <1>1, Striped
<1>3. PICK q \in Nat, r \in 0..(w - 1) : q = i \div w /\ r = i % w /\ i = q * w + r
  BY Zenon, Divided
<1>4. (i - r) \div w = q
  <2>1. i - r = q * w
    BY <1>3, SMT
  <2>2. (q * w) \div w = q
    BY SMT
  <2> QED BY <2>1, <2>2
<1>5. FileOffset(a, w) = q * (w - 1) * S + r * S
  BY Zenon, <1>1, <1>2, <1>3, <1>4 DEF FileOffset
<1>6. a = (q * w + r) * S + m
  BY <1>2, <1>3
<1>7. (q * w + r) * S + m - (q * (w - 1) * S + r * S) = q * S + m
  BY SMT
<1>8. StripOffset(a, w) = q * S + m
  BY <1>5, <1>6, <1>7 DEF StripOffset
<1>9. q * S + m <= a
  <2>1. q <= q * w + r
    BY SMT
  <2>2. q * S <= (q * w + r) * S
    BY <2>1, SMT
  <2> QED BY <1>6, <2>2, SMT
<1>10. StripOffset(a, w) \in 0..a
  BY <1>8, <1>9
<1> QED BY Zenon, <1>1, <1>2, <1>3, <1>8, <1>10

\* The bytes of a block are in one stripe unit, one after the other.
LEMMA BlockWithin ==
  ASSUME NEW a \in Nat, a % BlockSize = 0, NEW d \in 0..(BlockSize - 1)
  PROVE  /\ (a % StripeSize) + BlockSize <= StripeSize
         /\ StripeIndex(a + d) = StripeIndex(a)
         /\ (a + d) % StripeSize = (a % StripeSize) + d
<1>1. PICK S \in Nat \ {0}, B \in Nat \ {0} : S = StripeSize /\ B = BlockSize
  BY PlacementAssumption
<1>2. PICK i \in Nat, m \in 0..(S - 1) : i = a \div S /\ m = a % S /\ a = i * S + m
  BY Zenon, Divided
<1>3. PICK n \in Nat : S = n * B
  <2>1. S \in Nat /\ S % B = 0
    BY <1>1, PlacementAssumption
  <2> QED BY Zenon, <2>1, Multiple
<1>4. PICK k \in Nat : a = k * B
  <2>1. a % B = 0
    BY <1>1
  <2> QED BY Zenon, <2>1, Multiple
<1>5. m + B <= S
  <2>1. m = (k - i * n) * B
    <3>1. k * B = i * (n * B) + m
      BY Zenon, <1>2, <1>3, <1>4
    <3>2. (k - i * n) * B = k * B - i * (n * B)
      BY SMT
    <3> QED BY <3>1, <3>2
  <2>2. k - i * n < n
    BY <1>3, <2>1, SMT
  <2>3. (k - i * n + 1) * B <= n * B
    BY <2>2, SMT
  <2> QED BY <1>3, <2>1, <2>3, SMT
<1>6. a + d = i * S + (m + d) /\ m + d \in 0..(S - 1)
  BY <1>1, <1>2, <1>5
<1>7. (a + d) \div S = i /\ (a + d) % S = m + d
  <2>1. PICK j \in Nat, l \in 0..(S - 1) :
          j = (a + d) \div S /\ l = (a + d) % S /\ a + d = j * S + l
    <3>1. a + d \in Nat
      BY <1>1
    <3> QED BY ZenonT(30), <3>1, Divided
  <2> QED BY <1>6, <2>1, DivModUnique
<1> QED BY <1>1, <1>2, <1>5, <1>7 DEF StripeIndex

(***************************************************************************)
(* The placement of bytes: byte b is at the place of the d-th byte of the  *)
(* block at a exactly when it is that byte.  So the strips of a file do    *)
(* not overlap, and what ReadBlock and WriteBlock take for the block at a  *)
(* is the block at a, for every width and every stripe size that is a      *)
(* multiple of the block size.                                             *)
(***************************************************************************)
THEOREM PlacementExact ==
  ASSUME NEW w \in Nat \ {0}, NEW a \in Nat, a % BlockSize = 0, NEW b \in Nat,
         NEW d \in 0..(BlockSize - 1)
  PROVE  (Strip(b, w) = Strip(a, w) /\ StripOffset(b, w) = StripOffset(a, w) + d)
           <=> b = a + d
<1>1. PICK S \in Nat \ {0} : S = StripeSize
  BY PlacementAssumption
<1>2. PICK i \in Nat, m \in 0..(S - 1) : i = StripeIndex(a) /\ m = a % S /\ a = i * S + m
  BY <1>1, Striped
<1>3. PICK j \in Nat, n \in 0..(S - 1) : j = StripeIndex(b) /\ n = b % S /\ b = j * S + n
  BY <1>1, Striped
<1>4. m + d \in 0..(S - 1) /\ StripeIndex(a + d) = i /\ (a + d) % S = m + d
  <2>1. /\ (a % StripeSize) + BlockSize <= StripeSize
        /\ StripeIndex(a + d) = StripeIndex(a)
        /\ (a + d) % StripeSize = (a % StripeSize) + d
    BY BlockWithin
  <2> QED BY <1>1, <1>2, <2>1, PlacementAssumption
<1>5. PICK p \in Nat, r \in 0..(w - 1) : p = i \div w /\ r = i % w /\ i = p * w + r
  <2>1. i \div w \in Nat /\ (i % w) \in 0..(w - 1) /\ i = (i \div w) * w + (i % w)
    BY Zenon, DivMod
  <2> QED BY Zenon, <2>1
<1>6. PICK q \in Nat, s \in 0..(w - 1) : q = j \div w /\ s = j % w /\ j = q * w + s
  <2>1. j \div w \in Nat /\ (j % w) \in 0..(w - 1) /\ j = (j \div w) * w + (j % w)
    BY Zenon, DivMod
  <2> QED BY Zenon, <2>1
<1>7. StripOffset(a, w) = p * S + m /\ StripOffset(b, w) = q * S + n
  BY ZenonT(30), <1>1, <1>2, <1>3, <1>5, <1>6, OffsetForm
<1>8. Strip(a, w) = r /\ Strip(b, w) = s
  BY Zenon, <1>2, <1>3, <1>5, <1>6 DEF Strip
<1>9. ASSUME r = s, q * S + n = (p * S + m) + d
      PROVE  b = a + d
  <2>1. q * S + n = p * S + (m + d)
    BY <1>9, PlacementAssumption
  <2>2. q = p /\ n = m + d
    BY <1>4, <2>1, DivModUnique
  <2>3. j = i
    BY <1>5, <1>6, <1>9, <2>2
  <2> QED BY <1>2, <1>3, <2>2, <2>3, PlacementAssumption
<1>10. ASSUME b = a + d
       PROVE  r = s /\ q * S + n = (p * S + m) + d
  <2>1. j = i /\ n = m + d
    BY Zenon, <1>3, <1>4, <1>10
  <2> QED BY <1>5, <1>6, <2>1, PlacementAssumption
<1> QED BY <1>7, <1>8, <1>9, <1>10

\* The asserts of ReadBlock and WriteBlock on the end of the block.
LEMMA BlocksWithinStripe ==
  ASSUME NEW a \in Nat, a % BlockSize = 0
  PROVE  WithinStripe(a)
<1>1. PICK S \in Nat \ {0}, B \in Nat \ {0} : S = StripeSize /\ B = BlockSize
  BY PlacementAssumption
<1>2. PICK i \in Nat, m \in 0..(S - 1) : i = a \div S /\ m = a % S /\ a = i * S + m
  BY Zenon, Divided
<1>3. m + B <= S
  BY <1>1, <1>2, BlockWithin
<1>4. (a + S) \div S = i + 1
  <2>1. PICK j \in Nat, l \in 0..(S - 1) :
          j = (a + S) \div S /\ l = (a + S) % S /\ a + S = j * S + l
    <3>1. a + S \in Nat
      OBVIOUS
    <3> QED BY ZenonT(30), <3>1, Divided
  <2>2. j * S + l = (i + 1) * S + m
    BY <1>2, <2>1, SMT
  <2> QED BY <2>1, <2>2, DivModUnique
<1>5. a + B <= (i + 1) * S
  BY <1>2, <1>3, SMT
<1> QED BY <1>1, <1>4, <1>5 DEF WithinStripe

-----------------------------------------------------------------------------
(***************************************************************************)
(* The invariant.  Of a file that is not spoiled every server has no entry *)
(* or one of the right width; once made it has all strips, and until then  *)
(* its only creator has made, and emptied, those it is past.  Whoever has  *)
(* it open knows its width.                                                *)
(***************************************************************************)
CreationRecord == [pc : {"none", "table", "strip"}, name : Names, width : Nat, next : Nat]
HandleRecord == [open : BOOLEAN, name : Names, width : Nat]
EntryRecord == [width : Nat, strips : SUBSET StripIds]
Contents == [Bytes -> Values \union {Hole}]

FTypes ==
  /\ recipe \in [Names -> Nat]
  /\ made \subseteq Names
  /\ creation \in [Clients -> CreationRecord]
  /\ handle \in [Clients -> HandleRecord]
  /\ files \in [Servers -> [Names -> EntryRecord]]
  /\ disk \in [Servers -> [Names -> [StripIds -> Contents]]]
  /\ failed \subseteq Clients
  /\ written \in [Names -> Contents]
  /\ spoiled \subseteq Names

Creates(c, f) == creation[c].pc # "none" /\ creation[c].name = f

CreationOK(c) ==
  creation[c].pc # "none" =>
    /\ creation[c].width \in Widths[creation[c].name]
    /\ creation[c].next < creation[c].width

HasStrip(f, i) == i \in files[Home(i)][f].strips

WidthOK(f) ==
  recipe[f] # 0 =>
    \A s \in Servers : files[s][f] = NoEntry \/ files[s][f].width = recipe[f]

\* The place of a byte, when the entry at its server has width w.
StoredAt(f, w, b) == disk[Home(Strip(b, w))][f][Strip(b, w)][StripOffset(b, w)]

MadeOK(f) ==
  f \in made =>
    /\ recipe[f] \in Widths[f]
    /\ \A i \in 0..(recipe[f] - 1) : HasStrip(f, i)
    /\ \A b \in Bytes : StoredAt(f, recipe[f], b) = written[f][b]

MakingOK(c, f) ==
  Creates(c, f) =>
    /\ recipe[f] = creation[c].width
    /\ f \notin made
    /\ written[f] = Empty
    /\ \A i \in 0..(creation[c].next - 1) : HasStrip(f, i) /\ disk[Home(i)][f][i] = Empty
    /\ creation[c].pc = "strip" => files[Home(creation[c].next)][f] # NoEntry
    /\ \A d \in Clients \ {c} : ~Creates(d, f)

FileOK(f) == WidthOK(f) /\ MadeOK(f) /\ \A c \in Clients : MakingOK(c, f)

HandleOK(c) ==
  handle[c].open /\ handle[c].name \notin spoiled =>
    handle[c].name \in made /\ handle[c].width = recipe[handle[c].name]

SInv ==
  /\ FTypes
  /\ \A c \in Clients : CreationOK(c)
  /\ \A f \in Names : f \notin spoiled => FileOK(f)
  /\ \A c \in Clients : HandleOK(c)
  /\ RefusedOnlyIfSpoiled

\* The client asks the server where the strip of the byte was created.
LEMMA StripFacts ==
  ASSUME NEW b \in Bytes, NEW w \in Nat \ {0}
  PROVE  /\ b \in Nat /\ Strip(b, w) \in 0..(w - 1) /\ StripOffset(b, w) \in Bytes
         /\ FileServerIndex(b, w) = Home(Strip(b, w))
<1>1. b \in Nat /\ StripeIndex(b) \in Nat /\ StripOffset(b, w) \in 0..b
  BY OffsetForm, ServersAssumption DEF Bytes
<1>2. Strip(b, w) \in 0..(w - 1)
  BY <1>1, DivMod DEF Strip
<1>3. StripOffset(b, w) \in Bytes
  BY <1>1, ServersAssumption DEF Bytes
<1> QED BY <1>1, <1>2, <1>3 DEF FileServerIndex, Home

\* Strips are created at servers that exist.
LEMMA HomeServer ==
  ASSUME NEW i \in Nat
  PROVE  Home(i) \in Servers
  BY DivMod, PlacementAssumption DEF Home, Servers

\* Stripe widths are positive, and the model has their strips.
LEMMA WidthFacts ==
  ASSUME NEW f \in Names, NEW w \in Widths[f]
  PROVE  w \in Nat \ {0} /\ 0..(w - 1) \subseteq StripIds
<1>1. Widths[f] \in SUBSET (Nat \ {0})
  BY ServersAssumption
<1>2. 0..(w - 1) \subseteq StripIds
  BY DEF StripIds
<1> QED BY <1>1, <1>2

\* Where a byte of a file of one of its widths is.
LEMMA BytePlace ==
  ASSUME NEW f \in Names, NEW w \in Widths[f], NEW b \in Bytes
  PROVE  /\ Strip(b, w) \in StripIds /\ Home(Strip(b, w)) \in Servers
         /\ StripOffset(b, w) \in Bytes /\ FileServerIndex(b, w) = Home(Strip(b, w))
<1>1. w \in Nat \ {0} /\ 0..(w - 1) \subseteq StripIds
  BY Zenon, WidthFacts
<1>2. /\ Strip(b, w) \in 0..(w - 1) /\ StripOffset(b, w) \in Bytes
      /\ FileServerIndex(b, w) = Home(Strip(b, w))
  BY Zenon, <1>1, StripFacts
<1>3. Strip(b, w) \in Nat
  BY <1>1, <1>2
<1> QED BY Zenon, <1>1, <1>2, <1>3, HomeServer

\* The empty records have their types.
LEMMA NoTypes ==
  /\ NoCreation \in CreationRecord /\ NoCreation.pc = "none"
  /\ NoHandle \in HandleRecord /\ NoHandle.open = FALSE
  /\ NoEntry \in EntryRecord /\ NoEntry.width = 0 /\ NoEntry.strips = {}
  /\ Empty \in Contents
<1>1. (CHOOSE f \in Names : TRUE) \in Names
  BY ServersAssumption
<1>2. NoCreation \in CreationRecord /\ NoCreation.pc = "none"
  BY <1>1 DEF NoCreation, CreationRecord
<1>3. NoHandle \in HandleRecord /\ NoHandle.open = FALSE
  BY <1>1 DEF NoHandle, HandleRecord
<1>4. NoEntry \in EntryRecord /\ NoEntry.width = 0 /\ NoEntry.strips = {}
  BY DEF NoEntry, EntryRecord
<1>5. Empty \in Contents
  BY DEF Empty, Contents
<1> QED BY <1>2, <1>3, <1>4, <1>5

\* The invariant holds at the start: there are no files.
LEMMA InitSInv == ServersInit => SInv
<1> SUFFICES ASSUME ServersInit PROVE SInv
  OBVIOUS
<1> USE DEF ServersInit
<1>1. FTypes
  BY NoTypes DEF FTypes
<1>2. \A c \in Clients : CreationOK(c) /\ HandleOK(c)
  BY NoTypes DEF CreationOK, HandleOK
<1>3. \A f \in Names : FileOK(f)
  BY NoTypes DEF FileOK, WidthOK, MadeOK, MakingOK, Creates
<1>4. RefusedOnlyIfSpoiled
  BY DEF RefusedOnlyIfSpoiled
<1> QED BY <1>1, <1>2, <1>3, <1>4 DEF SInv

\* A block of a made file is served, from the place the client looks for it.
LEMMA MadeServed ==
  ASSUME SInv, NEW f \in made, f \notin spoiled, NEW b \in Bytes
  PROVE  /\ recipe[f] \in Nat \ {0}
         /\ Entry(f, recipe[f], b) # NoEntry
         /\ Entry(f, recipe[f], b).width = recipe[f]
         /\ Strip(b, recipe[f]) \in Entry(f, recipe[f], b).strips
         /\ Stored(f, recipe[f], b) = StoredAt(f, recipe[f], b)
<1>1. f \in Names /\ FileOK(f) /\ recipe[f] \in Widths[f]
  BY DEF SInv, FTypes, FileOK, MadeOK
<1>2. PICK w \in Nat \ {0} : w = recipe[f]
  BY <1>1, WidthFacts
<1>3. PICK i \in 0..(w - 1) : i = Strip(b, w) /\ FileServerIndex(b, w) = Home(i)
  BY StripFacts
<1>4. HasStrip(f, i)
  BY <1>1, <1>2, <1>3 DEF FileOK, MadeOK
<1>5. Home(i) \in Servers
  BY <1>3, HomeServer
<1>6. files[Home(i)][f] # NoEntry
  BY <1>4, NoTypes DEF HasStrip
<1>7. files[Home(i)][f].width = w
  BY <1>1, <1>2, <1>5, <1>6 DEF FileOK, WidthOK
<1> QED BY <1>2, <1>3, <1>4, <1>6, <1>7 DEF Entry, HasStrip, Stored, StoredAt

-----------------------------------------------------------------------------
\* A file of which nothing changes, or that is spoiled, stays as it is.
Kept(f) ==
  /\ recipe'[f] = recipe[f] /\ (f \in made' <=> f \in made)
  /\ written'[f] = written[f]
  /\ \A s \in Servers : files'[s][f] = files[s][f]
  /\ \A s \in Servers : disk'[s][f] = disk[s][f]
  /\ \A c \in Clients : Creates(c, f)' => creation'[c] = creation[c]

\* A file that a step does not touch stays as it should be.
LEMMA KeptOK ==
  ASSUME SInv, NEW f \in Names, FileOK(f), Kept(f)
  PROVE  FileOK(f)'
<1>1. WidthOK(f)'
  BY DEF FileOK, WidthOK, Kept
<1>2. MadeOK(f)'
  <2> SUFFICES ASSUME f \in made PROVE MadeOK(f)'
    BY DEF MadeOK, Kept
  <2>1. recipe[f] \in Widths[f] /\ recipe[f] \in Nat \ {0}
    BY WidthFacts DEF FileOK, MadeOK
  <2>2. \A i \in 0..(recipe[f] - 1) : HasStrip(f, i)'
    BY <2>1, HomeServer DEF FileOK, MadeOK, HasStrip, Kept
  <2>3. \A b \in Bytes : StoredAt(f, recipe[f], b)' = StoredAt(f, recipe[f], b)
    <3> SUFFICES ASSUME NEW b \in Bytes PROVE StoredAt(f, recipe[f], b)' = StoredAt(f, recipe[f], b)
      OBVIOUS
    <3>1. Home(Strip(b, recipe[f])) \in Servers
      BY <2>1, StripFacts, HomeServer
    <3> QED BY <3>1 DEF StoredAt, Kept
  <2> QED BY <2>1, <2>2, <2>3 DEF FileOK, MadeOK, Kept
<1>3. \A c \in Clients : MakingOK(c, f)'
  <2> SUFFICES ASSUME NEW c \in Clients, Creates(c, f)' PROVE MakingOK(c, f)'
    BY DEF MakingOK
  <2>1. creation'[c] = creation[c] /\ Creates(c, f)
    BY DEF Kept, Creates
  <2>2. \A d \in Clients \ {c} : ~Creates(d, f)'
    BY <2>1 DEF FileOK, MakingOK, Kept, Creates
  <2>3. creation[c].next \in Nat
    BY DEF SInv, FTypes, CreationRecord
  <2>4. \A i \in 0..creation[c].next : Home(i) \in Servers
    BY SMTT(30), <2>3, HomeServer
  <2>5. \A i \in 0..(creation[c].next - 1) : HasStrip(f, i)' /\ disk'[Home(i)][f][i] = Empty
    BY <2>1, <2>3, <2>4 DEF FileOK, MakingOK, HasStrip, Kept
  <2>6. creation[c].pc = "strip" => files'[Home(creation[c].next)][f] # NoEntry
    BY <2>1, <2>3, <2>4 DEF FileOK, MakingOK, Kept
  <2> QED BY <2>1, <2>2, <2>5, <2>6 DEF FileOK, MakingOK, Kept
<1> QED BY <1>1, <1>2, <1>3 DEF FileOK

\* A client that calls has no creation in progress.
LEMMA FreeCreates ==
  ASSUME NEW c \in Clients, Free(c)
  PROVE  c \notin failed /\ \A f : ~Creates(c, f)
  BY NoTypes DEF Free, Creates

\* A new entry of the manager spoils the file or agrees with all servers.
LEMMA CreateFilePreserves ==
  ASSUME SInv, NEW c \in Clients, NEW f \in Names, NEW w \in Widths[f], CreateFile(c, f, w)
  PROVE  SInv'
<1>1. w \in Nat \ {0}
  BY WidthFacts
<1>2. PICK r : r = [pc |-> "table", name |-> f, width |-> w, next |-> 0]
  BY Zenon
<1>3. r \in CreationRecord /\ r.pc = "table" /\ r.name = f /\ r.width = w /\ r.next = 0
  BY <1>1, <1>2 DEF CreationRecord
<1>4. creation' = [creation EXCEPT ![c] = r]
  BY <1>2 DEF CreateFile
<1>5. creation'[c] = r /\ \A d \in Clients : d # c => creation'[d] = creation[d]
  BY <1>4 DEF SInv, FTypes
<1>6. FTypes'
  BY <1>1, <1>3, <1>4, NoTypes DEF SInv, FTypes, CreateFile
<1>7. \A d \in Clients : CreationOK(d)'
  BY <1>1, <1>3, <1>5 DEF SInv, CreationOK
<1>8. \A g \in Names : g # f /\ g \notin spoiled' => FileOK(g)'
  <2> SUFFICES ASSUME NEW g \in Names, g # f, g \notin spoiled' PROVE FileOK(g)'
    OBVIOUS
  <2>1. FileOK(g)
    BY DEF SInv, CreateFile
  <2>2. Kept(g)
    BY <1>3, <1>5 DEF SInv, FTypes, CreateFile, Kept, Creates
  <2> QED BY <2>1, <2>2, KeptOK
<1>9. f \notin spoiled' => FileOK(f)'
  <2> SUFFICES ASSUME f \notin spoiled' PROVE FileOK(f)'
    OBVIOUS
  <2>1. f \notin spoiled /\ \A s \in Servers : files[s][f] = NoEntry \/ files[s][f].width = w
    BY DEF CreateFile
  <2>2. FileOK(f) /\ recipe[f] = 0
    BY <2>1 DEF SInv, CreateFile
  <2>3. f \notin made
    BY <2>2, WidthFacts DEF FileOK, MadeOK
  <2>4. \A d \in Clients : ~Creates(d, f)
    BY <2>2, WidthFacts DEF FileOK, MakingOK, SInv, CreationOK, Creates
  <2>5. recipe'[f] = w /\ written'[f] = Empty /\ f \notin made'
    BY <2>3 DEF SInv, FTypes, CreateFile
  <2>6. WidthOK(f)' /\ MadeOK(f)'
    BY <2>1, <2>5 DEF WidthOK, MadeOK, CreateFile
  <2>7. MakingOK(c, f)'
    BY <1>3, <1>5, <2>4, <2>5 DEF MakingOK, Creates
  <2>8. \A d \in Clients : d # c => MakingOK(d, f)'
    BY <1>5, <2>4 DEF MakingOK, Creates
  <2> QED BY <2>6, <2>7, <2>8 DEF FileOK
<1>10. \A d \in Clients : HandleOK(d)'
  <2> SUFFICES ASSUME NEW d \in Clients, handle[d].open, handle[d].name \notin spoiled'
               PROVE  handle[d].name \in made' /\ handle[d].width = recipe'[handle[d].name]
    BY DEF HandleOK, CreateFile
  <2>1. handle[d].name \notin spoiled /\ handle[d].name \in Names
    BY DEF CreateFile, SInv, FTypes, HandleRecord
  <2>2. handle[d].name \in made /\ handle[d].width = recipe[handle[d].name]
    BY Zenon, <2>1 DEF SInv, HandleOK
  <2>3. recipe[handle[d].name] # 0
    BY <2>1, <2>2, WidthFacts DEF SInv, FileOK, MadeOK
  <2> QED BY <2>1, <2>2, <2>3 DEF SInv, FTypes, CreateFile
<1>11. RefusedOnlyIfSpoiled'
  BY DEF SInv, RefusedOnlyIfSpoiled, CreateFile
<1> QED BY <1>6, <1>7, <1>8, <1>9, <1>10, <1>11 DEF SInv

\* A client that opens a file is told its width, or spoils the file.
LEMMA OpenFilePreserves ==
  ASSUME SInv, NEW c \in Clients, NEW f \in Names, OpenFile(c, f)
  PROVE  SInv'
<1>1. PICK h : h = [open |-> TRUE, name |-> f, width |-> recipe[f]]
  BY Zenon
<1>2. h \in HandleRecord /\ h.name = f /\ h.width = recipe[f]
  BY <1>1 DEF SInv, FTypes, HandleRecord
<1>3. handle' = [handle EXCEPT ![c] = h] /\ UNCHANGED <<recipe, made, creation, files, disk, hung, failed, written>>
      /\ spoiled \subseteq spoiled' /\ spoiled' \subseteq Names /\ (f \notin spoiled' => f \in made)
      /\ c \notin failed
  BY <1>1, FreeCreates DEF OpenFile, SInv, FTypes
<1>4. FTypes'
  BY <1>2, <1>3 DEF SInv, FTypes
<1>5. \A d \in Clients : CreationOK(d)'
  BY <1>3 DEF SInv, CreationOK
<1>6. \A g \in Names : g \notin spoiled' => FileOK(g)'
  <2> SUFFICES ASSUME NEW g \in Names, g \notin spoiled' PROVE FileOK(g)'
    BY Zenon
  <2>1. FileOK(g) /\ Kept(g)
    BY ZenonT(30), <1>3 DEF SInv, Kept
  <2> QED BY <2>1, KeptOK
<1>7. \A d \in Clients : HandleOK(d)'
  <2>1. handle'[c] = h /\ \A d \in Clients : d # c => handle'[d] = handle[d]
    BY <1>3 DEF SInv, FTypes
  <2> QED BY <1>2, <1>3, <2>1 DEF SInv, HandleOK
<1>8. RefusedOnlyIfSpoiled'
  BY <1>3 DEF SInv, FTypes, RefusedOnlyIfSpoiled
<1> QED BY <1>4, <1>5, <1>6, <1>7, <1>8 DEF SInv

\* Closing gives up a handle.
LEMMA CloseFilePreserves ==
  ASSUME SInv, NEW c \in Clients, CloseFile(c)
  PROVE  SInv'
<1>1. handle' = [handle EXCEPT ![c] = NoHandle] /\ c \notin failed
      /\ UNCHANGED <<recipe, made, creation, files, disk, hung, failed, written, spoiled>>
  BY FreeCreates DEF CloseFile
<1>2. FTypes'
  BY <1>1, NoTypes DEF SInv, FTypes
<1>3. \A d \in Clients : CreationOK(d)'
  BY <1>1 DEF SInv, CreationOK
<1>4. \A g \in Names : g \notin spoiled' => FileOK(g)'
  <2> SUFFICES ASSUME NEW g \in Names, g \notin spoiled' PROVE FileOK(g)'
    OBVIOUS
  <2>1. FileOK(g) /\ Kept(g)
    BY <1>1 DEF SInv, Kept
  <2> QED BY <2>1, KeptOK
<1>5. \A d \in Clients : HandleOK(d)'
  <2>1. handle'[c] = NoHandle /\ \A d \in Clients : d # c => handle'[d] = handle[d]
    BY <1>1 DEF SInv, FTypes
  <2> QED BY <1>1, <2>1, NoTypes DEF SInv, HandleOK
<1>6. RefusedOnlyIfSpoiled'
  BY <1>1 DEF SInv, FTypes, RefusedOnlyIfSpoiled
<1> QED BY <1>2, <1>3, <1>4, <1>5, <1>6 DEF SInv

\* A deleted file leaves its strips behind, of the width they have.
LEMMA DeleteFilePreserves ==
  ASSUME SInv, NEW c \in Clients, NEW f \in Names, DeleteFile(c, f)
  PROVE  SInv'
<1>1. /\ recipe' = [recipe EXCEPT ![f] = 0] /\ made' = made \ {f}
      /\ \A d \in Clients : ~(handle[d].open /\ handle[d].name = f)
      /\ UNCHANGED <<creation, handle, files, disk, hung, failed, written>>
      /\ spoiled \subseteq spoiled' /\ spoiled' \subseteq Names /\ (f \notin spoiled' => f \in made)
  BY DEF DeleteFile, SInv, FTypes
<1>2. FTypes'
  BY ZenonT(30), <1>1 DEF SInv, FTypes
<1>3. \A d \in Clients : CreationOK(d)'
  BY <1>1 DEF SInv, CreationOK
<1>4. recipe'[f] = 0 /\ \A g \in Names : g # f => recipe'[g] = recipe[g]
  BY <1>1 DEF SInv, FTypes
<1>5. \A g \in Names : g # f /\ g \notin spoiled' => FileOK(g)'
  <2> SUFFICES ASSUME NEW g \in Names, g # f, g \notin spoiled' PROVE FileOK(g)'
    BY ZenonT(30)
  <2>1. FileOK(g) /\ Kept(g)
    BY <1>1, <1>4 DEF SInv, Kept
  <2> QED BY <2>1, KeptOK
<1>6. f \notin spoiled' => FileOK(f)'
  <2> SUFFICES ASSUME f \notin spoiled' PROVE FileOK(f)'
    OBVIOUS
  <2>1. f \notin spoiled /\ f \in made /\ FileOK(f)
    BY <1>1 DEF SInv
  <2>2. \A d \in Clients : ~Creates(d, f)'
    BY <1>1, <2>1 DEF FileOK, MakingOK, Creates
  <2> QED BY <1>1, <1>4, <2>2 DEF FileOK, WidthOK, MadeOK, MakingOK
<1>7. \A d \in Clients : HandleOK(d)'
  <2>1. \A d \in Clients : handle[d].name \in Names
    BY DEF SInv, FTypes, HandleRecord
  <2> QED BY <1>1, <1>4, <2>1 DEF SInv, HandleOK
<1>8. RefusedOnlyIfSpoiled'
  BY <1>1 DEF SInv, RefusedOnlyIfSpoiled
<1> QED BY <1>2, <1>3, <1>5, <1>6, <1>7, <1>8 DEF SInv

-----------------------------------------------------------------------------
\* A server enters the file with the width of the request.
LEMMA EnterFilePreserves ==
  ASSUME SInv, NEW c \in Clients, EnterFile(c)
  PROVE  SInv'
<1>1. PICK r \in CreationRecord : r = creation[c]
  BY DEF SInv, FTypes
<1>2. PICK f \in Names, w \in Nat, n \in Nat :
        f = r.name /\ w = r.width /\ n = r.next /\ w \in Widths[f] /\ n < w /\ Creates(c, f)
  BY <1>1 DEF EnterFile, SInv, CreationOK, CreationRecord, Creates
<1>3. PICK s \in Servers : s = Home(n)
  BY HomeServer
<1>4. w # 0
  BY <1>2, WidthFacts
<1>5. PICK e : e = [width |-> w, strips |-> {}]
  BY Zenon
<1>6. e \in EntryRecord /\ e.width = w /\ e.strips = {} /\ e # NoEntry
  BY <1>4, <1>5 DEF EntryRecord, NoEntry
<1>7. /\ files' = IF files[s][f] # NoEntry THEN files ELSE [files EXCEPT ![s][f] = e]
      /\ UNCHANGED <<recipe, made, handle, disk, hung, failed, written, spoiled>>
  BY <1>1, <1>2, <1>3, <1>5 DEF EnterFile
<1>8. PICK q : q = [r EXCEPT !.pc = "strip"]
  BY Zenon
<1>9. q \in CreationRecord /\ q.pc = "strip" /\ q.name = f /\ q.width = w /\ q.next = n
  <2>1. q \in CreationRecord
    BY Zenon, <1>8 DEF CreationRecord
  <2> QED BY <1>2, <1>8, <2>1 DEF CreationRecord
<1>10. creation' = [creation EXCEPT ![c] = q]
  BY <1>1, <1>8 DEF EnterFile
<1>11. creation'[c] = q /\ \A d \in Clients : d # c => creation'[d] = creation[d]
  BY <1>10 DEF SInv, FTypes
<1>12. \A t \in Servers, g \in Names :
         files'[t][g] = IF t = s /\ g = f /\ files[s][f] = NoEntry THEN e ELSE files[t][g]
  BY <1>7 DEF SInv, FTypes
<1>13. FTypes'
  <2>1. files' \in [Servers -> [Names -> EntryRecord]]
    BY ZenonT(30), <1>6, <1>7 DEF SInv, FTypes
  <2> QED BY Zenon, <1>7, <1>9, <1>10, <2>1 DEF SInv, FTypes
<1>14. \A d \in Clients : CreationOK(d)'
  BY <1>2, <1>9, <1>11 DEF SInv, CreationOK
<1>15. \A g \in Names : g # f /\ g \notin spoiled' => FileOK(g)'
  <2> SUFFICES ASSUME NEW g \in Names, g # f, g \notin spoiled' PROVE FileOK(g)'
    OBVIOUS
  <2>1. FileOK(g)
    BY <1>7 DEF SInv
  <2>2. Kept(g)
    BY SMTT(30), <1>7, <1>9, <1>11, <1>12 DEF Kept, Creates
  <2> QED BY <2>1, <2>2, KeptOK
<1>16. f \notin spoiled' => FileOK(f)'
  <2> SUFFICES ASSUME f \notin spoiled' PROVE FileOK(f)'
    OBVIOUS
  <2>1. FileOK(f)
    BY Zenon, <1>7 DEF SInv
  <2>2. /\ recipe[f] = w /\ f \notin made /\ written[f] = Empty
        /\ \A i \in 0..(n - 1) : HasStrip(f, i) /\ disk[Home(i)][f][i] = Empty
        /\ \A d \in Clients \ {c} : ~Creates(d, f)
    BY <1>1, <1>2, <2>1 DEF FileOK, MakingOK
  <2>3. WidthOK(f)'
    BY <1>6, <1>7, <1>12, <2>1, <2>2 DEF FileOK, WidthOK
  <2>4. MadeOK(f)'
    BY Zenon, <1>7, <2>2 DEF MadeOK
  <2>5. \A d \in Clients : d # c => ~Creates(d, f)'
    BY <1>11, <2>2 DEF Creates
  <2>6. MakingOK(c, f)'
    <3>1. \A i \in 0..(n - 1) : HasStrip(f, i)'
      <4> SUFFICES ASSUME NEW i \in 0..(n - 1) PROVE HasStrip(f, i)'
        OBVIOUS
      <4>1. Home(i) \in Servers
        BY HomeServer
      <4>2. i \in files[Home(i)][f].strips
        BY <2>2 DEF HasStrip
      <4>3. files[Home(i)][f] # NoEntry
        BY <4>2, NoTypes
      <4> QED BY <1>12, <4>1, <4>2, <4>3 DEF HasStrip
    <3>2. files'[s][f] # NoEntry
      BY <1>6, <1>12
    <3> QED BY <1>3, <1>7, <1>9, <1>11, <2>2, <2>5, <3>1, <3>2 DEF MakingOK
  <2> QED BY <2>3, <2>4, <2>5, <2>6 DEF FileOK, MakingOK
<1>17. \A d \in Clients : HandleOK(d)'
  BY <1>7 DEF SInv, HandleOK
<1>18. RefusedOnlyIfSpoiled'
  BY Zenon, <1>7 DEF SInv, RefusedOnlyIfSpoiled
<1> QED BY <1>13, <1>14, <1>15, <1>16, <1>17, <1>18 DEF SInv

\* The strip is empty now, and after the last one the file is made.
LEMMA AddStripPreserves ==
  ASSUME SInv, NEW c \in Clients, AddStrip(c)
  PROVE  SInv'
<1>1. PICK r \in CreationRecord : r = creation[c]
  BY DEF SInv, FTypes
<1>2. PICK f \in Names, w \in Nat, n \in Nat :
        f = r.name /\ w = r.width /\ n = r.next /\ w \in Widths[f] /\ n < w /\ Creates(c, f)
  BY <1>1 DEF AddStrip, SInv, CreationOK, CreationRecord, Creates
<1>3. PICK s \in Servers : s = Home(n)
  BY HomeServer
<1>4. w \in Nat \ {0} /\ n \in StripIds
  BY <1>2, WidthFacts
<1>5. PICK e : e = [files[s][f] EXCEPT !.strips = @ \union {n}]
  BY Zenon
<1>6. e \in EntryRecord /\ e.width = files[s][f].width /\ e.strips = files[s][f].strips \union {n}
  <2>1. files[s][f] \in EntryRecord
    BY DEF SInv, FTypes
  <2>2. PICK V \in SUBSET StripIds : V = files[s][f].strips \union {n}
    BY Zenon, <1>4, <2>1 DEF EntryRecord
  <2>3. e = [files[s][f] EXCEPT !.strips = V]
    BY <1>5, <2>2
  <2>4. e \in EntryRecord
    BY Zenon, <2>1, <2>3 DEF EntryRecord
  <2> QED BY <2>1, <2>2, <2>3, <2>4 DEF EntryRecord
<1>7. /\ files' = [files EXCEPT ![s] = [files[s] EXCEPT ![f] = e]]
      /\ disk' = [disk EXCEPT ![s] = [disk[s] EXCEPT ![f] = [disk[s][f] EXCEPT ![n] = Empty]]]
      /\ UNCHANGED <<recipe, handle, hung, failed, written, spoiled>>
  BY Zenon, <1>1, <1>2, <1>3, <1>5 DEF AddStrip
<1>8. PICK q : q = IF n + 1 = w THEN NoCreation ELSE [r EXCEPT !.pc = "table", !.next = @ + 1]
  OBVIOUS
<1>9. /\ q \in CreationRecord
      /\ n + 1 = w => q.pc = "none"
      /\ n + 1 # w => q.pc = "table" /\ q.name = f /\ q.width = w /\ q.next = n + 1
  <2>1. CASE n + 1 = w
    BY <1>8, <2>1, NoTypes
  <2>2. CASE n + 1 # w
    <3>1. PICK m \in Nat : m = n + 1
      OBVIOUS
    <3>2. q = [r EXCEPT !.pc = "table", !.next = m]
      BY <1>2, <1>8, <2>2, <3>1
    <3>3. q \in CreationRecord
      BY ZenonT(30), <3>2 DEF CreationRecord
    <3> QED BY <1>2, <2>2, <3>1, <3>2, <3>3 DEF CreationRecord
  <2> QED BY <2>1, <2>2
<1>10. /\ creation' = [creation EXCEPT ![c] = q]
       /\ made' = IF n + 1 = w THEN made \union {f} ELSE made
  BY <1>1, <1>2, <1>8 DEF AddStrip, LastStrip
<1>11. creation'[c] = q /\ \A d \in Clients : d # c => creation'[d] = creation[d]
  BY <1>10 DEF SInv, FTypes
<1>12. \A t \in Servers, g \in Names :
         files'[t][g] = IF t = s /\ g = f THEN e ELSE files[t][g]
  BY <1>7 DEF SInv, FTypes
<1>13. \A t \in Servers, g \in Names, i \in StripIds :
         disk'[t][g][i] = IF t = s /\ g = f /\ i = n THEN Empty ELSE disk[t][g][i]
  BY <1>7 DEF SInv, FTypes
<1>14. FTypes'
  <2>1. files' \in [Servers -> [Names -> EntryRecord]]
    BY <1>6, <1>7 DEF SInv, FTypes
  <2>2. disk' \in [Servers -> [Names -> [StripIds -> Contents]]]
    BY <1>4, <1>7, NoTypes DEF SInv, FTypes
  <2>3. made' \subseteq Names
    BY <1>10 DEF SInv, FTypes
  <2> QED BY ZenonT(30), <1>7, <1>9, <1>10, <2>1, <2>2, <2>3 DEF SInv, FTypes
<1>15. \A d \in Clients : CreationOK(d)'
  BY <1>2, <1>9, <1>11 DEF SInv, CreationOK
<1>16. \A g \in Names : g # f /\ g \notin spoiled' => FileOK(g)'
  <2> SUFFICES ASSUME NEW g \in Names, g # f, g \notin spoiled' PROVE FileOK(g)'
    OBVIOUS
  <2>1. FileOK(g)
    BY <1>7 DEF SInv
  <2>2. \A t \in Servers : files'[t][g] = files[t][g] /\ disk'[t][g] = disk[t][g]
    BY <1>7 DEF SInv, FTypes
  <2>3. Kept(g)
    BY <1>7, <1>9, <1>10, <1>11, <2>2 DEF Kept, Creates
  <2> QED BY <2>1, <2>3, KeptOK
<1>17. f \notin spoiled' => FileOK(f)'
  <2> SUFFICES ASSUME f \notin spoiled' PROVE FileOK(f)'
    OBVIOUS
  <2>1. FileOK(f)
    BY Zenon, <1>7 DEF SInv
  <2>2. /\ recipe[f] = w /\ f \notin made /\ written[f] = Empty
        /\ \A i \in 0..(n - 1) : HasStrip(f, i) /\ disk[Home(i)][f][i] = Empty
        /\ files[s][f] # NoEntry
        /\ \A d \in Clients \ {c} : ~Creates(d, f)
    BY Zenon, <1>1, <1>2, <1>3, <2>1 DEF FileOK, MakingOK, AddStrip
  <2>3. WidthOK(f)'
    BY <1>4, <1>6, <1>7, <1>12, <2>1, <2>2 DEF FileOK, WidthOK
  <2>4. \A i \in 0..n : HasStrip(f, i)' /\ disk'[Home(i)][f][i] = Empty
    <3> SUFFICES ASSUME NEW i \in 0..n
                 PROVE  HasStrip(f, i)' /\ disk'[Home(i)][f][i] = Empty
      OBVIOUS
    <3>1. Home(i) \in Servers
      BY HomeServer
    <3>2. i \in StripIds
      BY <1>2, WidthFacts
    <3>3. CASE i = n
      BY <1>3, <1>6, <1>12, <1>13, <3>1, <3>2, <3>3 DEF HasStrip
    <3>4. CASE i # n
      <4>1. HasStrip(f, i) /\ disk[Home(i)][f][i] = Empty
        BY <2>2, <3>4
      <4> QED BY <1>6, <1>12, <1>13, <3>1, <3>2, <4>1 DEF HasStrip
    <3> QED BY <3>3, <3>4
  <2>5. MadeOK(f)'
    <3> SUFFICES ASSUME n + 1 = w PROVE MadeOK(f)'
      BY <1>10, <2>2 DEF MadeOK
    <3>1. ASSUME NEW b \in Bytes PROVE StoredAt(f, w, b)' = Hole
      <4>1. Strip(b, w) \in 0..n /\ StripOffset(b, w) \in Bytes
        BY <1>4, StripFacts
      <4>2. disk'[Home(Strip(b, w))][f][Strip(b, w)] = Empty
        BY <2>4, <4>1
      <4> QED BY <4>1, <4>2 DEF StoredAt, Empty
    <3>2. \A b \in Bytes : written'[f][b] = Hole
      BY Zenon, <1>7, <2>2 DEF Empty
    <3> QED BY SMTT(30), <1>2, <1>7, <2>2, <2>4, <3>1, <3>2 DEF MadeOK
  <2>6. \A d \in Clients : d # c => ~Creates(d, f)'
    BY Zenon, <1>11, <2>2 DEF Creates
  <2>7. MakingOK(c, f)'
    <3> SUFFICES ASSUME n + 1 # w PROVE MakingOK(c, f)'
      BY <1>9, <1>11 DEF MakingOK, Creates
    <3> QED BY SMTT(30), <1>7, <1>9, <1>10, <1>11, <2>2, <2>4, <2>6 DEF MakingOK
  <2> QED BY <2>3, <2>5, <2>6, <2>7 DEF FileOK, MakingOK
<1>18. \A d \in Clients : HandleOK(d)'
  BY <1>7, <1>10 DEF SInv, HandleOK
<1>19. RefusedOnlyIfSpoiled'
  BY <1>7 DEF SInv, RefusedOnlyIfSpoiled
<1> QED BY <1>14, <1>15, <1>16, <1>17, <1>18, <1>19 DEF SInv

\* A client is refused only a file that is spoiled.
LEMMA RefusedPreserves ==
  ASSUME SInv, NEW c \in Clients, NEW a \in Addrs, Refused(c, a)
  PROVE  SInv'
<1>1. handle[c].open /\ ~Served(handle[c].name, handle[c].width, a)
      /\ failed' = failed \union {c}
      /\ UNCHANGED <<recipe, made, creation, handle, files, disk, written, spoiled>>
  BY Zenon DEF Refused, Reaches
<1>2. handle[c].name \in spoiled
  <2> SUFFICES ASSUME handle[c].name \notin spoiled PROVE FALSE
    BY Zenon
  <2>1. PICK f \in made : f = handle[c].name /\ f \notin spoiled /\ handle[c].width = recipe[f]
    BY Zenon, <1>1 DEF SInv, HandleOK
  <2>2. a \in Bytes /\ a \in Nat /\ a % BlockSize = 0
    BY SMTT(30), ServersAssumption DEF Addrs, Bytes
  <2>3. Served(f, recipe[f], a)
    BY <2>1, <2>2, MadeServed, BlocksWithinStripe DEF Served
  <2> QED BY <1>1, <2>1, <2>3
<1>3. FTypes'
  BY Zenon, <1>1 DEF SInv, FTypes
<1>4. \A d \in Clients : CreationOK(d)' /\ HandleOK(d)'
  BY <1>1 DEF SInv, CreationOK, HandleOK
<1>5. \A g \in Names : g \notin spoiled' => FileOK(g)'
  <2> SUFFICES ASSUME NEW g \in Names, g \notin spoiled' PROVE FileOK(g)'
    BY Zenon
  <2>1. FileOK(g) /\ Kept(g)
    BY <1>1 DEF SInv, Kept
  <2> QED BY <2>1, KeptOK
<1>6. RefusedOnlyIfSpoiled'
  BY <1>1, <1>2 DEF SInv, RefusedOnlyIfSpoiled
<1> QED BY <1>3, <1>4, <1>5, <1>6 DEF SInv

\* A write changes the bytes that the client means, and no other.
LEMMA WriteBlockPreserves ==
  ASSUME SInv, NEW c \in Clients, NEW a \in Addrs, NEW v \in Values,
         NEW dirty \in SUBSET (0..(BlockSize - 1)), WriteBlock(c, a, dirty, v)
  PROVE  SInv'
<1>1. PICK f \in Names, w \in Nat : f = handle[c].name /\ w = handle[c].width
  BY DEF SInv, FTypes, HandleRecord
<1>2. PICK width : width = Entry(f, w, a).width
  BY SMTT(30)
<1>3. /\ handle[c].open
      /\ disk' = [disk EXCEPT ![FileServerIndex(a, w)] = [disk[FileServerIndex(a, w)] EXCEPT ![f] =
           [disk[FileServerIndex(a, w)][f] EXCEPT ![Strip(a, width)] =
              [o \in Bytes |-> IF o - StripOffset(a, width) \in dirty THEN v
                ELSE disk[FileServerIndex(a, w)][f][Strip(a, width)][o]]]]]
      /\ written' = [written EXCEPT ![f] =
           [b \in Bytes |-> IF b - a \in dirty /\ f \notin spoiled THEN v ELSE written[f][b]]]
      /\ UNCHANGED <<recipe, made, creation, handle, files, hung, failed, spoiled>>
  BY Zenon, <1>1, <1>2 DEF WriteBlock, Reaches
<1>4. a \in Bytes /\ a \in Nat /\ a % BlockSize = 0
  BY SMTT(30), ServersAssumption DEF Addrs, Bytes
<1>5. written' \in [Names -> Contents] /\ \A g \in Names : g # f => written'[g] = written[g]
  BY <1>3 DEF SInv, FTypes, Contents
<1>6. disk' \in [Servers -> [Names -> [StripIds -> Contents]]]
  <2>1. PICK s, i, new :
          /\ s = FileServerIndex(a, w) /\ i = Strip(a, width)
          /\ new = [o \in Bytes |-> IF o - StripOffset(a, width) \in dirty THEN v
                                   ELSE disk[s][f][i][o]]
    BY Zenon
  <2>2. disk' = [disk EXCEPT ![s] = [disk[s] EXCEPT ![f] = [disk[s][f] EXCEPT ![i] = new]]]
    BY <1>3, <2>1
  <2>3. disk \in [Servers -> [Names -> [StripIds -> Contents]]]
    BY DEF SInv, FTypes
  <2>4. CASE s \in Servers /\ i \in StripIds
    <3>1. disk[s][f][i] \in Contents
      BY SMTT(30), <2>3, <2>4
    <3>2. new \in Contents
      BY <2>1, <3>1 DEF Contents
    <3> QED BY <2>2, <2>3, <2>4, <3>2
  <2>5. CASE s \in Servers /\ i \notin StripIds
    <3>1. disk[s][f] \in [StripIds -> Contents]
      BY <2>3, <2>5
    <3>2. [disk[s][f] EXCEPT ![i] = new] = disk[s][f]
      BY <2>5, <3>1
    <3>3. [disk[s] EXCEPT ![f] = disk[s][f]] \in [Names -> [StripIds -> Contents]]
      BY <2>3, <2>5
    <3>4. disk' = [disk EXCEPT ![s] = [disk[s] EXCEPT ![f] = disk[s][f]]]
      BY Zenon, <2>2, <3>2
    <3> QED BY <2>3, <2>5, <3>3, <3>4
  <2>6. CASE s \notin Servers
    BY Zenon, <2>2, <2>3, <2>6
  <2> QED BY SMTT(30), <2>4, <2>5, <2>6
<1>7. \A s \in Servers, g \in Names : g # f => disk'[s][g] = disk[s][g]
  BY <1>3 DEF SInv, FTypes
<1>8. FTypes'
  BY <1>3, <1>5, <1>6 DEF SInv, FTypes
<1>9. \A d \in Clients : CreationOK(d)' /\ HandleOK(d)'
  BY <1>3 DEF SInv, CreationOK, HandleOK
<1>10. \A g \in Names : g # f /\ g \notin spoiled' => FileOK(g)'
  <2> SUFFICES ASSUME NEW g \in Names, g # f, g \notin spoiled' PROVE FileOK(g)'
    OBVIOUS
  <2>1. FileOK(g)
    BY <1>3 DEF SInv
  <2>2. Kept(g)
    BY <1>3, <1>5, <1>7 DEF Kept
  <2> QED BY <2>1, <2>2, KeptOK
<1>11. f \notin spoiled' => FileOK(f)'
  <2> SUFFICES ASSUME f \notin spoiled' PROVE FileOK(f)'
    BY SMTT(30)
  <2>1. f \notin spoiled /\ FileOK(f) /\ f \in made /\ w = recipe[f]
    BY ZenonT(30), <1>1, <1>3 DEF SInv, HandleOK
  <2>2. w \in Nat \ {0} /\ w \in Widths[f] /\ width = w
    BY Zenon, <1>2, <1>4, <2>1, MadeServed, WidthFacts DEF FileOK, MadeOK
  <2>3. PICK i \in StripIds, s \in Servers, o \in Bytes :
          /\ i = Strip(a, w) /\ s = Home(i) /\ o = StripOffset(a, w)
          /\ FileServerIndex(a, w) = s
    BY Zenon, <1>4, <2>2, BytePlace
  <2>4. PICK new : new = [x \in Bytes |-> IF x - o \in dirty THEN v ELSE disk[s][f][i][x]]
    BY ZenonT(30)
  <2>5. disk' = [disk EXCEPT ![s] = [disk[s] EXCEPT ![f] = [disk[s][f] EXCEPT ![i] = new]]]
    BY <1>3, <2>2, <2>3, <2>4
  <2>6. \A t \in Servers, k \in StripIds :
          disk'[t][f][k] = IF t = s /\ k = i THEN new ELSE disk[t][f][k]
    BY <2>5 DEF SInv, FTypes
  <2>7. WidthOK(f)'
    BY Zenon, <1>3, <2>1 DEF FileOK, WidthOK
  <2>8. MadeOK(f)'
    <3>1. ASSUME NEW b \in Bytes PROVE StoredAt(f, w, b)' = written'[f][b]
      <4>1. PICK k \in StripIds, t \in Servers, x \in Bytes :
              /\ k = Strip(b, w) /\ t = Home(k) /\ x = StripOffset(b, w)
        BY Zenon, <2>2, BytePlace
      <4>2. StoredAt(f, w, b)' = IF k = i THEN new[x] ELSE disk[t][f][k][x]
        BY SMTT(30), <2>3, <2>6, <4>1 DEF StoredAt
      <4>3. disk[t][f][k][x] = written[f][b]
        BY Zenon, <2>1, <4>1 DEF FileOK, MadeOK, StoredAt
      <4>4. written'[f][b] = IF b - a \in dirty THEN v ELSE written[f][b]
        BY <1>3, <2>1 DEF SInv, FTypes
      <4>5. (k = i /\ x - o \in dirty) <=> b - a \in dirty
        <5>1. b \in Nat /\ x \in Nat /\ o \in Nat /\ BlockSize \in Nat
          BY SMTT(30), ServersAssumption, PlacementAssumption DEF Bytes
        <5>2. ASSUME NEW d \in 0..(BlockSize - 1)
              PROVE  (k = i /\ x = o + d) <=> b = a + d
          BY <1>4, <2>2, <2>3, <4>1, <5>1, PlacementExact
        <5>3. ASSUME k = i, x - o \in dirty PROVE b - a \in dirty
          <6>1. PICK d \in 0..(BlockSize - 1) : d = x - o
            BY Zenon, <5>3
          <6>2. x = o + d
            BY <5>1, <6>1
          <6>3. b = a + d
            BY <5>2, <5>3, <6>2
          <6>4. b - a = d
            BY <1>4, <5>1, <6>3
          <6> QED BY <5>3, <6>1, <6>4
        <5>4. ASSUME b - a \in dirty PROVE k = i /\ x - o \in dirty
          <6>1. PICK d \in 0..(BlockSize - 1) : d = b - a
            BY ZenonT(30), <5>4
          <6>2. b = a + d
            BY <1>4, <5>1, <6>1
          <6>3. k = i /\ x = o + d
            BY <5>2, <6>2
          <6>4. x - o = d
            BY <5>1, <6>3
          <6> QED BY <5>4, <6>1, <6>3, <6>4
        <5> QED BY <5>3, <5>4
      <4>6. k = i => t = s
        BY Zenon, <2>3, <4>1
      <4>7. new[x] = IF x - o \in dirty THEN v ELSE disk[s][f][i][x]
        BY Zenon, <2>4
      <4> QED BY Zenon, <4>2, <4>3, <4>4, <4>5, <4>6, <4>7
    <3>2. \A j \in 0..(recipe[f] - 1) : HasStrip(f, j)'
      BY Zenon, <1>3, <2>1 DEF FileOK, MadeOK, HasStrip
    <3> QED BY Zenon, <1>3, <2>1, <2>2, <3>1, <3>2 DEF MadeOK
  <2>9. \A d \in Clients : MakingOK(d, f)'
    BY <1>3, <2>1 DEF FileOK, MakingOK, Creates
  <2> QED BY <2>7, <2>8, <2>9 DEF FileOK
<1>12. RefusedOnlyIfSpoiled'
  BY <1>3 DEF SInv, RefusedOnlyIfSpoiled
<1> QED BY <1>8, <1>9, <1>10, <1>11, <1>12 DEF SInv

-----------------------------------------------------------------------------
\* Steps of others.
LEMMA StutterSInv ==
  ASSUME SInv, UNCHANGED serverVars
  PROVE  SInv'
<1>1. FTypes' /\ RefusedOnlyIfSpoiled'
  BY Zenon DEF SInv, FTypes, RefusedOnlyIfSpoiled, serverVars
<1>2. \A d \in Clients : CreationOK(d)' /\ HandleOK(d)'
  BY DEF SInv, CreationOK, HandleOK, serverVars
<1>3. \A g \in Names : g \notin spoiled' => FileOK(g)'
  <2> SUFFICES ASSUME NEW g \in Names, g \notin spoiled' PROVE FileOK(g)'
    BY Zenon
  <2>1. FileOK(g) /\ Kept(g)
    BY DEF SInv, Kept, serverVars
  <2> QED BY <2>1, KeptOK
<1> QED BY <1>1, <1>2, <1>3 DEF SInv

\* Every step keeps the invariant.
LEMMA NextSInv == SInv /\ [ServersNext]_serverVars => SInv'
<1> SUFFICES ASSUME SInv, [ServersNext]_serverVars PROVE SInv'
  OBVIOUS
<1>1. CASE UNCHANGED serverVars
  BY Zenon, <1>1, StutterSInv
<1>2. CASE ServersNext
  <2> PICK c \in Clients :
        \/ EnterFile(c) \/ AddStrip(c) \/ CloseFile(c)
        \/ \E f \in Names : OpenFile(c, f) \/ DeleteFile(c, f)
        \/ \E f \in Names : \E w \in Widths[f] : CreateFile(c, f, w)
        \/ \E a \in Addrs : ReadBlock(c, a) \/ Refused(c, a)
        \/ \E a \in Addrs, v \in Values, dirty \in SUBSET (0..(BlockSize - 1)) \ {{}} :
             WriteBlock(c, a, dirty, v)
    BY ZenonT(30), <1>2 DEF ServersNext
  <2>1. CASE EnterFile(c) \/ AddStrip(c) \/ CloseFile(c)
    BY Zenon, <2>1, EnterFilePreserves, AddStripPreserves, CloseFilePreserves
  <2>2. CASE \E f \in Names : OpenFile(c, f) \/ DeleteFile(c, f)
    BY Zenon, <2>2, OpenFilePreserves, DeleteFilePreserves
  <2>3. CASE \E f \in Names : \E w \in Widths[f] : CreateFile(c, f, w)
    BY Zenon, <2>3, CreateFilePreserves
  <2>4. CASE \E a \in Addrs : ReadBlock(c, a) \/ Refused(c, a)
    BY Zenon, <2>4, StutterSInv, RefusedPreserves DEF ReadBlock
  <2>5. CASE \E a \in Addrs, v \in Values, dirty \in SUBSET (0..(BlockSize - 1)) \ {{}} :
               WriteBlock(c, a, dirty, v)
    BY Zenon, <2>5, WriteBlockPreserves
  <2> QED BY Zenon, <2>1, <2>2, <2>3, <2>4, <2>5
<1> QED BY <1>1, <1>2

(***************************************************************************)
(* No request for a file that was made before it was opened, and always    *)
(* with the same width, is ever refused, so neither the client's           *)
(* assertions nor the lock that ReadBlock and WriteBlock leave held bite.  *)
(***************************************************************************)
THEOREM NotRefused == ServersSafety => []RefusedOnlyIfSpoiled
<1>1. SInv => RefusedOnlyIfSpoiled
  BY ZenonT(30) DEF SInv
<1> QED BY <1>1, InitSInv, NextSInv, PTL DEF ServersSafety

\* The servers together store each file: a read returns the last write.
THEOREM StripesAreFile == ServersSafety => []ReadsReturnWrites
<1>1. SInv => ReadsReturnWrites
  <2> SUFFICES ASSUME SInv, NEW f \in made, f \notin spoiled, NEW b \in Bytes
               PROVE  Stored(f, recipe[f], b) = written[f][b]
    BY ZenonT(30) DEF ReadsReturnWrites
  <2>1. Stored(f, recipe[f], b) = StoredAt(f, recipe[f], b)
    BY MadeServed
  <2>2. FileOK(f)
    BY DEF SInv, FTypes
  <2> QED BY <2>1, <2>2 DEF FileOK, MadeOK
<1> QED BY <1>1, InitSInv, NextSInv, PTL DEF ServersSafety
=============================================================================
