----------------------------- MODULE Placement -----------------------------
(***************************************************************************)
(* Where the bytes of a striped file are: the arithmetic that clients,     *)
(* metadata manager and file servers each do on their own and must agree   *)
(* on.  Stripe unit i of a file of width w belongs to strip i % w, and a   *)
(* strip is one file at one server.                                        *)
(***************************************************************************)
EXTENDS Integers

CONSTANTS
  NumServers,  \* NUM_FILE_SERVERS
  StripeSize,  \* STRIP_SIZE * pfsBlockSizeInBytes, the bytes of a stripe unit
  BlockSize    \* pfsBlockSizeInBytes

ASSUME PlacementAssumption ==
  /\ NumServers \in Nat \ {0} /\ StripeSize \in Nat \ {0} /\ BlockSize \in Nat \ {0}
  /\ StripeSize % BlockSize = 0

Servers == 0..(NumServers - 1)

\* The server at which the metadata manager creates strip i.
Home(i) == i % NumServers

StripeIndex(addr) == addr \div StripeSize

\* The strip of a byte, as the server computes it.
Strip(addr, width) == StripeIndex(addr) % width

\* Mutant: the client forgets that stripes wrap at the stripe width.
MutNoWidth(addr, width) == StripeIndex(addr) % NumServers

\* The server a client asks for a byte.
FileServerIndex(addr, width) == Strip(addr, width) % NumServers

\* The bytes of the file before addr that are not in its strip.
FileOffset(addr, width) ==
  LET index == StripeIndex(addr)
  IN ((index - (index % width)) \div width) * (width - 1) * StripeSize
       + (index % width) * StripeSize

\* The offset of a byte in the file that holds its strip.
StripOffset(addr, width) == addr - FileOffset(addr, width)

\* A block that starts here lies within one stripe unit.
WithinStripe(addr) ==
  addr + BlockSize <= ((addr + StripeSize) \div StripeSize) * StripeSize
=============================================================================
