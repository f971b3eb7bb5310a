----------------------------- MODULE ByteTokens -----------------------------
(***************************************************************************)
(* What the token manager promises for one file: every peer has a right on *)
(* every byte (0 none, 1 read, 2 write), a writer of a byte is alone on    *)
(* it.  The manager may forget rights it was not asked to revoke, never    *)
(* invent any.                                                             *)
(***************************************************************************)
EXTENDS Naturals

CONSTANTS Peers, MaxOffset

VARIABLE rights

Bytes == 0..(MaxOffset - 1)

Init == rights = [p \in Peers |-> [b \in Bytes |-> 0]]

\* p gives everything up.
Release(p) == rights' = [rights EXCEPT ![p] = [b \in Bytes |-> 0]]

(***************************************************************************)
(* p gets the mode m on the bytes from..to-1, and every other peer that    *)
(* stands in the way loses its right there.                                *)
(***************************************************************************)
Acquire(p, from, to, m) ==
  LET asked(b) == from <= b /\ b < to
  IN /\ rights' \in [Peers -> [Bytes -> 0..2]]
     /\ \A b \in Bytes :
          /\ asked(b) => rights'[p][b] >= m
          /\ rights'[p][b] <= rights[p][b] \/ (asked(b) /\ rights'[p][b] <= m)
     /\ \A q \in Peers \ {p} : \A b \in Bytes :
          /\ rights'[q][b] <= rights[q][b]
          /\ asked(b) /\ (m = 2 \/ rights[q][b] = 2) => rights'[q][b] = 0

Next ==
  \E p \in Peers :
    \/ Release(p)
    \/ \E from, to \in 0..MaxOffset, m \in 1..2 : Acquire(p, from, to, m)

Spec == Init /\ [][Next]_rights
=============================================================================
