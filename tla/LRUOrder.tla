------------------------------ MODULE LRUOrder ------------------------------
(***************************************************************************)
(* What a list of the cache promises: its nodes in the order of their last *)
(* use, most recent first, of which any one or the oldest can be removed.  *)
(***************************************************************************)
EXTENDS SequencesExt

CONSTANT Nodes

VARIABLE order

Init == order = <<>>

Use(n) == n \notin ToSet(order) /\ order' = Cons(n, order)

Drop(n) == n \in ToSet(order) /\ order' = RemoveFirst(order, n)

DropOldest == order # <<>> /\ order' = Front(order)

Next == (\E n \in Nodes : Use(n) \/ Drop(n)) \/ DropOldest

Spec == Init /\ [][Next]_order
=============================================================================
