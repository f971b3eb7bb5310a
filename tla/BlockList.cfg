SPECIFICATION ListSpec
CONSTANTS
  Nodes = {n1, n2, n3, n4, n5}
  Null = null
INVARIANTS
  ListLinked
  AssertsHold
PROPERTY ImplementsLRUOrder
