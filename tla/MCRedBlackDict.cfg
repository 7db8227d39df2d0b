SPECIFICATION AnySpec
CONSTANTS
  a1 = a1
  a2 = a2
  b1 = b1
  b2 = b2
  c1 = c1
  c2 = c2
  Nodes <- MCNodes
  Key <- MCKey
  Dupes = TRUE
  NIL = NIL
  NULL = NULL
  MaxLoaded = 5
SYMMETRY SameKey
INVARIANTS
  LinksSound
  RoundsSound
  ReadsRight
PROPERTIES
  KeepsOrder
