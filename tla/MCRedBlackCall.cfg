SPECIFICATION CallSpec
CONSTANTS
  Nodes <- MCNodes
  Key <- MCKey
  Dupes = FALSE
  NIL = NIL
  NULL = NULL
  MaxLoaded = 16
\* The call has ended.
CHECK_DEADLOCK FALSE
INVARIANTS
  RoundsSound
  ReadsRight
PROPERTIES
  StepsKeepOrder
  Returns
