SPECIFICATION Spec
CONSTANTS
  NULL = NULL
  NotAnObject = NotAnObject
  Requests <- MCRequests
  JsonOf <- MCJsonOf
  HeaderKeys <- MCHeaderKeys
  MayCut = TRUE
  AllocMayFail = TRUE
  Unset <- MCUnset
  MaxSent = 1
  MaxLost = 1
\* The process stops when it reads a null pointer.
CHECK_DEADLOCK FALSE
INVARIANTS
  HeapSound
  ParsesRight
  AnswersRight
  RepliesAddressed
