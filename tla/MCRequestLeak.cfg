SPECIFICATION Spec
CONSTANTS
  NULL = NULL
  NotAnObject = NotAnObject
  Requests <- MCRequests
  JsonOf <- MCJsonOf
  HeaderKeys <- MCHeaderKeys
  MayCut = FALSE
  AllocMayFail = FALSE
  Unset <- MCUnset
  MaxSent = 1
  MaxLost = 1
INVARIANTS
  PayloadReleased
