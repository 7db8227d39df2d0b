CONSTANTS
  Conns <- MCConns
  WsConns <- MCWsConns
  MaxAsked = 2
  MayReject = TRUE
SPECIFICATION Spec
\* The programs end.
CHECK_DEADLOCK FALSE
INVARIANTS
  DiesOnlyMisled
  SessionsSound
  InPlace
PROPERTIES
  EveryRequestAnswered
  Stops
