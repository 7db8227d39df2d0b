SPECIFICATION Spec
CONSTANTS
  Conns <- MCConns
  WsConns <- MCWsConns
  Posters <- MCPosters
  NDEBUG = FALSE
  AllocMayFail = FALSE
  PubMayDrop = FALSE
  MaxQueue = 3
  MaxRestarts = 0
\* Once every client has left the handler polls for ever.
CHECK_DEADLOCK FALSE
INVARIANTS
  TableSound
  NothingOutOfPlace
PROPERTIES
  HandshakeAnswered
  ClosedForgotten
