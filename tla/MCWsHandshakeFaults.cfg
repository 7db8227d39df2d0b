SPECIFICATION Spec
CONSTANTS
  Conns = {3, 5}
  WsConns = {3}
  Posters = {}
  NDEBUG = TRUE
  AllocMayFail = TRUE
  PubMayDrop = TRUE
  MaxQueue = 3
  MaxRestarts = 1
PROPERTIES
  ClosedForgotten
\* The process may crash.
CHECK_DEADLOCK FALSE
