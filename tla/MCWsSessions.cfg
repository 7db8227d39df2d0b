SPECIFICATION FairSpec
CONSTANTS
  t1 = t1
  t2 = t2
  t3 = t3
  NoOne = NoOne
  Threads <- MCThreads
  Main = t1
  Conns = {3, 7}
  NDEBUG = TRUE
  AllocMayFail = TRUE
  MaxNodes = 2
INVARIANTS
  TypeOK
  OnlyOwnerInside
  NothingStale
PROPERTIES
  TakesEffectAtOnce
  MutexGivenBack
\* The process may crash.
CHECK_DEADLOCK FALSE
