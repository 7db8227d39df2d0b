CONSTANTS
  Quantum = 2
  ReadStep = 1
  FormatStep = 1
  FindCount = 2
  BS_BUFF_SZ = 2
  BSSSC_BUFF_LEN = 2
  MaxLen = 3
  Texts <- MCTexts
  Fills <- MCFills
SPECIFICATION Spec
CHECK_DEADLOCK FALSE
INVARIANTS
  BlocksSound
  EditsRight
  ReplacesAll
  FailsClean
  ReadsRight
  SplitsAndJoins
  StreamsInOrder
