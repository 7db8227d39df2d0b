SPECIFICATION Spec
CONSTANTS
  SMALL = 2
  U16 = 5
  I31 = 17
  U64 = 64
  Sizes <- MCSizes
  Payloads <- MCPayloads
  Masks <- MCMasks
  Opcodes <- MCOpcodes
  Builds = {TRUE}
INVARIANT LengthAnnounced
CHECK_DEADLOCK FALSE
