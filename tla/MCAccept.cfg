CONSTANTS
  Jobs <- MCJobs
  Cuts = {1, 55, 64}
  MaxPieces = 2
  Headers <- MCHeaders
  KnownDigest <- MCKnownDigest
  KnownAccept <- MCKnownAccept
SPECIFICATION Spec
CHECK_DEADLOCK FALSE
INVARIANTS
  DigestsRight
  DecodesBack
  UpgradeRight
