\* Two trustees; one frame is lost.
SPECIFICATION TimelySpec
CONSTANTS
  NumNodes = 2
  NumTrustees = 2
  Online = {1, 2}
  KPhase = 5
  Draw <- MCDraw
  Block <- MCBlock
  Proof = {}
  None = None
  Offset <- MCOffset
  DrandFloor = 1
  BlockTime = 1
  ClockSkew = 1
  Timeout = 3
  Rebroadcast = 2
  MaxProps = 4
  MaxAtts = 6
  MaxViewProofs = 1
  SignMayFail = FALSE
  Duplicates = FALSE
  Relayback = FALSE
  MaxLosses = 1
  Restartable = {}
  MaxTime = 8
  MaxHeight = 4
PROPERTIES CatchUp
CHECK_DEADLOCK FALSE
