\* Four trustees, the proposer of height 1 is down.
SPECIFICATION TimelySpec
CONSTANTS
  NumNodes = 4
  NumTrustees = 4
  Online = {1, 3, 4}
  KPhase = 5
  Draw <- MCDraw
  Block <- MCBlock
  Proof = {}
  None = None
  Offset <- MCOffset
  DrandFloor = 1
  BlockTime = 1
  ClockSkew = 1
  Timeout = 3
  Rebroadcast = 1
  MaxProps = 4
  MaxAtts = 8
  MaxViewProofs = 1
  SignMayFail = FALSE
  Duplicates = FALSE
  Relayback = FALSE
  MaxLosses = 0
  Restartable = {}
  MaxTime = 5
  MaxHeight = 2
PROPERTIES Progress
CHECK_DEADLOCK FALSE
