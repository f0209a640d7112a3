\* Four trustees, one down; two heights, the first of which may be skipped while its
\* frames are in flight; frames repeat and come back to their sender; the proposer
\* of height 1 may restart and compose again.
SPECIFICATION Spec
CONSTANTS
  NumNodes = 4
  NumTrustees = 4
  Online = {1,2,3}
  KPhase = 5
  Draw <- MCDraw
  Block <- MCBlock
  Proof = {}
  None = None
  Ahead = {}
  Offset <- MCOffset
  DrandFloor = 1
  BlockTime = 1
  ClockSkew = 1
  Timeout = 2
  Rebroadcast = 1
  MaxProps = 4
  MaxAtts = 8
  MaxViewProofs = 1
  SignMayFail = FALSE
  Duplicates = TRUE
  Relayback = TRUE
  Restartable = {2}
  MaxTime = 2
  MaxHeight = 2
INVARIANTS SignOncePerHeight Agreement
PROPERTIES Refinement
CHECK_DEADLOCK FALSE
