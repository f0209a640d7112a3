\* Committees of two out of three trustees, attempts skipped while frames are in
\* flight and repeat, tables of two entries, a proof that fills a view, signatures
\* that fail and one fast clock.
SPECIFICATION Spec
CONSTANTS
  NumNodes = 3
  NumTrustees = 3
  Online = {1, 2, 3}
  KPhase = 2
  Draw <- MCDraw
  Block <- MCBlock
  Proof = {p}
  None = None
  Ahead = {2}
  Offset <- MCOffset
  DrandFloor = 0
  BlockTime = 1
  ClockSkew = 0
  Timeout = 2
  Rebroadcast = 1
  MaxProps = 2
  MaxAtts = 2
  MaxViewProofs = 0
  SignMayFail = TRUE
  Duplicates = TRUE
  Relayback = TRUE
  Restartable = {}
  MaxTime = 2
  MaxHeight = 2
INVARIANTS TypeOK HeadsCertified CurIsOurs CertifiedAncestry NoPendingFinality
PROPERTIES SignaturesRise
CHECK_DEADLOCK FALSE
