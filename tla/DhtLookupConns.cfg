\* Two lookups over the same peers while dials and connections come and go.
SPECIFICATION Spec
CONSTANTS
  NumPeers = 3
  Self = 3
  Seeds = {2}
  Dialable = {1, 2}
  TableOrder <- MCTableOrder
  Handle = {h1, h2}
  NoHandle = NoHandle
  Absent = Absent
  Response <- MCResponse
  Alpha = 2
  CandidateCap = 3
  MaxLookups = 2
  MaxDials = 2
  MaxOwned = 1
  HasDeadline = TRUE
  SendMayFail = FALSE
  HandlerRestarts = FALSE
  ProbeChoices = {TRUE}
  MaxConns = 4
  MaxStarts = 2
INVARIANTS NoStaleConn NoDialStranded
SYMMETRY HandleSymmetry
CHECK_DEADLOCK FALSE
