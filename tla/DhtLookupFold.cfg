\* A probe with two seeds; responses name peers nobody has dialled.
SPECIFICATION Spec
CONSTANTS
  NumPeers = 4
  Self = 4
  Seeds = {2, 3}
  Dialable = {1, 2, 3}
  TableOrder <- MCTableOrder
  Handle = {h1}
  NoHandle = NoHandle
  Absent = Absent
  Response <- MCResponse
  Alpha = 2
  CandidateCap = 3
  MaxLookups = 2
  MaxDials = 1
  MaxOwned = 1
  HasDeadline = TRUE
  SendMayFail = FALSE
  HandlerRestarts = FALSE
  ProbeChoices = {TRUE}
  MaxConns = 3
  MaxStarts = 1
INVARIANTS TableHoldsReached
CHECK_DEADLOCK FALSE
