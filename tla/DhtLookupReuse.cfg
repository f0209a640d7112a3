\* One handle, started again by its caller or from inside its own terminal event;
\* nothing obliges a peer to answer.
SPECIFICATION Clocked
CONSTANTS
  NumPeers = 3
  Self = 3
  Seeds = {2}
  Dialable = {1, 2}
  TableOrder <- MCTableOrder
  Handle = {h1}
  NoHandle = NoHandle
  Absent = Absent
  Response <- MCResponse
  Alpha = 2
  CandidateCap = 3
  MaxLookups = 2
  MaxDials = 1
  MaxOwned = 1
  HasDeadline = TRUE
  SendMayFail = TRUE
  HandlerRestarts = TRUE
  ProbeChoices = {TRUE, FALSE}
  MaxConns = 4
  MaxStarts = 2
INVARIANTS TypeOK RecordsMatch RegisteredOnce
PROPERTIES Terminates
CHECK_DEADLOCK FALSE
