\* Two peers and no local failure: only the transport's own events.
SPECIFICATION Spec
CONSTANTS
  Replication = 2
  MaxFound = 2
  OpsMayFail = FALSE
INVARIANT CompleteMeansEnded
CHECK_DEADLOCK FALSE
