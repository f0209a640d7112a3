\* Up to four peers found for a replication factor of three; every operation may
\* fail.
SPECIFICATION Spec
CONSTANTS
  Replication = 3
  MaxFound = 4
  OpsMayFail = TRUE
INVARIANTS TypeOK AckedExact WaitsForSomething
CHECK_DEADLOCK FALSE
