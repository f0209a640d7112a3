\* Up to four peers found for a fan-out of three; every operation may fail.
SPECIFICATION Spec
CONSTANTS
  Fanout = 3
  MaxFound = 4
  OpsMayFail = TRUE
INVARIANTS TypeOK CountsExact CompleteMeansEnded WaitsForSomething
CHECK_DEADLOCK FALSE
